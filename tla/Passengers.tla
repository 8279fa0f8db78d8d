----------------------------- MODULE Passengers -----------------------------
(***************************************************************************)
(* The travellers of one departure: who sits where (seat-map.service.ts),  *)
(* who has a room, when the rooming is closed (rooming.service.ts), and    *)
(* the scan that tells the operations office to start it                   *)
(* (rooming-trigger.service.ts).                                           *)
(*                                                                         *)
(* A participant is a row of booking_tourists.  One tourist may have two   *)
(* of them on a departure, of a booking that was cancelled and of the one  *)
(* that followed it.                                                       *)
(***************************************************************************)
EXTENDS TourOperations, BookingStatusMachine

CONSTANTS
    Departure,      \* the tour
    Participants,   \* the rows booking_tourists may have for it
    Tourists,
    TouristOf,      \* [Participants -> Tourists]
    Parties,        \* the ids of the bookings of the departure
    PartyOf,        \* [Participants -> Parties]
    SeatNumbers,    \* the numbers a request may carry; min(1) is their only bound
    Clerks,         \* requests about passengers that may be in flight at once
    PartyMoves,     \* the stages a booking may be moved to
    TouristThreshold, \* CONFIRMED_TOURISTS_THRESHOLD, 30 in the code
    Scanners,       \* the processes that run the scan's worker
    MaxLosses       \* how often a process of the scan or a message may be lost

ASSUME PassengersAssumption ==
    /\ Departure \in Tours
    /\ TouristOf \in [Participants -> Tourists]
    /\ PartyOf \in [Participants -> Parties]
    /\ SeatNumbers \subseteq Nat \ {0}
    /\ PartyMoves \subseteq {"pending", "confirmed", "underway", "absent", "cancelled"}
    /\ TouristThreshold \in Nat /\ MaxLosses \in Nat
    /\ IsFiniteSet(Scanners) /\ IsFiniteSet(Participants)

VARIABLES
    parties,    \* [Parties -> PartyStages], how far the bookings have come
    seatOf,     \* [Participants -> SeatNumbers or 0], the column bus_seat_number
    roomed,     \* the participants with an actual_room_number
    rooming,    \* [HotelBookings -> [final, required: BOOLEAN]]
    alerts,     \* [HotelBookings -> Nat], the alerts sent to the operations office
    near,       \* whether the departure is at most 14 days away
    scans,      \* [Scanners -> the hotel bookings a scan has still to look at]
    telling,    \* [Scanners -> those whose alert the process is still sending]
    losses,     \* how often a process or a message has been lost
    clerks      \* [Clerks -> request], what a request in flight holds

seatVars    == <<parties, seatOf>>
roomVars    == <<roomed, rooming>>
scanVars    == <<alerts, near, scans, telling, losses>>
passengerVars == <<seatVars, roomVars, scanVars, clerks>>

\* 0 is SQL's NULL.
NoSeat == 0

\* The statuses of a booking, as far as passengers notice; "none" is the stage
\* of an id no booking has.
StatusesAt ==
    [pending   |-> {"new", "in_work", "needs_clarification", "pre_booked",
                    "awaiting_payment", "partially_paid"},
     confirmed |-> {"confirmed"},
     underway  |-> {"docs_collected", "ready_to_depart", "on_trip", "completed"},
     absent    |-> {"no_show"},
     cancelled |-> {"cancelled_client", "cancelled_operator", "refund"}]

PartyStages == DOMAIN StatusesAt \union {"none"}

\* Some status of the one stage may be followed by some status of the other.
MayFollow(from, to) ==
    \E s \in StatusesAt[from], next \in StatusesAt[to] : IsValidStatusTransition(s, next)

CONFIRMED_AND_BEYOND == {"confirmed", "underway"}

Confirmed(p) == parties[PartyOf[p]] \in CONFIRMED_AND_BEYOND

\* The bookings whose persons count against the seats of the tour.
Travelling(p) == parties[PartyOf[p]] \notin {"none", "cancelled"}

\* The rows findFirst({ touristId, tourId }) may return: a cancelled booking's
\* are among them, and the query asks for no order.
RowsOf(tourist) == {p \in Participants : TouristOf[p] = tourist
                                         /\ parties[PartyOf[p]] # "none"}

HotelsOfDeparture == {h \in HotelBookings : HotelExists(h) /\ hotels[h].tour = Departure}

RoomingClosed == \E h \in HotelsOfDeparture : rooming[h].final

(***************************************************************************)
(* Bookings, as far as their passengers notice                             *)
(***************************************************************************)

\* A booking is made.  claimSeats may refuse it: the counter and the status it
\* asks for are those of TourInventory, and any outcome of it is allowed here.
BookParty(b) ==
    /\ parties[b] = "none"
    /\ Listed(Departure)
    /\ parties' = [parties EXCEPT ![b] = "pending"]
    /\ UNCHANGED seatOf

\* Nothing of a participant changes with the status of the booking: after a
\* cancellation it still has its seat number.
MoveParty(b, to) ==
    /\ parties[b] # "none"
    /\ MayFollow(parties[b], to)
    /\ parties' = [parties EXCEPT ![b] = to]
    /\ UNCHANGED seatOf

(***************************************************************************)
(* Seat numbers                                                            *)
(***************************************************************************)

\* PATCH /tours/:id/tourist/:touristId/seat finds a row of the tourist.
BeginSeat(c, tourist, p, s) ==
    /\ clerks[c].op = "idle"
    /\ p \in RowsOf(tourist)
    /\ clerks' = [clerks EXCEPT ![c] = [op |-> "seat", row |-> p, seat |-> s,
                                        checked |-> s = NoSeat]]
    /\ UNCHANGED seatVars

\* BR-12: wishes are taken once the booking is confirmed and the rooms are
\* being prepared, and no longer once the rooming is closed.
WishesOpen(p) ==
    /\ Confirmed(p)
    /\ HotelsOfDeparture # {}
    /\ \A h \in HotelsOfDeparture : hotels[h].structure # "draft" /\ ~rooming[h].final

\* PATCH /bookings/:id/tourist/:tId/preferences: the wishes about the room
\* go into the same update and are left out.
BeginWish(c, p, s) ==
    /\ clerks[c].op = "idle"
    /\ WishesOpen(p)
    /\ clerks' = [clerks EXCEPT ![c] = [op |-> "wish", row |-> p, seat |-> s,
                                        checked |-> s = NoSeat]]
    /\ UNCHANGED seatVars

SittingOn(s) == {p \in Participants : seatOf[p] = s}

\* The transaction looks for somebody else on the seat.  Its FOR UPDATE locks
\* the rows that have the number already, none of which is written when one is
\* found, and no row when none is: it adds nothing to this test.
CheckSeat(c) ==
    /\ clerks[c].op \in {"seat", "wish"}
    /\ ~clerks[c].checked
    /\ SittingOn(clerks[c].seat) \subseteq {clerks[c].row}
    /\ clerks' = [clerks EXCEPT ![c].checked = TRUE]
    /\ UNCHANGED seatVars

\* Wrong on purpose: the index is one of the booking, not of the departure.
UniqueWithinBooking(p, s) ==
    \A other \in SittingOn(s) : PartyOf[other] = PartyOf[p] => other = p

\* @@unique([tourId, busSeatNumber]); NULLs do not collide.
UniqueSeatNumber(p, s) == s # NoSeat => SittingOn(s) \subseteq {p}

WriteSeat(c) ==
    /\ clerks[c].op \in {"seat", "wish"}
    /\ clerks[c].checked
    /\ UniqueSeatNumber(clerks[c].row, clerks[c].seat)
    /\ seatOf' = [seatOf EXCEPT ![clerks[c].row] = clerks[c].seat]
    /\ clerks' = [clerks EXCEPT ![c] = Idle]
    /\ UNCHANGED parties

(***************************************************************************)
(* Rooms                                                                   *)
(***************************************************************************)

RoomsOpen == ~RoomingClosed

\* PATCH /tours/:id/rooming/:touristId; a room number of null takes it away.
BeginRoom(c, tourist, p, number) ==
    /\ clerks[c].op = "idle"
    /\ p \in RowsOf(tourist)
    /\ RoomsOpen
    /\ clerks' = [clerks EXCEPT ![c] = [op |-> "room", row |-> p, room |-> number]]
    /\ UNCHANGED roomVars

WriteRoom(c) ==
    /\ clerks[c].op = "room"
    /\ roomed' = IF clerks[c].room THEN roomed \union {clerks[c].row}
                 ELSE roomed \ {clerks[c].row}
    /\ clerks' = [clerks EXCEPT ![c] = Idle]
    /\ UNCHANGED rooming

\* Wrong on purpose: only those just confirmed are counted.
WithoutRoomJustConfirmed ==
    {p \in Participants : parties[PartyOf[p]] = "confirmed"} \ roomed

WithoutRoom == {p \in Participants : Confirmed(p)} \ roomed

\* PATCH /tours/:id/rooming/:hotelBookingId/finalize counts, then writes.
BeginFinalizeRooming(c, h) ==
    /\ clerks[c].op = "idle"
    /\ h \in HotelsOfDeparture
    /\ ~rooming[h].final
    /\ WithoutRoom = {}
    /\ clerks' = [clerks EXCEPT ![c] = [op |-> "close", hotel |-> h]]
    /\ UNCHANGED roomVars

CommitFinalizeRooming(c) ==
    /\ clerks[c].op = "close"
    /\ rooming' = [rooming EXCEPT ![clerks[c].hotel].final = TRUE]
    /\ clerks' = [clerks EXCEPT ![c] = Idle]
    /\ UNCHANGED roomed

\* A request that ends without its write: SEAT_TAKEN, from the test or from the
\* index, an error, the end of the process.
AbandonClerk(c) ==
    /\ clerks[c].op # "idle"
    /\ clerks' = [clerks EXCEPT ![c] = Idle]

(***************************************************************************)
(* The scan (BR-11)                                                        *)
(***************************************************************************)

RoomingDue ==
    near \/ Cardinality({p \in Participants : Confirmed(p)}) >= TouristThreshold

\* Departure comes closer.
ApproachDeparture ==
    /\ ~near
    /\ near' = TRUE
    /\ UNCHANGED <<alerts, scans, telling, losses>>

\* Wrong on purpose: an alert is repeated at every scan.
EveryHotel == HotelsOfDeparture

\* Nothing takes opsRoomingRequired back, so that the window of seven days in
\* which an alert is not repeated never comes to bear.
ScanCandidates == {h \in HotelsOfDeparture : ~rooming[h].required}

\* The job reads its candidates.  Alerts of an earlier one may be on their way.
BeginScan(w) ==
    /\ scans[w] = {}
    /\ ScanCandidates # {}
    /\ scans' = [scans EXCEPT ![w] = ScanCandidates]
    /\ UNCHANGED <<alerts, near, telling, losses, rooming>>

\* Wrong on purpose: nobody is told of a tour that is near.
MarkSilently(w, h) ==
    /\ h \in scans[w]
    /\ scans' = [scans EXCEPT ![w] = @ \ {h}]
    /\ IF RoomingDue
       THEN /\ rooming' = [rooming EXCEPT ![h].required = TRUE]
            /\ telling' = IF near THEN telling ELSE [telling EXCEPT ![w] = @ \union {h}]
       ELSE UNCHANGED <<rooming, telling>>
    /\ UNCHANGED <<alerts, near, losses>>

\* One turn of its loop: the row is marked, then notifyRoomingRequired is
\* started, and not awaited.
MarkHotel(w, h) ==
    /\ h \in scans[w]
    /\ scans' = [scans EXCEPT ![w] = @ \ {h}]
    /\ IF RoomingDue
       THEN /\ rooming' = [rooming EXCEPT ![h].required = TRUE]
            /\ telling' = [telling EXCEPT ![w] = @ \union {h}]
       ELSE UNCHANGED <<rooming, telling>>
    /\ UNCHANGED <<alerts, near, losses>>

\* The message reaches the operations office, while the loop goes on.
TellHotel(w, h) ==
    /\ h \in telling[w]
    /\ telling' = [telling EXCEPT ![w] = @ \ {h}]
    /\ alerts' = [alerts EXCEPT ![h] = @ + 1]
    /\ UNCHANGED <<near, scans, losses, rooming>>

\* Or it does not, which is logged.
LoseAlert(w, h) ==
    /\ h \in telling[w]
    /\ losses < MaxLosses
    /\ telling' = [telling EXCEPT ![w] = @ \ {h}]
    /\ losses' = losses + 1
    /\ UNCHANGED <<alerts, near, scans, rooming>>

\* The process dies, in its loop or with alerts on their way.
CrashScan(w) ==
    /\ scans[w] \union telling[w] # {}
    /\ losses < MaxLosses
    /\ scans' = [scans EXCEPT ![w] = {}]
    /\ telling' = [telling EXCEPT ![w] = {}]
    /\ losses' = losses + 1
    /\ UNCHANGED <<alerts, near, rooming>>

(***************************************************************************)

PassengersInit ==
    /\ parties = [b \in Parties |-> "none"]
    /\ seatOf = [p \in Participants |-> NoSeat]
    /\ roomed = {}
    /\ rooming = [h \in HotelBookings |-> [final |-> FALSE, required |-> FALSE]]
    /\ alerts = [h \in HotelBookings |-> 0]
    /\ near = FALSE
    /\ scans = [w \in Scanners |-> {}]
    /\ telling = [w \in Scanners |-> {}]
    /\ losses = 0
    /\ clerks = [c \in Clerks |-> Idle]

ClerkRequest ==
    {Idle}
    \union [op: {"seat", "wish"}, row: Participants, seat: SeatNumbers \union {NoSeat},
            checked: BOOLEAN]
    \union [op: {"room"}, row: Participants, room: BOOLEAN]
    \union [op: {"close"}, hotel: HotelBookings]

PassengersTypeOK ==
    /\ parties \in [Parties -> PartyStages]
    /\ seatOf \in [Participants -> SeatNumbers \union {NoSeat}]
    /\ roomed \subseteq Participants
    /\ rooming \in [HotelBookings -> [final: BOOLEAN, required: BOOLEAN]]
    /\ alerts \in [HotelBookings -> Nat]
    /\ near \in BOOLEAN
    /\ scans \in [Scanners -> SUBSET HotelBookings]
    /\ telling \in [Scanners -> SUBSET HotelBookings]
    /\ losses \in 0..MaxLosses
    /\ clerks \in [Clerks -> ClerkRequest]

=============================================================================
