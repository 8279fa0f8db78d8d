------------------------------ MODULE TourOffice ------------------------------
(***************************************************************************)
(* The tour office, the operations office, the clerks who seat and room    *)
(* the travellers and the hourly scan at work on one database, and what    *)
(* they must keep of each other's data.                                    *)
(*                                                                         *)
(* load says, for a whole behaviour, which requests arrive (its kinds) and *)
(* on which rows two of them may be in flight at once (its overlap):       *)
(*   "hotel"      two requests on the hotel bookings                       *)
(*   "checklist"  two on one checklist                                     *)
(*   "drivers"    two assignments to one tour                              *)
(*   "costs"      two on one extra or one coach order                      *)
(*   "gate"       a change of status of a tour with any other request on   *)
(*                the tour, its hotel bookings or its checklist            *)
(*   "clerks"     two requests on passengers                               *)
(*   "rooming"    the closing of the rooming with any request on passengers*)
(*   "late"       a confirmation with or after the closing of the rooming  *)
(*   "scan"       two scans, of an old and a new process                   *)
(* and whether the process may stop between two writes ("crash") or be     *)
(* replaced by a new one ("redeploy").  The deployed program allows all of *)
(* it; the properties say what they need.  Rows of different tables share  *)
(* nothing but the gates, so that interleaving, say, extra costs with a    *)
(* checklist would only multiply states.                                   *)
(***************************************************************************)
EXTENDS Passengers

CONSTANT Loads

\* "hotels" is the part of "structure" that orders hotels and approves them.
Kinds    == {"hotels", "structure", "status", "checklist", "drivers", "extras", "coaches",
             "papers", "seats", "wishes", "rooms", "scan"}
Overlaps == {"hotel", "checklist", "drivers", "costs", "gate", "clerks", "rooming", "late",
             "scan", "crash", "redeploy"}

ASSUME LoadsAssumption == Loads \subseteq [kinds: SUBSET Kinds, overlap: SUBSET Overlaps]

VARIABLE load

deskVars   == <<tourVars, gateVars, drivers, costVars, paperVars, office>>
officeVars == <<load, deskVars, passengerVars>>

Init ==
    /\ load \in Loads
    /\ ToursInit
    /\ OperationsInit
    /\ PassengersInit

(***************************************************************************)
(* Which requests may be in flight together                                *)
(***************************************************************************)

StatusInFlight(t) == \E p \in Planners : plans[p].op # "idle" /\ plans[p].tour = t

HotelInFlight ==
    \E o \in Officers : office[o].op \in {"structure", "approve", "finalize"}

ChecklistInFlight(t) == \E o \in Officers : office[o].op = "checklist" /\ office[o].tour = t
DriverInFlight(t)    == \E o \in Officers : office[o].op = "driver" /\ office[o].tour = t
ExtraInFlight(x)     == \E o \in Officers : office[o].op = "extra" /\ office[o].extra = x
TransportInFlight(x) ==
    \E o \in Officers : office[o].op = "transport" /\ office[o].transport = x

MayOverlap(what) == what \in load.overlap

HotelFree        == MayOverlap("hotel") \/ ~HotelInFlight
ChecklistFree(t) == MayOverlap("checklist") \/ ~ChecklistInFlight(t)
DriversFree(t)   == MayOverlap("drivers") \/ ~DriverInFlight(t)

\* Nothing is in flight that could change what a gate of the tour looks at.
GateFree(t) ==
    \/ MayOverlap("gate")
    \/ /\ ~StatusInFlight(t)
       /\ ~ChecklistInFlight(t)
       /\ ~HotelInFlight

ClosingInFlight == \E c \in Clerks : clerks[c].op = "close"

ClerksIdle == \A c \in Clerks : clerks[c].op = "idle"

\* A request on passengers may start; and one that closes the rooming.
ClerkFree   == (MayOverlap("clerks") \/ ClerksIdle)
               /\ (MayOverlap("rooming") \/ ~ClosingInFlight)
ClosingFree == MayOverlap("rooming") \/ ClerksIdle

\* No change of status of the tour is in flight.
NoGate(t) == MayOverlap("gate") \/ ~StatusInFlight(t)

(***************************************************************************)
(* The steps                                                               *)
(***************************************************************************)

TourStep ==
    \/ /\ \E t \in Tours, seats \in Capacities : CreateTour(t, seats)
       /\ UNCHANGED gateVars
    \/ /\ "structure" \in load.kinds
       /\ \/ \E p \in Planners, t \in Tours, seats \in Resizes :
                NoGate(t) /\ BeginResize(p, t, seats)
          \/ \E p \in Planners : CommitResize(p)
       /\ UNCHANGED gateVars
    \/ /\ "status" \in load.kinds
       /\ \/ /\ \E p \in Planners, t \in Tours, to \in TourTargets :
                   GateFree(t) /\ BeginGatedStatus(p, t, to)
             /\ UNCHANGED gateVars
          \/ /\ \/ \E p \in Planners : PassGates(p)
                \/ \E t \in Tours, margin \in Margins : NoGate(t) /\ Reprice(t, margin)
             /\ UNCHANGED tourVars
          \/ \E p \in Planners : CommitGatedStatus(p)
    \/ \E p \in Planners : AbandonGatedPlan(p)

HotelStep ==
    /\ load.kinds \intersect {"hotels", "structure"} # {}
    /\ \E o \in Officers :
          \/ \E h \in HotelBookings, t \in Tours : NoGate(t) /\ CreateHotelBooking(o, h, t)
          \/ \E h \in HotelBookings :
                HotelFree /\ NoGate(hotels[h].tour) /\ BeginApproveStructure(o, h)
          \/ CommitApproveStructure(o)

StructureStep ==
    /\ "structure" \in load.kinds
    /\ \E o \in Officers :
          \/ \E h \in HotelBookings :
                /\ HotelFree /\ NoGate(hotels[h].tour)
                /\ \/ \E rooms \in Structures : BeginSetStructure(o, h, rooms)
                   \/ BeginFinalizeStructure(o, h)
          \/ CommitSetStructure(o)
          \/ CommitFinalizeStructure(o)

ChecklistStep ==
    /\ "checklist" \in load.kinds
    /\ \E o \in Officers :
          \/ \E t \in Tours, item \in CHECKLIST_ITEMS, value \in BOOLEAN :
                ChecklistFree(t) /\ NoGate(t) /\ PatchItem(o, t, item, value)
          \/ StoreReadiness(o)

DriversStep ==
    /\ "drivers" \in load.kinds
    /\ \E o \in Officers :
          \/ \E t \in Tours, d \in Drivers :
                \/ DriversFree(t) /\ BeginAssignDriver(o, t, d)
                \/ UnassignDriver(o, t, d)
          \/ CommitAssignDriver(o)

ExtraStep ==
    /\ "extras" \in load.kinds
    /\ \E o \in Officers :
          \/ \E x \in Extras, t \in Tours, amount \in Costs :
                CreateExtra(o, x, t, [field \in COST_FIELDS |-> amount])
          \/ \E x \in Extras :
                /\ MayOverlap("costs") \/ ~ExtraInFlight(x)
                /\ \/ \E field \in COST_FIELDS, amount \in Costs :
                         BeginPatchExtra(o, x, field, amount)
                   \/ CancelExtra(o, x)
          \/ CommitPatchExtra(o)

CoachStep ==
    /\ "coaches" \in load.kinds
    /\ \E o \in Officers :
          \/ \E x \in Transports, t \in Tours, google, more \in Distances :
                CreateTransport(o, x, t, google, more)
          \/ \E x \in Transports, column \in {"kmGoogle", "kmExtras"}, km \in Distances :
                /\ MayOverlap("costs") \/ ~TransportInFlight(x)
                /\ BeginPatchTransport(o, x, column, km)
          \/ CommitPatchTransport(o)

PaperStep ==
    /\ "papers" \in load.kinds
    /\ \/ \E o \in Officers, x \in Papers : WriteFile(o, x)
       \/ \E o \in Officers : InsertPaper(o)
       \/ MayOverlap("redeploy") /\ Redeploy

\* A checklist request that ends between its two updates takes a crash.
AbandonStep ==
    \E o \in Officers :
        /\ office[o].op = "checklist" => MayOverlap("crash")
        /\ AbandonOffice(o)

OfficeStep ==
    \/ TourStep /\ UNCHANGED <<drivers, costVars, paperVars, office>>
    \/ (HotelStep \/ StructureStep)
       /\ UNCHANGED <<tourVars, margins, cleared, checklists, drivers, costVars, paperVars>>
    \/ ChecklistStep
       /\ UNCHANGED <<tourVars, margins, cleared, hotels, drivers, costVars, paperVars>>
    \/ DriversStep /\ UNCHANGED <<tourVars, gateVars, costVars, paperVars>>
    \/ (ExtraStep \/ CoachStep) /\ UNCHANGED <<tourVars, gateVars, drivers, paperVars>>
    \/ PaperStep /\ UNCHANGED <<tourVars, gateVars, drivers, costVars>>
    \/ AbandonStep /\ UNCHANGED <<tourVars, gateVars, drivers, costVars, paperVars>>

PartyStep ==
    /\ load.kinds \intersect {"seats", "wishes", "rooms", "scan"} # {}
    /\ \E b \in Parties :
          \/ BookParty(b)
          \/ \E to \in PartyMoves :
                /\ to \in CONFIRMED_AND_BEYOND =>
                       MayOverlap("late") \/ (~RoomingClosed /\ ~ClosingInFlight)
                /\ MoveParty(b, to)

SeatStep ==
    /\ load.kinds \intersect {"seats", "wishes"} # {}
    /\ \E c \in Clerks :
          \/ /\ ClerkFree
             /\ \E p \in Participants, s \in SeatNumbers \union {NoSeat} :
                   \/ "seats" \in load.kinds /\ BeginSeat(c, TouristOf[p], p, s)
                   \/ "wishes" \in load.kinds /\ BeginWish(c, p, s)
          \/ CheckSeat(c)
          \/ WriteSeat(c)

RoomStep ==
    /\ "rooms" \in load.kinds
    /\ \E c \in Clerks :
          \/ /\ ClerkFree
             /\ \E p \in Participants, number \in BOOLEAN :
                   BeginRoom(c, TouristOf[p], p, number)
          \/ WriteRoom(c)
          \/ \E h \in HotelBookings : ClosingFree /\ BeginFinalizeRooming(c, h)
          \/ CommitFinalizeRooming(c)

\* The scan of one process.  Nothing in the program starts its worker or calls
\* it (main.ts has both commented out): no fairness is assumed of it.
ScanStep(w) ==
    /\ "scan" \in load.kinds
    /\ \/ /\ MayOverlap("scan") \/ \A v \in Scanners : scans[v] = {}
          /\ BeginScan(w)
       \/ \E h \in HotelBookings : MarkHotel(w, h) \/ TellHotel(w, h) \/ LoseAlert(w, h)

PassengerStep ==
    \/ PartyStep /\ UNCHANGED <<roomVars, scanVars, clerks>>
    \/ SeatStep /\ UNCHANGED <<roomVars, scanVars>>
    \/ RoomStep /\ UNCHANGED <<seatVars, scanVars>>
    \/ (\E c \in Clerks : AbandonClerk(c)) /\ UNCHANGED <<seatVars, roomVars, scanVars>>
    \/ \E w \in Scanners : ScanStep(w) /\ UNCHANGED <<seatVars, roomed, clerks>>
    \/ /\ "scan" \in load.kinds
       /\ \/ ApproachDeparture /\ UNCHANGED rooming
          \/ \E w \in Scanners : CrashScan(w)
       /\ UNCHANGED <<seatVars, roomed, clerks>>

Next ==
    /\ UNCHANGED load
    /\ \/ OfficeStep /\ UNCHANGED passengerVars
       \/ PassengerStep /\ UNCHANGED deskVars

Spec == Init /\ [][Next]_officeVars

TourOfficeTypeOK ==
    load \in Loads /\ ToursTypeOK /\ OperationsTypeOK /\ PassengersTypeOK

(***************************************************************************)
(* What must be kept                                                       *)
(***************************************************************************)

\* OPS-10: the rooms of a structure that has been approved change only by a
\* request of an administrator, unless two requests on one hotel booking
\* overlap (setStructure tests for draft on a read).
ApprovedStructureStands ==
    [][\A h \in HotelBookings :
           /\ hotels[h].structure \in {"approved", "final"}
           /\ hotels'[h].rooms # hotels[h].rooms
           /\ ~MayOverlap("hotel")
           => \E o \in Officers : Holds(o, {"admin"}) /\ office[o].op = "structure"
                                  /\ office[o].hotel = h]_officeVars

Beds(rooms) == rooms.twin + rooms.twin + rooms.double + rooms.double
               + rooms.triple + rooms.triple + rooms.triple + rooms.single

\* BR-10: a hotel is never ordered more beds than the tour has seats, however
\* requests overlap, in an office that only ever enlarges its tours.
BedsWithinSeats ==
    \A h \in HotelBookings : HotelExists(h) =>
        Beds(hotels[h].rooms) <= tours[hotels[h].tour].totalSeats

\* OPS-01: at the moment a tour opens for sale every hotel booked for it has
\* an approved structure, unless a request on those bookings overlaps with the
\* change of status.
OpensWithStructure ==
    [][\A t \in Tours :
           /\ tours[t].status = "draft" /\ tours'[t].status = "open"
           /\ ~MayOverlap("gate")
           => \A h \in HotelBookings :
                  HotelExists(h) /\ hotels[h].tour = t => hotels[h].structure = "approved"]_officeVars

\* OPS-18: at the moment a tour departs every item of its checklist is done,
\* as long as neither two patches, nor a patch and the change of status overlap,
\* nor a patch stops between its two updates, by itself or with its process.
DepartsReady ==
    [][\A t \in Tours :
           /\ tours[t].status # "on_tour" /\ tours'[t].status = "on_tour"
           /\ load.overlap \intersect {"gate", "checklist", "crash", "redeploy"} = {}
           => checklists[t].done = CHECKLIST_ITEMS]_officeVars

\* At most two drivers, and where assignments overlap at most one more for
\* each further request that can be in flight: every one of them counted fewer
\* than two.
DriversWithinLimit ==
    \A t \in Tours :
        Cardinality(drivers[t]) <=
            IF MayOverlap("drivers") THEN MAX_DRIVERS_PER_TOUR - 1 + Cardinality(Officers)
            ELSE MAX_DRIVERS_PER_TOUR

\* The total of an extra is the sum of its columns, however patches of
\* different columns overlap: each writes all of them.
ExtrasAddUp == \A x \in Extras : extras[x].totalCost = sumCosts(extras[x].costs)

\* A document that is listed can be downloaded until the next deployment: its
\* file is on disk before its row is.
ListedPaperHasFile == MayOverlap("redeploy") \/ papers \subseteq files

Sitting == [s \in SeatNumbers |-> SittingOn(s)]
Seating == INSTANCE SeatPlan WITH
    Travellers <- Participants, Seats <- SeatNumbers, sitting <- Sitting

\* Two people never share a seat of the coach, whatever clerks and travellers
\* ask for at once: the seating is that of SeatPlan.
ImplementsSeatPlan == Seating!Spec

\* OPS-16: once the rooming of a hotel is closed, everyone of a confirmed booking
\* has a room, unless something overlapped with the closing or was confirmed
\* after it.
ClosedRoomingIsComplete ==
    RoomingClosed /\ load.overlap \intersect {"rooming", "late"} = {} =>
        \A p \in Participants : Confirmed(p) => p \in roomed

\* The operations office is told once of each hotel booking; once per process
\* where an old and a new one scan together.
AlertedOnce ==
    \A h \in HotelBookings :
        alerts[h] <= IF MayOverlap("scan") THEN Cardinality(Scanners) ELSE 1

\* BR-11: of no hotel booking the operations office is told that is not marked
\* already, and of every one that is marked it has been told or is being told,
\* by some process, unless a process died or a message was lost: nobody comes
\* back to a row that is marked.
MarkedIsTold ==
    \A h \in HotelBookings :
        LET told == alerts[h] > 0 \/ \E w \in Scanners : h \in telling[w]
        IN  /\ told => rooming[h].required
            /\ rooming[h].required /\ losses = 0 => told

===============================================================================
