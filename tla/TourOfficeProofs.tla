--------------------------- MODULE TourOfficeProofs ---------------------------
(***************************************************************************)
(* What is kept of the tour office, the clerks and the scan whatever the   *)
(* constants are: the types; the limit of drivers; the seating SeatPlan    *)
(* promises; listed papers with their files; one alert for each hotel      *)
(* booking; what an approval of rooms protects (OPS-10); what the gates of *)
(* OPS-01 and OPS-18 let through; the totals of the extras; who has a room *)
(* when the rooming is closed; and, in an office that only enlarges its    *)
(* tours, the beds it orders and the seat numbers it has left.             *)
(***************************************************************************)
EXTENDS TourOffice, SumsProofs

(***************************************************************************)
(* Requests of the operations office                                       *)
(***************************************************************************)

\* The requests in flight form a function, and a step begins requests of these
\* kinds at most.
BeginsOnly(kinds) ==
    /\ DOMAIN office' = Officers
    /\ \A o \in Officers : office'[o] = office[o] \/ office'[o].op \in kinds \union {"idle"}

USE DEF Idle

LEMMA HotelBegins ==
    ASSUME DOMAIN office = Officers, HotelStep
    PROVE  BeginsOnly({"approve"})
BY DEF HotelStep, CreateHotelBooking, BeginApproveStructure, CommitApproveStructure, BeginsOnly

\* One request is replaced.
LEMMA OneRequest ==
    ASSUME DOMAIN office = Officers, NEW o \in Officers, NEW request, NEW kinds,
           office' = [office EXCEPT ![o] = request], request.op \in kinds \union {"idle"}
    PROVE  BeginsOnly(kinds)
BY DEF BeginsOnly

LEMMA StructureBegins ==
    ASSUME DOMAIN office = Officers, StructureStep
    PROVE  BeginsOnly({"structure", "finalize"})
<1> PICK o \in Officers :
        \/ \E h \in HotelBookings, rooms \in Structures : BeginSetStructure(o, h, rooms)
        \/ \E h \in HotelBookings : BeginFinalizeStructure(o, h)
        \/ CommitSetStructure(o) \/ CommitFinalizeStructure(o)
    BY DEF StructureStep
<1>1. \/ \E h, rooms : office' = [office EXCEPT ![o] = [op |-> "structure", hotel |-> h, rooms |-> rooms]]
      \/ \E h : office' = [office EXCEPT ![o] = [op |-> "finalize", hotel |-> h]]
      \/ office' = [office EXCEPT ![o] = Idle]
    BY DEF BeginSetStructure, CommitSetStructure, BeginFinalizeStructure, CommitFinalizeStructure
<1> QED
    BY <1>1, OneRequest

LEMMA ChecklistBegins ==
    ASSUME DOMAIN office = Officers, ChecklistStep
    PROVE  BeginsOnly({"checklist"})
<1> PICK o \in Officers :
        \/ \E t \in Tours, item \in CHECKLIST_ITEMS, value \in BOOLEAN : PatchItem(o, t, item, value)
        \/ StoreReadiness(o)
    BY DEF ChecklistStep
<1>1. \/ \E t, share : office' = [office EXCEPT ![o] = [op |-> "checklist", tour |-> t, readiness |-> share]]
      \/ office' = [office EXCEPT ![o] = Idle]
    BY DEF PatchItem, StoreReadiness
<1> QED
    BY <1>1, OneRequest

LEMMA DriversBegins ==
    ASSUME DOMAIN office = Officers, DriversStep
    PROVE  BeginsOnly({"driver"})
<1> PICK o \in Officers :
        \/ \E t \in Tours, d \in Drivers : BeginAssignDriver(o, t, d) \/ UnassignDriver(o, t, d)
        \/ CommitAssignDriver(o)
    BY DEF DriversStep
<1>1. \/ \E t, d : office' = [office EXCEPT ![o] = [op |-> "driver", tour |-> t, driver |-> d]]
      \/ office' = [office EXCEPT ![o] = Idle]
      \/ office' = office
    BY DEF BeginAssignDriver, CommitAssignDriver, UnassignDriver
<1> QED
    BY <1>1, OneRequest DEF BeginsOnly

LEMMA CostBegins ==
    ASSUME DOMAIN office = Officers, ExtraStep \/ CoachStep
    PROVE  BeginsOnly({"extra", "transport"})
<1>1. CASE ExtraStep
    <2> PICK o \in Officers :
            \/ \E x, t, costs : CreateExtra(o, x, t, costs)
            \/ \E x, field, amount : BeginPatchExtra(o, x, field, amount)
            \/ \E x : CancelExtra(o, x)
            \/ CommitPatchExtra(o)
        BY <1>1 DEF ExtraStep
    <2>1. \/ \E request : office' = [office EXCEPT ![o] = request] /\ request.op \in {"extra", "idle"}
          \/ office' = office
        BY DEF CreateExtra, BeginPatchExtra, CancelExtra, CommitPatchExtra
    <2> QED
        BY <2>1, OneRequest DEF BeginsOnly
<1>2. CASE CoachStep
    <2> PICK o \in Officers :
            \/ \E x, t, google, more : CreateTransport(o, x, t, google, more)
            \/ \E x, column, km : BeginPatchTransport(o, x, column, km)
            \/ CommitPatchTransport(o)
        BY <1>2 DEF CoachStep
    <2>1. \/ \E request : office' = [office EXCEPT ![o] = request] /\ request.op \in {"transport", "idle"}
          \/ office' = office
        BY DEF CreateTransport, BeginPatchTransport, CommitPatchTransport
    <2> QED
        BY <2>1, OneRequest DEF BeginsOnly
<1> QED
    BY <1>1, <1>2

LEMMA PaperBegins ==
    ASSUME DOMAIN office = Officers, PaperStep
    PROVE  BeginsOnly({"paper"})
BY DEF PaperStep, WriteFile, InsertPaper, Redeploy, BeginsOnly

LEMMA AbandonBegins ==
    ASSUME DOMAIN office = Officers, AbandonStep
    PROVE  BeginsOnly({})
BY DEF AbandonStep, AbandonOffice, BeginsOnly

LEMMA StutterBegins ==
    ASSUME DOMAIN office = Officers, UNCHANGED office
    PROVE  BeginsOnly({})
BY DEF BeginsOnly

\* Where the requests are a function at the start, they are one ever after.
LEMMA OfficeDomain ==
    ASSUME DOMAIN office = Officers, [Next]_officeVars
    PROVE  DOMAIN office' = Officers
<1>1. CASE OfficeStep
    BY <1>1, HotelBegins, StructureBegins, ChecklistBegins, DriversBegins, CostBegins, PaperBegins,
       AbandonBegins, StutterBegins DEF OfficeStep, BeginsOnly
<1>2. CASE UNCHANGED office
    BY <1>2
<1> QED
    BY <1>1, <1>2 DEF Next, officeVars, deskVars

(***************************************************************************)
(* Drivers                                                                 *)
(***************************************************************************)

\* The assignments to a tour that have counted its drivers.
Assigning(t) == {o \in Officers : office[o].op = "driver" /\ office[o].tour = t}

DriverBound ==
    IF MayOverlap("drivers") THEN MAX_DRIVERS_PER_TOUR - 1 + Cardinality(Officers)
    ELSE MAX_DRIVERS_PER_TOUR

\* A request that has counted already has its place.
DriversInv ==
    /\ DOMAIN office = Officers
    /\ DOMAIN drivers = Tours
    /\ \A t \in Tours :
          /\ IsFiniteSet(drivers[t])
          /\ Cardinality(drivers[t]) + Cardinality(Assigning(t)) <= DriverBound

LEMMA AssigningFinite ==
    ASSUME NEW t \in Tours
    PROVE  /\ IsFiniteSet(Assigning(t))
           /\ Cardinality(Assigning(t)) \in 0..Cardinality(Officers)
           /\ Cardinality(Officers) \in Nat
<1>1. IsFiniteSet(Officers) /\ Assigning(t) \subseteq Officers
    BY OfficeAssumption DEF Assigning
<1>2. IsFiniteSet(Assigning(t)) /\ Cardinality(Assigning(t)) <= Cardinality(Officers)
    BY <1>1, FS_Subset
<1> QED
    BY <1>1, <1>2, FS_CardinalityType

LEMMA InitDrivers == Init => DriversInv
<1> SUFFICES ASSUME Init PROVE DriversInv
    OBVIOUS
<1>1. /\ office = [o \in Officers |-> Idle] /\ drivers = [t \in Tours |-> {}]
      /\ \A t \in Tours : Assigning(t) = {}
    BY DEF Init, OperationsInit, Assigning
<1>2. DriverBound \in Nat
    BY OfficeAssumption, FS_CardinalityType DEF DriverBound, MAX_DRIVERS_PER_TOUR
<1>3. IsFiniteSet({}) /\ Cardinality({}) = 0
    BY FS_EmptySet
<1> QED
    BY <1>1, <1>2, <1>3 DEF DriversInv

\* Requests that go, and other requests that come, leave room.
LEMMA FewerAssigning ==
    ASSUME DriversInv, UNCHANGED <<load, drivers>>, NEW kinds, BeginsOnly(kinds), "driver" \notin kinds
    PROVE  DriversInv'
<1>1. \A t \in Tours : Assigning(t)' \subseteq Assigning(t)
    BY DEF BeginsOnly, Assigning
<1>2. \A t \in Tours : Cardinality(Assigning(t)') <= Cardinality(Assigning(t))
    BY <1>1, AssigningFinite, FS_Subset
<1>3. \A t \in Tours : /\ Cardinality(Assigning(t)) \in Nat
                       /\ Cardinality(Assigning(t)') \in Nat
                       /\ Cardinality(drivers[t]) \in Nat
    BY <1>1, AssigningFinite, FS_Subset, FS_CardinalityType DEF DriversInv
<1>4. DriverBound' = DriverBound /\ DriverBound \in Nat
    BY OfficeAssumption, FS_CardinalityType DEF DriverBound, MayOverlap, MAX_DRIVERS_PER_TOUR
<1> QED
    BY <1>2, <1>3, <1>4 DEF DriversInv, BeginsOnly

LEMMA DriversStepKeepsInv ==
    ASSUME DriversInv, DriversStep, UNCHANGED load
    PROVE  DriversInv'
<1>0. DriverBound' = DriverBound /\ DriverBound \in Nat
    BY OfficeAssumption, FS_CardinalityType DEF DriverBound, MayOverlap, MAX_DRIVERS_PER_TOUR
<1>1. \A t \in Tours : Cardinality(Assigning(t)) \in Nat /\ Cardinality(drivers[t]) \in Nat
    BY AssigningFinite, FS_CardinalityType DEF DriversInv
<1>2. ASSUME NEW o \in Officers, NEW t \in Tours, NEW d \in Drivers,
             DriversFree(t), BeginAssignDriver(o, t, d)
      PROVE  DriversInv'
    <2>1. /\ Assigning(t)' = Assigning(t) \union {o} /\ o \notin Assigning(t)
          /\ \A u \in Tours \ {t} : Assigning(u)' = Assigning(u)
          /\ UNCHANGED drivers /\ DOMAIN office' = Officers
        BY <1>2 DEF BeginAssignDriver, Assigning, DriversInv
    <2>2. Cardinality(Assigning(t)') = Cardinality(Assigning(t)) + 1
        BY <2>1, AssigningFinite, FS_AddElement
    <2>3. Cardinality(Assigning(t)') <= Cardinality(Officers)
        <3>1. Assigning(t)' \subseteq Officers
            BY DEF Assigning
        <3> QED
            BY <3>1, OfficeAssumption, FS_Subset
    <2>4. Cardinality(drivers[t]) < 2
        BY <1>2 DEF BeginAssignDriver, HasRoomForDriver, MAX_DRIVERS_PER_TOUR
    <2>5. ~MayOverlap("drivers") => Cardinality(Assigning(t)) = 0
        BY <1>2, FS_EmptySet DEF DriversFree, DriverInFlight, Assigning
    <2>6. Cardinality(drivers[t]) + Cardinality(Assigning(t)') <= DriverBound
        BY <1>1, <2>2, <2>3, <2>4, <2>5, OfficeAssumption, FS_CardinalityType
        DEF DriverBound, MAX_DRIVERS_PER_TOUR
    <2> QED
        BY <1>0, <2>1, <2>6 DEF DriversInv
<1>3. ASSUME NEW o \in Officers, CommitAssignDriver(o)
      PROVE  DriversInv'
    <2> PICK t, d : t = office[o].tour /\ d = office[o].driver
        OBVIOUS
    <2>0. /\ office[o].op = "driver" /\ d \notin drivers[t]
          /\ drivers' = [drivers EXCEPT ![t] = @ \union {d}]
          /\ office' = [office EXCEPT ![o] = Idle]
          /\ DOMAIN office = Officers /\ DOMAIN drivers = Tours
        BY <1>3 DEF CommitAssignDriver, DriversInv
    <2>1. /\ \A u \in Tours \ {t} : Assigning(u)' = Assigning(u) /\ drivers'[u] = drivers[u]
          /\ DOMAIN office' = Officers /\ DOMAIN drivers' = Tours
        BY <2>0 DEF Assigning
    <2>2. CASE t \in Tours
        <3>1. /\ o \in Assigning(t) /\ Assigning(t)' = Assigning(t) \ {o}
              /\ d \notin drivers[t] /\ drivers'[t] = drivers[t] \union {d}
            BY <2>0, <2>2 DEF Assigning
        <3>2. Cardinality(Assigning(t)') = Cardinality(Assigning(t)) - 1
            <4>1. IsFiniteSet(Assigning(t)) /\ Cardinality(Assigning(t)) \in Nat
                BY <2>2, AssigningFinite
            <4>2. Cardinality(Assigning(t) \ {o}) = Cardinality(Assigning(t)) - 1
                BY <3>1, <4>1, FS_RemoveElement
            <4> QED
                BY <3>1, <4>2
        <3>3. IsFiniteSet(drivers'[t]) /\ Cardinality(drivers'[t]) = Cardinality(drivers[t]) + 1
            <4>1. IsFiniteSet(drivers[t])
                BY <2>2 DEF DriversInv
            <4>2. /\ IsFiniteSet(drivers[t] \union {d})
                  /\ Cardinality(drivers[t] \union {d}) = Cardinality(drivers[t]) + 1
                BY <3>1, <4>1, FS_AddElement
            <4> QED
                BY <3>1, <4>2
        <3>4. Cardinality(drivers'[t]) + Cardinality(Assigning(t)') <= DriverBound
            BY <1>0, <1>1, <2>2, <3>2, <3>3 DEF DriversInv
        <3> QED
            BY <1>0, <2>1, <2>2, <3>3, <3>4 DEF DriversInv
    <2>3. CASE t \notin Tours
        BY <1>0, <2>1, <2>3 DEF DriversInv
    <2> QED
        BY <2>2, <2>3
<1>4. ASSUME NEW o \in Officers, NEW t \in Tours, NEW d \in Drivers, UnassignDriver(o, t, d)
      PROVE  DriversInv'
    <2>0. /\ d \in drivers[t] /\ drivers' = [drivers EXCEPT ![t] = @ \ {d}]
          /\ office' = office /\ DOMAIN drivers = Tours /\ DOMAIN office = Officers
        BY <1>4 DEF UnassignDriver, DriversInv
    <2>1. /\ \A u \in Tours : Assigning(u)' = Assigning(u)
          /\ \A u \in Tours \ {t} : drivers'[u] = drivers[u]
          /\ drivers'[t] = drivers[t] \ {d}
          /\ DOMAIN office' = Officers /\ DOMAIN drivers' = Tours
        BY <2>0 DEF Assigning
    <2>2. IsFiniteSet(drivers'[t]) /\ Cardinality(drivers'[t]) = Cardinality(drivers[t]) - 1
        BY <2>0, <2>1, FS_RemoveElement DEF DriversInv
    <2>3. ASSUME NEW u \in Tours
          PROVE  /\ IsFiniteSet(drivers'[u])
                 /\ Cardinality(drivers'[u]) + Cardinality(Assigning(u)') <= DriverBound
        <3>1. Cardinality(Assigning(u)') = Cardinality(Assigning(u))
            BY <2>1
        <3>2. IsFiniteSet(drivers'[u]) /\ Cardinality(drivers'[u]) <= Cardinality(drivers[u])
            <4>1. CASE u = t
                BY <1>1, <2>2, <4>1
            <4>2. CASE u # t
                BY <1>1, <2>1, <4>2 DEF DriversInv
            <4> QED
                BY <4>1, <4>2
        <3>3. Cardinality(drivers'[u]) \in Nat /\ Cardinality(drivers[u]) \in Nat
            BY <1>1, <3>2, FS_CardinalityType
        <3> QED
            BY <1>0, <1>1, <3>1, <3>2, <3>3 DEF DriversInv
    <2> QED
        BY <1>0, <2>1, <2>3 DEF DriversInv
<1> QED
    BY <1>2, <1>3, <1>4 DEF DriversStep

LEMMA NextDrivers == DriversInv /\ [Next]_officeVars => DriversInv'
<1> SUFFICES ASSUME DriversInv, [Next]_officeVars PROVE DriversInv'
    OBVIOUS
<1>1. UNCHANGED load
    BY DEF Next, officeVars
<1>2. DOMAIN office = Officers
    BY DEF DriversInv
<1>3. CASE OfficeStep
    <2>1. \/ DriversStep
          \/ UNCHANGED drivers /\ \E kinds \in {{"approve"}, {"structure", "finalize"}, {"checklist"},
                {"extra", "transport"}, {"paper"}, {}} : BeginsOnly(kinds)
        BY <1>2, <1>3, HotelBegins, StructureBegins, ChecklistBegins, CostBegins, PaperBegins,
           AbandonBegins, StutterBegins DEF OfficeStep
    <2> QED
        BY <1>1, <2>1, DriversStepKeepsInv, FewerAssigning
<1>4. CASE UNCHANGED <<office, drivers>>
    BY <1>1, <1>2, <1>4, StutterBegins, FewerAssigning
<1> QED
    BY <1>3, <1>4 DEF Next, officeVars, deskVars

\* At most two drivers on a tour, or one more for each request beyond the first
\* that may be in flight: for any number of requests, tours and drivers.
THEOREM DriversLimited == Spec => []DriversWithinLimit
<1>1. Init => DriversInv
    BY InitDrivers
<1>2. DriversInv /\ [Next]_officeVars => DriversInv'
    BY NextDrivers
<1>3. DriversInv => DriversWithinLimit
    <2>1. ASSUME DriversInv, NEW t \in Tours PROVE Cardinality(drivers[t]) <= DriverBound
        BY <2>1, AssigningFinite, OfficeAssumption, FS_CardinalityType
        DEF DriversInv, DriverBound, MAX_DRIVERS_PER_TOUR
    <2> QED
        BY <2>1 DEF DriversWithinLimit, DriverBound
<1> QED
    BY <1>1, <1>2, <1>3, PTL DEF Spec

(***************************************************************************)
(* Seats                                                                   *)
(***************************************************************************)

AnySeat == SeatNumbers \union {NoSeat}

\* What requests in flight carry is a seat, or none, for a participant.
SeatInv ==
    /\ seatOf \in [Participants -> AnySeat]
    /\ DOMAIN clerks = Clerks
    /\ \A c \in Clerks :
          clerks[c].op \in {"seat", "wish"} => clerks[c].row \in Participants /\ clerks[c].seat \in AnySeat

\* One request about passengers is replaced by another that is not about a seat,
\* or is about one for a participant.
LEMMA OneClerk ==
    ASSUME SeatInv, NEW c \in Clerks, NEW request, UNCHANGED seatOf,
           clerks' = [clerks EXCEPT ![c] = request],
           request.op \in {"seat", "wish"} => request.row \in Participants /\ request.seat \in AnySeat
    PROVE  SeatInv'
BY DEF SeatInv, AnySeat

LEMMA RoomStepSeats == ASSUME SeatInv, RoomStep, UNCHANGED seatVars PROVE SeatInv'
<1> PICK c \in Clerks : \/ \E tourist, p, number : BeginRoom(c, tourist, p, number)
                        \/ WriteRoom(c)
                        \/ \E h : BeginFinalizeRooming(c, h)
                        \/ CommitFinalizeRooming(c)
    BY DEF RoomStep
<1>1. \E request : /\ clerks' = [clerks EXCEPT ![c] = request]
                   /\ request.op \in {"room", "close", "idle"}
    BY DEF BeginRoom, WriteRoom, BeginFinalizeRooming, CommitFinalizeRooming
<1> QED
    BY <1>1, OneClerk DEF seatVars

LEMMA BeginSeats ==
    ASSUME SeatInv, NEW c \in Clerks, NEW p \in Participants, NEW s \in AnySeat,
           BeginSeat(c, TouristOf[p], p, s) \/ BeginWish(c, p, s)
    PROVE  SeatInv' /\ UNCHANGED seatOf
BY OneClerk DEF BeginSeat, BeginWish, seatVars

LEMMA CheckSeats == ASSUME SeatInv, NEW c \in Clerks, CheckSeat(c) PROVE SeatInv' /\ UNCHANGED seatOf
BY DEF CheckSeat, SeatInv, AnySeat, seatVars

LEMMA AbandonSeats == ASSUME SeatInv, NEW c \in Clerks, AbandonClerk(c), UNCHANGED seatVars PROVE SeatInv'
BY OneClerk DEF AbandonClerk, seatVars

\* The index lets a write through only on a free seat, or on the traveller's own.
LEMMA WriteSeats ==
    ASSUME SeatInv, NEW c \in Clerks, WriteSeat(c)
    PROVE  SeatInv' /\ Seating!Next
<1> PICK p, s : p = clerks[c].row /\ s = clerks[c].seat
    OBVIOUS
<1>1. /\ p \in Participants /\ s \in AnySeat
      /\ seatOf \in [Participants -> AnySeat]
      /\ seatOf' = [seatOf EXCEPT ![p] = s]
      /\ clerks' = [clerks EXCEPT ![c] = Idle]
      /\ s # NoSeat => SittingOn(s) \subseteq {p}
    BY DEF WriteSeat, SeatInv, UniqueSeatNumber
<1>2. SeatInv'
    BY <1>1 DEF SeatInv, AnySeat
<1>3. ASSUME NEW r \in SeatNumbers
      PROVE  SittingOn(r)' = IF r = s THEN SittingOn(r) \union {p} ELSE SittingOn(r) \ {p}
    BY <1>1 DEF SittingOn, AnySeat
<1>4. CASE s = NoSeat
    <2>1. s \notin SeatNumbers
        BY <1>4, PassengersAssumption DEF NoSeat
    <2>2. Sitting' = [r \in SeatNumbers |-> Sitting[r] \ {p}]
        BY <1>3, <2>1 DEF Sitting
    <2> QED
        BY <1>1, <1>2, <2>2 DEF Seating!Next, Seating!GetUp
<1>5. CASE s # NoSeat
    <2>1. s \in SeatNumbers /\ Sitting[s] \subseteq {p}
        BY <1>1, <1>5 DEF Sitting, AnySeat
    <2>2. Sitting' = [r \in SeatNumbers |-> IF r = s THEN {p} ELSE Sitting[r] \ {p}]
        BY <1>3, <2>1 DEF Sitting
    <2> QED
        BY <1>1, <1>2, <2>1, <2>2 DEF Seating!Next, Seating!Take
<1> QED
    BY <1>4, <1>5

LEMMA NextSeats == SeatInv /\ [Next]_officeVars => SeatInv' /\ [Seating!Next]_Sitting
<1> SUFFICES ASSUME SeatInv, [Next]_officeVars PROVE SeatInv' /\ [Seating!Next]_Sitting
    OBVIOUS
<1>1. UNCHANGED seatOf => UNCHANGED Sitting
    BY DEF Sitting, SittingOn
<1>2. UNCHANGED <<seatOf, clerks>> => SeatInv'
    BY DEF SeatInv, AnySeat
<1>3. CASE PartyStep /\ UNCHANGED clerks
    BY <1>1, <1>2, <1>3 DEF PartyStep, BookParty, MoveParty
<1>4. CASE SeatStep
    <2> PICK c \in Clerks :
            \/ \E p \in Participants, s \in AnySeat : BeginSeat(c, TouristOf[p], p, s) \/ BeginWish(c, p, s)
            \/ CheckSeat(c) \/ WriteSeat(c)
        BY <1>4 DEF SeatStep, AnySeat
    <2> QED
        BY <1>1, BeginSeats, CheckSeats, WriteSeats
<1>5. CASE RoomStep /\ UNCHANGED seatVars
    BY <1>1, <1>5, RoomStepSeats DEF seatVars
<1>6. CASE UNCHANGED seatVars /\ \E c \in Clerks : AbandonClerk(c)
    BY <1>1, <1>6, AbandonSeats DEF seatVars
<1>7. CASE UNCHANGED <<seatVars, clerks>>
    BY <1>1, <1>2, <1>7 DEF seatVars
<1> QED
    BY <1>3, <1>4, <1>5, <1>6, <1>7 DEF Next, PassengerStep, officeVars, passengerVars, roomVars, scanVars

LEMMA InitSeats == Init => SeatInv /\ Seating!Init
<1> SUFFICES ASSUME Init PROVE SeatInv /\ Seating!Init
    OBVIOUS
<1>1. seatOf = [p \in Participants |-> NoSeat] /\ clerks = [c \in Clerks |-> Idle]
    BY DEF Init, PassengersInit
<1>2. SeatInv
    BY <1>1 DEF SeatInv, AnySeat
<1>3. \A s \in SeatNumbers : SittingOn(s) = {}
    BY <1>1, PassengersAssumption DEF SittingOn, NoSeat
<1> QED
    BY <1>2, <1>3 DEF Seating!Init, Sitting

\* However many clerks and travellers ask at once, and whatever of bookings is
\* made or cancelled meanwhile, seats are taken and left as SeatPlan promises.
THEOREM SeatsAreAPlan == Spec => ImplementsSeatPlan
<1>1. Init => SeatInv /\ Seating!Init
    BY InitSeats
<1>2. SeatInv /\ [Next]_officeVars => SeatInv' /\ [Seating!Next]_Sitting
    BY NextSeats
<1> QED
    BY <1>1, <1>2, PTL DEF Spec, ImplementsSeatPlan, Seating!Spec

(***************************************************************************)
(* Papers                                                                  *)
(***************************************************************************)

\* A request whose file is written still has it when it inserts the row.
PaperInv ==
    /\ DOMAIN office = Officers
    /\ ~MayOverlap("redeploy") =>
          /\ papers \subseteq files
          /\ \A o \in Officers : office[o].op = "paper" => office[o].paper \in files

LEMMA OtherBegins ==
    ASSUME PaperInv, UNCHANGED <<load, papers, files>>, NEW kinds, BeginsOnly(kinds), "paper" \notin kinds
    PROVE  PaperInv'
BY DEF PaperInv, BeginsOnly, MayOverlap

LEMMA PaperStepKeepsInv ==
    ASSUME PaperInv, PaperStep, UNCHANGED load
    PROVE  PaperInv'
<1>1. ASSUME NEW o \in Officers, NEW x \in Papers, WriteFile(o, x)
      PROVE  PaperInv'
    BY <1>1 DEF PaperInv, WriteFile, MayOverlap
<1>2. ASSUME NEW o \in Officers, InsertPaper(o)
      PROVE  PaperInv'
    BY <1>2 DEF PaperInv, InsertPaper, MayOverlap
<1>3. CASE MayOverlap("redeploy") /\ Redeploy
    BY <1>3 DEF PaperInv, Redeploy, MayOverlap
<1> QED
    BY <1>1, <1>2, <1>3 DEF PaperStep

LEMMA NextPapers == PaperInv /\ [Next]_officeVars => PaperInv'
<1> SUFFICES ASSUME PaperInv, [Next]_officeVars PROVE PaperInv'
    OBVIOUS
<1>1. UNCHANGED load /\ DOMAIN office = Officers
    BY DEF Next, officeVars, PaperInv
<1>2. CASE OfficeStep
    <2>1. \/ PaperStep
          \/ UNCHANGED paperVars /\ \E kinds \in {{"approve"}, {"structure", "finalize"}, {"checklist"},
                {"driver"}, {"extra", "transport"}, {}} : BeginsOnly(kinds)
        BY <1>1, <1>2, HotelBegins, StructureBegins, ChecklistBegins, DriversBegins, CostBegins,
           AbandonBegins, StutterBegins DEF OfficeStep
    <2> QED
        BY <1>1, <2>1, PaperStepKeepsInv, OtherBegins DEF paperVars
<1>3. CASE UNCHANGED <<office, paperVars>>
    BY <1>1, <1>3, StutterBegins, OtherBegins DEF paperVars
<1> QED
    BY <1>2, <1>3 DEF Next, officeVars, deskVars

\* However many documents are rendered at once and whichever requests fail
\* half-way, what is listed is on disk until a deployment.
THEOREM ListedPapersAreOnDisk == Spec => []ListedPaperHasFile
<1>1. Init => PaperInv
    BY DEF Init, OperationsInit, PaperInv
<1>2. PaperInv => ListedPaperHasFile
    BY DEF PaperInv, ListedPaperHasFile
<1> QED
    BY <1>1, <1>2, NextPapers, PTL DEF Spec

(***************************************************************************)
(* Alerts                                                                  *)
(***************************************************************************)

\* The processes that have still to look at a hotel booking, or to tell of it.
Looking(h) == {w \in Scanners : h \in scans[w] \union telling[w]}

RoomingTable == [HotelBookings -> [final: BOOLEAN, required: BOOLEAN]]

AlertBound == IF MayOverlap("scan") THEN Cardinality(Scanners) ELSE 1

\* A scan reads as candidates what nobody was told of: an alert that was sent, or
\* that a scan may still send, is one of those the bound allows.
AlertInv ==
    /\ DOMAIN scans = Scanners /\ DOMAIN telling = Scanners
    /\ DOMAIN alerts = HotelBookings /\ rooming \in RoomingTable /\ losses \in Nat
    /\ \A w \in Scanners : scans[w] \subseteq HotelBookings /\ telling[w] \subseteq HotelBookings
    /\ \A w \in Scanners : scans[w] \intersect telling[w] = {}
    /\ \A w \in Scanners : \A h \in telling[w] : rooming[h].required
    /\ \A h \in HotelBookings :
          /\ alerts[h] \in Nat
          /\ rooming[h].required /\ losses = 0 =>
                 alerts[h] > 0 \/ \E w \in Scanners : h \in telling[w]
          /\ alerts[h] > 0 => rooming[h].required
          /\ alerts[h] + Cardinality(Looking(h)) <= AlertBound

LEMMA LookingFinite ==
    ASSUME NEW h
    PROVE  /\ IsFiniteSet(Looking(h)) /\ Cardinality(Looking(h)) \in Nat
           /\ Cardinality(Looking(h)) <= Cardinality(Scanners)
           /\ Cardinality(Scanners) \in Nat
<1>1. Looking(h) \subseteq Scanners /\ IsFiniteSet(Scanners)
    BY PassengersAssumption DEF Looking
<1> QED
    BY <1>1, FS_Subset, FS_CardinalityType

\* Scans and alerts that end, whatever is written of the hotel bookings but
\* their marks.
LEMMA FewerLooking ==
    ASSUME AlertInv, UNCHANGED <<load, alerts>>,
           DOMAIN scans' = Scanners, DOMAIN telling' = Scanners,
           \A w \in Scanners : scans'[w] \subseteq scans[w] /\ telling'[w] \subseteq telling[w],
           losses' \in Nat, losses' = 0 => losses = 0 /\ UNCHANGED telling,
           rooming' \in RoomingTable,
           \A h \in HotelBookings : rooming'[h].required = rooming[h].required
    PROVE  AlertInv'
<1>1. AlertBound' = AlertBound /\ AlertBound \in Nat
    BY LookingFinite DEF AlertBound, MayOverlap
<1>2. ASSUME NEW h \in HotelBookings
      PROVE  alerts[h] + Cardinality(Looking(h)') <= AlertBound
    <2>1. Looking(h)' \subseteq Looking(h)
        BY DEF Looking
    <2>2. Cardinality(Looking(h)') <= Cardinality(Looking(h)) /\ Cardinality(Looking(h)') \in Nat
        BY <2>1, LookingFinite, FS_Subset, FS_CardinalityType
    <2> QED
        BY <1>1, <2>2, LookingFinite DEF AlertInv
<1>3. ASSUME NEW w \in Scanners
      PROVE  /\ scans'[w] \subseteq HotelBookings /\ telling'[w] \subseteq HotelBookings
             /\ scans'[w] \intersect telling'[w] = {}
             /\ \A h \in telling'[w] : rooming'[h].required
    BY DEF AlertInv
<1>4. ASSUME NEW h \in HotelBookings, rooming'[h].required, losses' = 0
      PROVE  alerts'[h] > 0 \/ \E w \in Scanners : h \in telling'[w]
    BY <1>4 DEF AlertInv
<1> QED
    BY <1>1, <1>2, <1>3, <1>4 DEF AlertInv

LEMMA BeginScanAlerts ==
    ASSUME AlertInv, NEW w \in Scanners, BeginScan(w), UNCHANGED load,
           MayOverlap("scan") \/ \A v \in Scanners : scans[v] = {}
    PROVE  AlertInv'
<1>0. AlertBound' = AlertBound /\ AlertBound \in Nat
    BY LookingFinite DEF AlertBound, MayOverlap
<1>1. ASSUME NEW h \in HotelBookings
      PROVE  alerts[h] + Cardinality(Looking(h)') <= AlertBound
    <2>1. CASE h \notin ScanCandidates
        <3>1. Looking(h)' = Looking(h)
            BY <2>1 DEF BeginScan, Looking, AlertInv
        <3> QED
            BY <3>1 DEF AlertInv
    <2>2. CASE h \in ScanCandidates
        <3>1. ~rooming[h].required
            BY <2>2 DEF ScanCandidates
        <3>2. alerts[h] = 0 /\ \A v \in Scanners : h \notin telling[v]
            BY <3>1 DEF AlertInv
        <3>3. Looking(h)' = Looking(h) \union {w} /\ w \notin Looking(h)
            BY <2>2, <3>2 DEF BeginScan, Looking, AlertInv
        <3>4. Cardinality(Looking(h)') = Cardinality(Looking(h)) + 1
            BY <3>3, LookingFinite, FS_AddElement
        <3>5. Looking(h)' \subseteq Scanners /\ IsFiniteSet(Scanners)
            BY PassengersAssumption DEF Looking
        <3>6. Cardinality(Looking(h)') <= Cardinality(Scanners)
            BY <3>5, FS_Subset
        <3>7. ~MayOverlap("scan") => Cardinality(Looking(h)) = 0
            BY <3>2, FS_EmptySet DEF Looking
        <3> QED
            BY <3>2, <3>4, <3>6, <3>7, LookingFinite DEF AlertBound
    <2> QED
        BY <2>1, <2>2
<1>2. /\ DOMAIN scans' = Scanners /\ UNCHANGED <<alerts, rooming, telling, losses>>
      /\ \A v \in Scanners : scans'[v] \subseteq HotelBookings
    BY DEF BeginScan, AlertInv, ScanCandidates, HotelsOfDeparture
<1>3. ASSUME NEW v \in Scanners PROVE scans'[v] \intersect telling[v] = {}
    <2>1. CASE v = w
        <3>1. scans'[v] = ScanCandidates
            BY <2>1 DEF BeginScan, AlertInv
        <3> QED
            BY <3>1 DEF ScanCandidates, AlertInv
    <2>2. CASE v # w
        <3>1. scans'[v] = scans[v]
            BY <2>2 DEF BeginScan, AlertInv
        <3> QED
            BY <3>1 DEF AlertInv
    <2> QED
        BY <2>1, <2>2
<1> QED
    BY <1>0, <1>1, <1>2, <1>3 DEF AlertInv

LEMMA MarkHotelAlerts ==
    ASSUME AlertInv, NEW w \in Scanners, NEW h \in HotelBookings, MarkHotel(w, h), UNCHANGED load
    PROVE  AlertInv'
<1>0. AlertBound' = AlertBound /\ AlertBound \in Nat
    BY LookingFinite DEF AlertBound, MayOverlap
<1>1. /\ h \in scans[w] /\ scans' = [scans EXCEPT ![w] = @ \ {h}] /\ UNCHANGED <<alerts, losses>>
      /\ DOMAIN scans = Scanners /\ DOMAIN telling = Scanners
      /\ \A v \in Scanners : scans'[v] \subseteq scans[v]
    BY DEF MarkHotel, AlertInv
<1>2. CASE UNCHANGED <<rooming, telling>>
    BY <1>1, <1>2, FewerLooking DEF AlertInv
<1>3. CASE /\ rooming' = [rooming EXCEPT ![h].required = TRUE]
           /\ telling' = [telling EXCEPT ![w] = @ \union {h}]
    <2>1. /\ scans'[w] = scans[w] \ {h} /\ telling'[w] = telling[w] \union {h}
          /\ \A v \in Scanners \ {w} : scans'[v] = scans[v] /\ telling'[v] = telling[v]
        BY <1>1, <1>3
    <2>2. \A g : Looking(g)' = Looking(g)
        BY <1>1, <2>1 DEF Looking
    <2>3. /\ rooming' \in RoomingTable /\ rooming'[h].required
          /\ \A g \in HotelBookings \ {h} : rooming'[g] = rooming[g]
        <3>1. rooming \in RoomingTable
            BY DEF AlertInv
        <3>2. [rooming[h] EXCEPT !.required = TRUE] \in [final: BOOLEAN, required: BOOLEAN]
            BY <3>1 DEF RoomingTable
        <3> QED
            BY <1>3, <3>1, <3>2 DEF RoomingTable
    <2>4. ASSUME NEW v \in Scanners
          PROVE  /\ scans'[v] \subseteq HotelBookings /\ telling'[v] \subseteq HotelBookings
                 /\ scans'[v] \intersect telling'[v] = {}
                 /\ \A g \in telling'[v] : rooming'[g].required
        BY <2>1, <2>3 DEF AlertInv
    <2>5. ASSUME NEW g \in HotelBookings
          PROVE  /\ alerts'[g] \in Nat
                 /\ alerts'[g] > 0 => rooming'[g].required
                 /\ alerts'[g] + Cardinality(Looking(g)') <= AlertBound
                 /\ rooming'[g].required /\ losses' = 0 =>
                        alerts'[g] > 0 \/ \E v \in Scanners : g \in telling'[v]
        <3>1. CASE g = h
            BY <1>1, <2>1, <2>2, <2>3, <3>1 DEF AlertInv
        <3>2. CASE g # h
            BY <1>1, <2>1, <2>2, <2>3, <3>2 DEF AlertInv
        <3> QED
            BY <3>1, <3>2
    <2> QED
        BY <1>0, <1>1, <1>3, <2>3, <2>4, <2>5 DEF AlertInv
<1> QED
    BY <1>2, <1>3 DEF MarkHotel

LEMMA TellHotelAlerts ==
    ASSUME AlertInv, NEW w \in Scanners, NEW h \in HotelBookings, TellHotel(w, h), UNCHANGED load
    PROVE  AlertInv'
<1>0. AlertBound' = AlertBound /\ AlertBound \in Nat
    BY LookingFinite DEF AlertBound, MayOverlap
<1>1. /\ h \in telling[w] /\ telling' = [telling EXCEPT ![w] = @ \ {h}]
      /\ UNCHANGED <<scans, losses, rooming>> /\ rooming[h].required
      /\ DOMAIN scans = Scanners /\ DOMAIN telling' = Scanners
      /\ \A v \in Scanners : telling'[v] \subseteq telling[v]
    BY DEF TellHotel, AlertInv
<1>2. /\ Looking(h)' = Looking(h) \ {w} /\ w \in Looking(h)
      /\ \A g \in HotelBookings \ {h} : Looking(g)' = Looking(g)
    BY <1>1 DEF Looking, AlertInv
<1>3. Cardinality(Looking(h)') = Cardinality(Looking(h)) - 1
    BY <1>2, LookingFinite, FS_RemoveElement
<1>4. /\ DOMAIN alerts' = HotelBookings /\ alerts'[h] = alerts[h] + 1
      /\ \A g \in HotelBookings \ {h} : alerts'[g] = alerts[g]
    BY DEF TellHotel, AlertInv
<1>5. ASSUME NEW g \in HotelBookings
      PROVE  /\ alerts'[g] \in Nat
             /\ alerts'[g] > 0 => rooming'[g].required
             /\ alerts'[g] + Cardinality(Looking(g)') <= AlertBound
             /\ rooming'[g].required /\ losses' = 0 =>
                    alerts'[g] > 0 \/ \E v \in Scanners : g \in telling'[v]
    <2>1. CASE g = h
        BY <1>0, <1>1, <1>3, <1>4, <2>1, LookingFinite DEF AlertInv
    <2>2. CASE g # h
        <3>1. \A v \in Scanners : g \in telling[v] => g \in telling'[v]
            BY <1>1, <2>2 DEF AlertInv
        <3> QED
            BY <1>1, <1>2, <1>4, <2>2, <3>1 DEF AlertInv
    <2> QED
        BY <2>1, <2>2
<1>6. ASSUME NEW v \in Scanners
      PROVE  /\ scans'[v] \subseteq HotelBookings /\ telling'[v] \subseteq HotelBookings
             /\ scans'[v] \intersect telling'[v] = {}
             /\ \A g \in telling'[v] : rooming'[g].required
    BY <1>1 DEF AlertInv
<1> QED
    BY <1>0, <1>1, <1>4, <1>5, <1>6 DEF AlertInv

\* What is lost, of one message or of a process.
LEMMA LossAlerts ==
    ASSUME AlertInv, NEW w \in Scanners, UNCHANGED load,
           CrashScan(w) \/ \E h \in HotelBookings : LoseAlert(w, h)
    PROVE  AlertInv'
<1>1. /\ DOMAIN scans' = Scanners /\ DOMAIN telling' = Scanners
      /\ \A v \in Scanners : scans'[v] \subseteq scans[v] /\ telling'[v] \subseteq telling[v]
      /\ UNCHANGED <<alerts, rooming>> /\ losses' = losses + 1
    BY DEF CrashScan, LoseAlert, AlertInv
<1>2. losses' \in Nat /\ losses' # 0
    BY <1>1 DEF AlertInv
<1> QED
    BY <1>1, <1>2, FewerLooking DEF AlertInv

LEMMA RoomingKept ==
    ASSUME AlertInv, UNCHANGED <<load, scanVars>>, rooming' \in RoomingTable,
           \A h \in HotelBookings : rooming'[h].required = rooming[h].required
    PROVE  AlertInv'
BY FewerLooking DEF scanVars, AlertInv

LEMMA RoomStepAlerts ==
    ASSUME AlertInv, RoomStep, UNCHANGED <<load, scanVars>>
    PROVE  AlertInv'
<1>1. PICK c \in Clerks : UNCHANGED rooming \/ CommitFinalizeRooming(c)
    BY DEF RoomStep, BeginRoom, WriteRoom, BeginFinalizeRooming, roomVars
<1>2. rooming' \in RoomingTable /\ \A h \in HotelBookings : rooming'[h].required = rooming[h].required
    <2>1. CASE UNCHANGED rooming
        BY <2>1 DEF AlertInv
    <2>2. CASE CommitFinalizeRooming(c)
        <3> PICK x : x = clerks[c].hotel
            OBVIOUS
        <3>1. rooming' = [rooming EXCEPT ![x].final = TRUE]
            BY <2>2 DEF CommitFinalizeRooming
        <3>2. CASE x \in HotelBookings
            <4>1. rooming \in RoomingTable
                BY DEF AlertInv
            <4>2. [rooming[x] EXCEPT !.final = TRUE] \in [final: BOOLEAN, required: BOOLEAN]
                BY <3>2, <4>1 DEF RoomingTable
            <4>3. rooming' \in RoomingTable
                BY <3>1, <3>2, <4>1, <4>2 DEF RoomingTable
            <4>4. \A h \in HotelBookings : rooming'[h].required = rooming[h].required
                BY <3>1, <3>2, <4>1 DEF RoomingTable
            <4> QED
                BY <4>3, <4>4
        <3>3. CASE x \notin HotelBookings
            <4>1. \A h \in HotelBookings : rooming'[h] = rooming[h]
                BY <3>1, <3>3 DEF AlertInv, RoomingTable
            <4> QED
                BY <3>1, <4>1 DEF AlertInv, RoomingTable
        <3> QED
            BY <3>2, <3>3
    <2> QED
        BY <1>1, <2>1, <2>2
<1> QED
    BY <1>2, RoomingKept

LEMMA NextAlerts == AlertInv /\ [Next]_officeVars => AlertInv'
<1> SUFFICES ASSUME AlertInv, [Next]_officeVars PROVE AlertInv'
    OBVIOUS
<1>0. UNCHANGED load
    BY DEF Next, officeVars
<1>1. CASE UNCHANGED <<roomVars, scanVars>>
    BY <1>0, <1>1, RoomingKept DEF roomVars, AlertInv
<1>2. CASE RoomStep /\ UNCHANGED scanVars
    BY <1>0, <1>2, RoomStepAlerts
<1>3. ASSUME NEW w \in Scanners, ScanStep(w)
      PROVE  AlertInv'
    BY <1>0, <1>3, BeginScanAlerts, MarkHotelAlerts, TellHotelAlerts, LossAlerts DEF ScanStep
<1>4. CASE ApproachDeparture /\ UNCHANGED rooming
    BY <1>0, <1>4, FewerLooking DEF ApproachDeparture, AlertInv
<1>5. ASSUME NEW w \in Scanners, CrashScan(w)
      PROVE  AlertInv'
    BY <1>0, <1>5, LossAlerts
<1> QED
    BY <1>1, <1>2, <1>3, <1>4, <1>5 DEF Next, PassengerStep, officeVars, passengerVars

LEMMA InitAlerts == Init => AlertInv
<1> SUFFICES ASSUME Init PROVE AlertInv
    OBVIOUS
<1>1. /\ scans = [w \in Scanners |-> {}] /\ telling = [w \in Scanners |-> {}]
      /\ alerts = [h \in HotelBookings |-> 0] /\ losses = 0
      /\ rooming = [h \in HotelBookings |-> [final |-> FALSE, required |-> FALSE]]
    BY DEF Init, PassengersInit
<1>2. rooming \in RoomingTable /\ \A h \in HotelBookings : ~rooming[h].required
    BY <1>1 DEF RoomingTable
<1>3. \A h : Looking(h) = {}
    BY <1>1 DEF Looking
<1>4. Cardinality({}) = 0 /\ AlertBound \in Nat /\ 0 <= AlertBound
    <2>1. Cardinality(Scanners) \in Nat
        BY LookingFinite
    <2> QED
        BY <2>1, FS_EmptySet DEF AlertBound
<1>6. \A w \in Scanners : scans[w] = {} /\ telling[w] = {}
    BY <1>1
<1>7. \A h \in HotelBookings : alerts[h] = 0
    BY <1>1
<1>5. ASSUME NEW h \in HotelBookings PROVE alerts[h] + Cardinality(Looking(h)) <= AlertBound
    <2>1. Looking(h) = {} /\ alerts[h] = 0
        BY <1>3, <1>7
    <2>2. Cardinality(Looking(h)) = 0
        BY <1>4, <2>1
    <2> QED
        BY <1>4, <2>1, <2>2
<1>8. DOMAIN scans = Scanners /\ DOMAIN telling = Scanners /\ DOMAIN alerts = HotelBookings
    BY <1>1
<1>9. losses = 0
    BY <1>1
<1> QED
    BY <1>2, <1>5, <1>6, <1>7, <1>8, <1>9 DEF AlertInv

\* However scans of several processes interleave with each other, with losses
\* and with the closing of the rooming, nobody is told twice by one of them.
THEOREM AlertsAreBounded == Spec => []AlertedOnce
<1>1. AlertInv => AlertedOnce
    <2>1. ASSUME AlertInv, NEW h \in HotelBookings PROVE alerts[h] <= AlertBound
        BY <2>1, LookingFinite DEF AlertInv, AlertBound
    <2> QED
        BY <2>1 DEF AlertedOnce, AlertBound
<1> QED
    BY <1>1, InitAlerts, NextAlerts, PTL DEF Spec

\* And of what is marked somebody is told, by one of them, unless a process died
\* or a message was lost; for any number of hotel bookings and processes.
THEOREM MarksAreTold == Spec => []MarkedIsTold
<1>1. AlertInv => MarkedIsTold
    BY DEF AlertInv, MarkedIsTold
<1> QED
    BY <1>1, InitAlerts, NextAlerts, PTL DEF Spec

(***************************************************************************)
(* The rows and requests concerned                                         *)
(***************************************************************************)

HotelOps == {"structure", "approve", "finalize"}

\* A request on hotel bookings is one on a row that exists.
HotelRequestOK(request) ==
    request.op \in HotelOps =>
        /\ request.hotel \in HotelBookings /\ HotelExists(request.hotel)
        /\ request.op = "structure" => request.rooms \in Structure

HotelsTypeOK ==
    /\ hotels \in [HotelBookings -> HotelRow]
    /\ DOMAIN office = Officers
    /\ \A o \in Officers : HotelRequestOK(office[o])

LEMMA PlanType == NoPlan \in Plan
BY ToursAssumption DEF NoPlan, Plan, TourStatuses

LEMMA TourStepType ==
    ASSUME ToursTypeOK, TourStep
    PROVE  ToursTypeOK'
<1>1. ASSUME NEW t \in Tours, NEW seats \in Capacities, CreateTour(t, seats)
      PROVE  ToursTypeOK'
    BY <1>1, TourRequestAssumption DEF ToursTypeOK, CreateTour, Tour, TourStatuses
<1>2. ASSUME NEW p \in Planners, NEW t \in Tours, NEW seats \in Resizes, BeginResize(p, t, seats)
      PROVE  ToursTypeOK'
    <2>1. tours[t].totalSeats \in Nat /\ seats \in Nat
        BY TourRequestAssumption DEF ToursTypeOK, Tour
    <2>2. [NoPlan EXCEPT !.op = "resize", !.tour = t, !.seen = tours[t].totalSeats,
                         !.seats = seats] \in Plan
        BY <2>1, PlanType DEF Plan
    <2> QED
        BY <1>2, <2>2 DEF ToursTypeOK, BeginResize
<1>3. ASSUME NEW p \in Planners, CommitResize(p)
      PROVE  ToursTypeOK'
    <2> PICK t, seats, delta : /\ t = plans[p].tour /\ seats = plans[p].seats
                               /\ delta = seats - plans[p].seen
        OBVIOUS
    <2>1. t \in Tours /\ seats \in Nat /\ delta \in Int
        BY DEF ToursTypeOK, Plan
    <2>2. tours' = [tours EXCEPT ![t] = [tours[t] EXCEPT !.totalSeats = seats,
                       !.availableSeats = tours[t].availableSeats + delta]]
        BY <1>3 DEF CommitResize
    <2>3. [tours[t] EXCEPT !.totalSeats = seats,
                           !.availableSeats = tours[t].availableSeats + delta] \in Tour
        <3> PICK row, free : row = tours[t] /\ free = tours[t].availableSeats + delta
            OBVIOUS
        <3>1. row \in Tour /\ free \in Int
            BY <2>1 DEF ToursTypeOK, Tour
        <3>2. [row EXCEPT !.totalSeats = seats, !.availableSeats = free] \in Tour
            BY <2>1, <3>1 DEF Tour
        <3> QED
            BY <3>2
    <2>4. plans' \in [Planners -> Plan]
        BY <1>3, PlanType DEF ToursTypeOK, CommitResize
    <2> QED
        BY <2>1, <2>2, <2>3, <2>4 DEF ToursTypeOK
<1>4. ASSUME NEW p \in Planners, NEW t \in Tours, NEW to \in TourTargets, BeginTourStatus(p, t, to)
      PROVE  ToursTypeOK'
    <2>1. [NoPlan EXCEPT !.op = "status", !.tour = t, !.to = to] \in Plan
        BY PlanType, TourRequestAssumption DEF Plan, TourStatuses
    <2> QED
        BY <1>4, <2>1 DEF ToursTypeOK, BeginTourStatus
<1>5. ASSUME NEW p \in Planners, CommitTourStatus(p)
      PROVE  ToursTypeOK'
    <2> PICK t, to : t = plans[p].tour /\ to = plans[p].to
        OBVIOUS
    <2>1. t \in Tours /\ to \in TourStatuses
        BY DEF ToursTypeOK, Plan
    <2>2. tours' = [tours EXCEPT ![t].status = to]
        BY <1>5 DEF CommitTourStatus
    <2>3. tours' \in [Tours -> Tour]
        BY <2>1, <2>2 DEF ToursTypeOK, Tour
    <2>4. plans' \in [Planners -> Plan]
        BY <1>5, PlanType DEF ToursTypeOK, CommitTourStatus
    <2> QED
        BY <2>3, <2>4 DEF ToursTypeOK
<1>6. ASSUME NEW p \in Planners, AbandonPlan(p)
      PROVE  ToursTypeOK'
    BY <1>6, PlanType DEF ToursTypeOK, AbandonPlan
<1>7. CASE UNCHANGED tourVars
    BY <1>7 DEF ToursTypeOK, tourVars
<1> QED
    BY <1>1, <1>2, <1>3, <1>4, <1>5, <1>6, <1>7
    DEF TourStep, BeginGatedStatus, CommitGatedStatus, AbandonGatedPlan

\* A step of the tour office leaves the hotel bookings and the officers alone.
LEMMA TourStepHotels == TourStep => UNCHANGED hotels
BY DEF TourStep, gateVars, Reprice, PassGates, CommitGatedStatus, AbandonGatedPlan

\* The steps of hotel bookings: a row is inserted, a request begins on a row, or
\* a request changes a row and ends.
HotelInsert(h, t) ==
    /\ t \in Tours /\ ~HotelExists(h)
    /\ StatusInFlight(t) => MayOverlap("gate")
    /\ hotels' = [hotels EXCEPT ![h] = [structure |-> "draft", tour |-> t, rooms |-> NoRooms]]
    /\ UNCHANGED office

HotelBegin(o, h, request) ==
    /\ HotelExists(h)
    /\ HotelInFlight => MayOverlap("hotel")
    /\ StatusInFlight(hotels[h].tour) => MayOverlap("gate")
    /\ request.op \in HotelOps /\ request.hotel = h
    /\ request.op = "structure" => request.rooms \in Structure /\ Editable(o, h)
    /\ office' = [office EXCEPT ![o] = request]
    /\ UNCHANGED hotels

HotelCommit(o) ==
    /\ office[o].op \in HotelOps
    /\ hotels' = [hotels EXCEPT ![office[o].hotel] =
           CASE office[o].op = "structure" -> [@ EXCEPT !.rooms = office[o].rooms]
             [] office[o].op = "approve"   -> [@ EXCEPT !.structure = "approved"]
             [] office[o].op = "finalize"  -> [@ EXCEPT !.structure = "final"]]
    /\ office' = [office EXCEPT ![o] = Idle]

HotelAction ==
    \/ \E h \in HotelBookings : \E t : HotelInsert(h, t)
    \/ \E o \in Officers : HotelCommit(o) \/ \E h \in HotelBookings : \E request : HotelBegin(o, h, request)

LEMMA HotelActions ==
    ASSUME HotelStep \/ StructureStep
    PROVE  HotelAction
<1>1. CASE HotelStep
    <2>1. ASSUME NEW o \in Officers, NEW h \in HotelBookings, NEW t \in Tours,
                 NoGate(t), CreateHotelBooking(o, h, t)
          PROVE  HotelInsert(h, t)
        BY <2>1 DEF CreateHotelBooking, HotelInsert, NoGate
    <2>2. ASSUME NEW o \in Officers, NEW h \in HotelBookings, HotelFree, NoGate(hotels[h].tour),
                 BeginApproveStructure(o, h)
          PROVE  HotelBegin(o, h, [op |-> "approve", hotel |-> h])
        BY <2>2 DEF BeginApproveStructure, HotelBegin, HotelFree, NoGate, HotelExists, HotelOps
    <2>3. ASSUME NEW o \in Officers, CommitApproveStructure(o)
          PROVE  HotelCommit(o)
        BY <2>3 DEF CommitApproveStructure, HotelCommit, HotelOps
    <2> QED
        BY <1>1, <2>1, <2>2, <2>3 DEF HotelStep, HotelAction
<1>2. CASE StructureStep
    <2>1. ASSUME NEW o \in Officers, NEW h \in HotelBookings, NEW rooms \in Structures, HotelFree,
                 NoGate(hotels[h].tour), BeginSetStructure(o, h, rooms)
          PROVE  HotelBegin(o, h, [op |-> "structure", hotel |-> h, rooms |-> rooms])
        BY <2>1, OfficeAssumption DEF BeginSetStructure, HotelBegin, HotelFree, NoGate, HotelOps
    <2>2. ASSUME NEW o \in Officers, NEW h \in HotelBookings, HotelFree, NoGate(hotels[h].tour),
                 BeginFinalizeStructure(o, h)
          PROVE  HotelBegin(o, h, [op |-> "finalize", hotel |-> h])
        BY <2>2 DEF BeginFinalizeStructure, HotelBegin, HotelFree, NoGate, HotelExists, HotelOps
    <2>3. ASSUME NEW o \in Officers, CommitSetStructure(o) \/ CommitFinalizeStructure(o)
          PROVE  HotelCommit(o)
        BY <2>3 DEF CommitSetStructure, CommitFinalizeStructure, HotelCommit, HotelOps
    <2> PICK o \in Officers :
            \/ /\ HotelFree
               /\ \E h \in HotelBookings :
                     /\ NoGate(hotels[h].tour)
                     /\ \/ \E rooms \in Structures : BeginSetStructure(o, h, rooms)
                        \/ BeginFinalizeStructure(o, h)
            \/ CommitSetStructure(o) \/ CommitFinalizeStructure(o)
        BY <1>2 DEF StructureStep
    <2>4. HotelCommit(o) \/ \E h \in HotelBookings : \E request : HotelBegin(o, h, request)
        BY <2>1, <2>2, <2>3
    <2> QED
        BY <2>4 DEF HotelAction
<1> QED
    BY <1>1, <1>2

\* No other step touches the hotel bookings, and none begins a request on them.
LEMMA OfficeHotels ==
    ASSUME DOMAIN office = Officers, OfficeStep
    PROVE  \/ TourStep /\ UNCHANGED <<hotels, office>>
           \/ HotelAction /\ UNCHANGED <<tourVars, cleared>>
           \/ /\ UNCHANGED <<tourVars, cleared, hotels>>
              /\ \E kinds : BeginsOnly(kinds) /\ kinds \intersect HotelOps = {}
<1>1. CASE TourStep /\ UNCHANGED office
    BY <1>1, TourStepHotels
<1>2. CASE (HotelStep \/ StructureStep) /\ UNCHANGED <<tourVars, cleared>>
    BY <1>2, HotelActions
<1>3. CASE /\ ChecklistStep \/ DriversStep \/ ExtraStep \/ CoachStep \/ PaperStep \/ AbandonStep
           /\ UNCHANGED <<tourVars, cleared, hotels>>
    BY <1>3, ChecklistBegins, DriversBegins, CostBegins, PaperBegins, AbandonBegins DEF HotelOps
<1> QED
    BY <1>1, <1>2, <1>3 DEF OfficeStep, gateVars

(***************************************************************************)
(* Types                                                                   *)
(***************************************************************************)

LEMMA HotelActionType ==
    ASSUME HotelsTypeOK, HotelAction
    PROVE  HotelsTypeOK'
<1>1. ASSUME NEW h \in HotelBookings, NEW t, HotelInsert(h, t)
      PROVE  HotelsTypeOK'
    <2>1. [structure |-> "draft", tour |-> t, rooms |-> NoRooms] \in HotelRow
        BY <1>1 DEF HotelInsert, HotelRow, NoRooms, Structure
    <2>2. hotels' \in [HotelBookings -> HotelRow] /\ hotels'[h].structure = "draft"
          /\ \A g \in HotelBookings \ {h} : hotels'[g] = hotels[g]
        BY <1>1, <2>1 DEF HotelInsert, HotelsTypeOK
    <2> QED
        BY <1>1, <2>2 DEF HotelInsert, HotelsTypeOK, HotelRequestOK, HotelExists
<1>2. ASSUME NEW o \in Officers, NEW h \in HotelBookings, NEW request, HotelBegin(o, h, request)
      PROVE  HotelsTypeOK'
    BY <1>2 DEF HotelBegin, HotelsTypeOK, HotelRequestOK, HotelExists
<1>3. ASSUME NEW o \in Officers, HotelCommit(o)
      PROVE  HotelsTypeOK'
    <2> PICK h, row : /\ h = office[o].hotel
                      /\ row = CASE office[o].op = "structure" ->
                                       [hotels[h] EXCEPT !.rooms = office[o].rooms]
                                 [] office[o].op = "approve"  -> [hotels[h] EXCEPT !.structure = "approved"]
                                 [] office[o].op = "finalize" -> [hotels[h] EXCEPT !.structure = "final"]
        OBVIOUS
    <2>1. h \in HotelBookings /\ hotels[h] \in HotelRow /\ HotelExists(h)
        BY <1>3 DEF HotelCommit, HotelsTypeOK, HotelRequestOK
    <2>2. row \in HotelRow /\ row.structure # "none"
        BY <1>3, <2>1 DEF HotelCommit, HotelsTypeOK, HotelRequestOK, HotelRow, HotelOps, HotelExists
    <2>3. hotels' = [hotels EXCEPT ![h] = row] /\ office' = [office EXCEPT ![o] = Idle]
        BY <1>3 DEF HotelCommit
    <2> QED
        BY <2>1, <2>2, <2>3 DEF HotelsTypeOK, HotelRequestOK, HotelExists, HotelOps
<1> QED
    BY <1>1, <1>2, <1>3 DEF HotelAction

LEMMA OtherRequestsType ==
    ASSUME HotelsTypeOK, UNCHANGED hotels, NEW kinds, BeginsOnly(kinds), kinds \intersect HotelOps = {}
    PROVE  HotelsTypeOK'
BY DEF HotelsTypeOK, HotelRequestOK, HotelExists, BeginsOnly, HotelOps

\* What every step keeps, in the three shapes a step has here.
LEMMA Shapes ==
    ASSUME HotelsTypeOK, [Next]_officeVars
    PROVE  /\ UNCHANGED load
           /\ \/ TourStep /\ UNCHANGED <<hotels, office>>
              \/ HotelAction /\ UNCHANGED <<tourVars, cleared>>
              \/ /\ UNCHANGED <<tourVars, cleared, hotels>>
                 /\ \E kinds : BeginsOnly(kinds) /\ kinds \intersect HotelOps = {}
<1>1. UNCHANGED load /\ DOMAIN office = Officers
    BY DEF Next, officeVars, HotelsTypeOK
<1>2. CASE OfficeStep
    BY <1>1, <1>2, OfficeHotels
<1>3. CASE UNCHANGED deskVars
    <2>1. BeginsOnly({})
        BY <1>1, <1>3, StutterBegins DEF deskVars
    <2> QED
        BY <1>1, <1>3, <2>1 DEF deskVars, gateVars
<1> QED
    BY <1>1, <1>2, <1>3 DEF Next, officeVars

LEMMA StepType ==
    ASSUME ToursTypeOK, HotelsTypeOK, [Next]_officeVars
    PROVE  ToursTypeOK' /\ HotelsTypeOK'
<1>1. CASE TourStep /\ UNCHANGED <<hotels, office>>
    <2>1. ToursTypeOK'
        BY <1>1, TourStepType
    <2>2. HotelsTypeOK'
        BY <1>1 DEF HotelsTypeOK, HotelRequestOK, HotelExists
    <2> QED
        BY <2>1, <2>2
<1>2. CASE HotelAction /\ UNCHANGED tourVars
    BY <1>2, HotelActionType DEF ToursTypeOK, tourVars
<1>3. CASE /\ UNCHANGED <<tourVars, hotels>>
           /\ \E kinds : BeginsOnly(kinds) /\ kinds \intersect HotelOps = {}
    BY <1>3, OtherRequestsType DEF ToursTypeOK, tourVars
<1> QED
    BY <1>1, <1>2, <1>3, Shapes

LEMMA InitHotels == Init => ToursTypeOK /\ HotelsTypeOK
<1> SUFFICES ASSUME Init PROVE ToursTypeOK /\ HotelsTypeOK
    OBVIOUS
<1>1. ToursTypeOK
    BY PlanType DEF Init, ToursInit, ToursTypeOK, NoTourRow, Tour
<1>2. NoHotelRow \in HotelRow
    BY ToursAssumption DEF NoHotelRow, HotelRow, NoRooms, Structure
<1>3. HotelsTypeOK
    BY <1>2 DEF Init, OperationsInit, HotelsTypeOK, HotelRequestOK, HotelOps
<1> QED
    BY <1>1, <1>3

(***************************************************************************)
(* An approved structure                                                   *)
(***************************************************************************)

\* One request at a time on hotel bookings; the draft it read is still one.
DraftInv ==
    ~MayOverlap("hotel") =>
        \A o \in Officers : office[o].op \in HotelOps =>
            /\ \A q \in Officers : office[q].op \in HotelOps => q = o
            /\ office[o].op = "structure" => Editable(o, office[o].hotel)

LEMMA HotelActionDraft ==
    ASSUME HotelsTypeOK, DraftInv, HotelAction, UNCHANGED load
    PROVE  DraftInv'
<1>1. ASSUME NEW h \in HotelBookings, NEW t, HotelInsert(h, t)
      PROVE  DraftInv'
    BY <1>1 DEF HotelInsert, DraftInv, MayOverlap, Editable, Holds, HotelsTypeOK
<1>2. ASSUME NEW o \in Officers, NEW h \in HotelBookings, NEW request, HotelBegin(o, h, request)
      PROVE  DraftInv'
    BY <1>2 DEF HotelBegin, HotelInFlight, DraftInv, MayOverlap, Editable, Holds, HotelsTypeOK, HotelOps
<1>3. ASSUME NEW o \in Officers, HotelCommit(o)
      PROVE  DraftInv'
    BY <1>3 DEF HotelCommit, DraftInv, MayOverlap, HotelsTypeOK, HotelOps
<1> QED
    BY <1>1, <1>2, <1>3 DEF HotelAction

LEMMA StepDraft ==
    ASSUME HotelsTypeOK, DraftInv, [Next]_officeVars
    PROVE  DraftInv'
<1>1. CASE UNCHANGED <<load, hotels, office>>
    BY <1>1 DEF DraftInv, MayOverlap, Editable, Holds
<1>2. ASSUME UNCHANGED <<load, hotels>>, NEW kinds, BeginsOnly(kinds), kinds \intersect HotelOps = {}
      PROVE  DraftInv'
    BY <1>2 DEF DraftInv, MayOverlap, Editable, Holds, BeginsOnly, HotelOps
<1> QED
    BY <1>1, <1>2, Shapes, HotelActionDraft

\* Rooms change when a request that carries rooms ends.
LEMMA RoomsChange ==
    ASSUME HotelsTypeOK, DraftInv, [Next]_officeVars, NEW h \in HotelBookings,
           hotels[h].structure \in {"approved", "final"}, hotels'[h].rooms # hotels[h].rooms,
           ~MayOverlap("hotel")
    PROVE  \E o \in Officers : /\ Holds(o, {"admin"}) /\ office[o].op = "structure"
                               /\ office[o].hotel = h
<1>1. HotelAction
    BY Shapes
<1>2. ASSUME NEW g \in HotelBookings, NEW t, HotelInsert(g, t)
      PROVE  FALSE
    BY <1>2 DEF HotelInsert, HotelExists, HotelsTypeOK
<1>3. PICK o \in Officers : HotelCommit(o)
    BY <1>1, <1>2 DEF HotelAction, HotelBegin
<1>4. office[o].hotel = h /\ office[o].op = "structure"
    BY <1>3 DEF HotelCommit, HotelsTypeOK, HotelRow, HotelOps
<1>5. Editable(o, h)
    BY <1>4 DEF DraftInv, HotelOps
<1> QED
    BY <1>4, <1>5 DEF Editable

\* OPS-10, for any number of hotel bookings and of requests on different ones:
\* what has been approved is changed by administrators only.
THEOREM ApprovalsHold == Spec => ApprovedStructureStands
<1> DEFINE Inv == ToursTypeOK /\ HotelsTypeOK /\ DraftInv
<1>1. Init => Inv
    <2>1. Init => \A o \in Officers : office[o] = Idle
        BY DEF Init, OperationsInit
    <2> QED
        BY <2>1, InitHotels DEF DraftInv, HotelOps
<1>2. Inv /\ [Next]_officeVars => Inv'
    BY StepType, StepDraft
<1>3. Inv /\ [Next]_officeVars =>
        [\A h \in HotelBookings :
            /\ hotels[h].structure \in {"approved", "final"}
            /\ hotels'[h].rooms # hotels[h].rooms
            /\ ~MayOverlap("hotel")
            => \E o \in Officers : Holds(o, {"admin"}) /\ office[o].op = "structure"
                                   /\ office[o].hotel = h]_officeVars
    BY RoomsChange
<1> HIDE DEF Inv
<1> QED
    BY <1>1, <1>2, <1>3, PTL DEF Spec, ApprovedStructureStands

(***************************************************************************)
(* The gate of OPS-01                                                      *)
(***************************************************************************)

\* While a change of status of a tour is in flight, no request on its hotel
\* bookings is; what it found approved stays approved.
GateInv ==
    ~MayOverlap("gate") =>
        \A p \in Planners :
            /\ p \in cleared => plans[p].op = "status"
            /\ plans[p].op = "status" =>
                  /\ \A o \in Officers : office[o].op \in HotelOps =>
                         hotels[office[o].hotel].tour # plans[p].tour
                  /\ p \in cleared /\ plans[p].to = "open" => StructuresApproved(plans[p].tour)

LEMMA HotelActionGate ==
    ASSUME ToursTypeOK, HotelsTypeOK, GateInv, HotelAction, UNCHANGED <<load, tourVars, cleared>>
    PROVE  GateInv'
<1> SUFFICES ASSUME ~MayOverlap("gate"), NEW p \in Planners, plans[p].op = "status"
             PROVE  /\ \A o \in Officers : office'[o].op \in HotelOps =>
                           hotels'[office'[o].hotel].tour # plans[p].tour
                    /\ p \in cleared /\ plans[p].to = "open" => StructuresApproved(plans[p].tour)'
    BY DEF GateInv, MayOverlap, tourVars
<1>1. /\ \A o \in Officers : office[o].op \in HotelOps =>
               hotels[office[o].hotel].tour # plans[p].tour
      /\ p \in cleared /\ plans[p].to = "open" => StructuresApproved(plans[p].tour)
      /\ StatusInFlight(plans[p].tour)
    BY DEF GateInv, StatusInFlight
<1>2. ASSUME NEW h \in HotelBookings, NEW t, HotelInsert(h, t)
      PROVE  /\ \A o \in Officers : office'[o].op \in HotelOps =>
                    hotels'[office'[o].hotel].tour # plans[p].tour
             /\ StructuresApproved(plans[p].tour) => StructuresApproved(plans[p].tour)'
    <2>1. /\ t # plans[p].tour /\ ~HotelExists(h) /\ office' = office
          /\ hotels'[h].tour = t
          /\ \A g \in HotelBookings \ {h} : hotels'[g] = hotels[g]
        BY <1>1, <1>2 DEF HotelInsert, HotelsTypeOK
    <2>2. \A o \in Officers : office[o].op \in HotelOps =>
              office[o].hotel \in HotelBookings \ {h}
        BY <2>1 DEF HotelsTypeOK, HotelRequestOK
    <2>3. plans' = plans
        BY DEF tourVars
    <2> QED
        BY <1>1, <2>1, <2>2, <2>3 DEF StructuresApproved, HotelExists
<1>3. ASSUME NEW o \in Officers, NEW h \in HotelBookings, NEW request, HotelBegin(o, h, request)
      PROVE  /\ \A q \in Officers : office'[q].op \in HotelOps =>
                    hotels'[office'[q].hotel].tour # plans[p].tour
             /\ StructuresApproved(plans[p].tour) => StructuresApproved(plans[p].tour)'
    <2>1. /\ hotels[h].tour # plans[p].tour /\ request.hotel = h
          /\ office' = [office EXCEPT ![o] = request] /\ hotels' = hotels /\ plans' = plans
        BY <1>1, <1>3 DEF HotelBegin, tourVars
    <2> QED
        BY <1>1, <2>1 DEF StructuresApproved, HotelExists, HotelsTypeOK
<1>4. ASSUME NEW o \in Officers, HotelCommit(o)
      PROVE  /\ \A q \in Officers : office'[q].op \in HotelOps =>
                    hotels'[office'[q].hotel].tour # plans[p].tour
             /\ StructuresApproved(plans[p].tour) => StructuresApproved(plans[p].tour)'
    <2> PICK h, row : /\ h = office[o].hotel
                      /\ row = CASE office[o].op = "structure" ->
                                       [hotels[h] EXCEPT !.rooms = office[o].rooms]
                                 [] office[o].op = "approve"  -> [hotels[h] EXCEPT !.structure = "approved"]
                                 [] office[o].op = "finalize" -> [hotels[h] EXCEPT !.structure = "final"]
        OBVIOUS
    <2>1. h \in HotelBookings /\ hotels[h] \in HotelRow /\ hotels[h].tour # plans[p].tour
        BY <1>1, <1>4 DEF HotelCommit, HotelsTypeOK, HotelRequestOK
    <2>2. row.tour = hotels[h].tour
        BY <1>4, <2>1 DEF HotelCommit, HotelRow, HotelOps
    <2>3. hotels' = [hotels EXCEPT ![h] = row] /\ office' = [office EXCEPT ![o] = Idle]
        BY <1>4 DEF HotelCommit
    <2>4. /\ hotels'[h].tour = hotels[h].tour
          /\ \A g \in HotelBookings \ {h} : hotels'[g] = hotels[g]
        BY <2>1, <2>2, <2>3 DEF HotelsTypeOK
    <2>5. \A q \in Officers : office'[q].op \in HotelOps =>
              office'[q] = office[q] /\ office[q].hotel \in HotelBookings
        BY <2>3 DEF HotelsTypeOK, HotelRequestOK, HotelOps
    <2>6. ASSUME NEW q \in Officers, office'[q].op \in HotelOps
          PROVE  hotels'[office'[q].hotel].tour # plans[p].tour
        BY <1>1, <2>4, <2>5, <2>6
    <2>7. plans' = plans
        BY DEF tourVars
    <2> QED
        BY <2>1, <2>4, <2>6, <2>7 DEF StructuresApproved, HotelExists
<1> QED
    BY <1>1, <1>2, <1>3, <1>4 DEF HotelAction

\* A step of the tour office: some planner's request changes, or none.
LEMMA TourStepGate ==
    ASSUME ToursTypeOK, HotelsTypeOK, GateInv, TourStep, UNCHANGED <<load, hotels, office>>
    PROVE  GateInv'
<1>1. ASSUME NEW p \in Planners, NEW t \in Tours, NEW to \in TourTargets,
             GateFree(t), BeginGatedStatus(p, t, to), UNCHANGED cleared
      PROVE  GateInv'
    <2>1. /\ plans[p].op = "idle" /\ UNCHANGED cleared
          /\ plans' = [plans EXCEPT ![p] = [NoPlan EXCEPT !.op = "status", !.tour = t, !.to = to]]
        BY <1>1 DEF BeginGatedStatus, BeginTourStatus
    <2>2. /\ plans'[p].op = "status"
          /\ \A q \in Planners \ {p} : plans'[q] = plans[q]
        BY <2>1 DEF ToursTypeOK, NoPlan
    <2>3. ~MayOverlap("gate") => p \notin cleared /\ \A o \in Officers : office[o].op \notin HotelOps
        BY <1>1, <2>1 DEF GateFree, HotelInFlight, GateInv, HotelOps
    <2> QED
        BY <2>1, <2>2, <2>3 DEF GateInv, MayOverlap, StructuresApproved, HotelExists
<1>2. ASSUME NEW p \in Planners, PassGates(p), UNCHANGED tourVars
      PROVE  GateInv'
    BY <1>2 DEF PassGates, GateInv, MayOverlap, StructuresApproved, HotelExists, tourVars
\* The request of a planner is one of another kind, or is over.
<1>3. ASSUME NEW p \in Planners, NEW plan, plan.op # "status",
             plans' = [plans EXCEPT ![p] = plan], cleared' = cleared \ {p}
      PROVE  GateInv'
    <2>1. /\ \A q \in Planners \ {p} : plans'[q] = plans[q]
          /\ plans'[p].op # "status" /\ p \notin cleared'
        BY <1>3 DEF ToursTypeOK
    <2> QED
        BY <1>3, <2>1 DEF GateInv, MayOverlap, StructuresApproved, HotelExists
<1>4. ASSUME NEW p \in Planners, NEW t, NEW seats, BeginResize(p, t, seats), UNCHANGED cleared
      PROVE  GateInv'
    <2>1. /\ plans[p].op = "idle" /\ \A q \in Planners \ {p} : plans'[q] = plans[q]
          /\ plans'[p].op = "resize"
        BY <1>4 DEF BeginResize, ToursTypeOK, NoPlan
    <2> QED
        BY <1>4, <2>1 DEF GateInv, MayOverlap, StructuresApproved, HotelExists
<1>5. ASSUME NEW p \in Planners, CommitResize(p), UNCHANGED cleared
      PROVE  GateInv'
    <2>1. /\ plans[p].op = "resize" /\ \A q \in Planners \ {p} : plans'[q] = plans[q]
          /\ plans'[p].op = "idle"
        BY <1>5 DEF CommitResize, ToursTypeOK, NoPlan
    <2> QED
        BY <1>5, <2>1 DEF GateInv, MayOverlap, StructuresApproved, HotelExists
<1>6. NoPlan.op = "idle"
    BY DEF NoPlan
<1>7. ASSUME NEW p \in Planners, CommitGatedStatus(p) \/ AbandonGatedPlan(p)
      PROVE  GateInv'
    BY <1>3, <1>6, <1>7 DEF CommitGatedStatus, CommitTourStatus, AbandonGatedPlan, AbandonPlan
<1>8. CASE UNCHANGED <<plans, cleared>>
    BY <1>8 DEF GateInv, MayOverlap, StructuresApproved, HotelExists
<1> QED
    BY <1>1, <1>2, <1>4, <1>5, <1>7, <1>8 DEF TourStep, CreateTour, Reprice, gateVars, tourVars

LEMMA StepGate ==
    ASSUME ToursTypeOK, HotelsTypeOK, GateInv, [Next]_officeVars
    PROVE  GateInv'
<1>1. CASE TourStep /\ UNCHANGED <<hotels, office>>
    BY <1>1, Shapes, TourStepGate
<1>2. CASE HotelAction /\ UNCHANGED <<tourVars, cleared>>
    BY <1>2, Shapes, HotelActionGate
<1>3. ASSUME UNCHANGED <<load, tourVars, cleared, hotels>>, NEW kinds, BeginsOnly(kinds),
             kinds \intersect HotelOps = {}
      PROVE  GateInv'
    <2>1. \A o \in Officers : office'[o].op \in HotelOps => office'[o] = office[o]
        BY <1>3 DEF BeginsOnly, HotelOps
    <2> QED
        BY <1>3, <2>1 DEF GateInv, MayOverlap, StructuresApproved, HotelExists, tourVars
<1> QED
    BY <1>1, <1>2, <1>3, Shapes

\* A draft opens when a request that passed the gates is committed.
LEMMA Opening ==
    ASSUME ToursTypeOK, HotelsTypeOK, GateInv, [Next]_officeVars, NEW t \in Tours,
           tours[t].status = "draft", tours'[t].status = "open", ~MayOverlap("gate")
    PROVE  StructuresApproved(t)
<1>1. TourStep
    BY Shapes DEF tourVars
<1>2. ASSUME NEW u \in Tours, NEW seats, CreateTour(u, seats)
      PROVE  tours'[t].status \in {tours[t].status, "draft"}
    BY <1>2 DEF CreateTour, ToursTypeOK
<1>3. ASSUME NEW p \in Planners, CommitResize(p)
      PROVE  tours'[t].status = tours[t].status
    <2> PICK u, seats, free : /\ u = plans[p].tour /\ seats = plans[p].seats
                              /\ free = tours[u].availableSeats + (plans[p].seats - plans[p].seen)
        OBVIOUS
    <2>1. tours' = [tours EXCEPT ![u] =
              [tours[u] EXCEPT !.totalSeats = seats, !.availableSeats = free]]
        BY <1>3 DEF CommitResize
    <2> QED
        BY <2>1 DEF ToursTypeOK, Tour
<1>4. PICK p \in Planners : CommitGatedStatus(p)
    BY <1>1, <1>2, <1>3 DEF TourStep, BeginResize, BeginGatedStatus, BeginTourStatus, tourVars,
       AbandonGatedPlan, AbandonPlan
<1>5. t = plans[p].tour /\ plans[p].to = "open"
    <2> PICK u, to : u = plans[p].tour /\ to = plans[p].to
        OBVIOUS
    <2>1. tours' = [tours EXCEPT ![u].status = to]
        BY <1>4 DEF CommitGatedStatus, CommitTourStatus
    <2> QED
        BY <2>1 DEF ToursTypeOK, Tour
<1> QED
    BY <1>4, <1>5 DEF GateInv, CommitGatedStatus

\* OPS-01, for any number of hotel bookings, officers and planners.
THEOREM OpensApproved == Spec => OpensWithStructure
<1> DEFINE Inv == ToursTypeOK /\ HotelsTypeOK /\ GateInv
<1>1. Init => Inv
    <2>1. Init => cleared = {} /\ \A p \in Planners : plans[p].op = "idle"
        <3>1. NoPlan.op = "idle"
            BY DEF NoPlan
        <3> QED
            BY <3>1 DEF Init, OperationsInit, ToursInit
    <2> QED
        BY <2>1, InitHotels DEF GateInv
<1>2. Inv /\ [Next]_officeVars => Inv'
    BY StepType, StepGate
<1>3. Inv /\ [Next]_officeVars =>
        [\A t \in Tours :
            /\ tours[t].status = "draft" /\ tours'[t].status = "open"
            /\ ~MayOverlap("gate")
            => \A h \in HotelBookings :
                  HotelExists(h) /\ hotels[h].tour = t => hotels[h].structure = "approved"]_officeVars
    BY Opening DEF StructuresApproved
<1> HIDE DEF Inv
<1> QED
    BY <1>1, <1>2, <1>3, PTL DEF Spec, OpensWithStructure

(***************************************************************************)
(* Every reachable state is well formed                                    *)
(***************************************************************************)

LEMMA ReadinessType ==
    ASSUME NEW done \in SUBSET CHECKLIST_ITEMS
    PROVE  calcReadiness(done) \in Nat
<1> DEFINE n == Cardinality(CHECKLIST_ITEMS)
           k == Cardinality(done)
<1>1. n \in Nat \ {0} /\ k \in Nat
    BY OfficeAssumption, FS_Subset, FS_CardinalityType, FS_EmptySet
<1> HIDE DEF n, k
<1>2. (2 * 100 * k + n) \div (2 * n) \in Nat
    BY <1>1
<1> QED
    BY <1>2 DEF calcReadiness, n, k

LEMMA SumCostsType == ASSUME NEW costs \in CostSheet PROVE sumCosts(costs) \in Nat
<1>1. DOMAIN costs = COST_FIELDS /\ \A field \in COST_FIELDS : costs[field] \in Nat
    BY DEF CostSheet
<1> QED
    BY <1>1, OfficeAssumption, SumOfNat DEF sumCosts

\* What a request of each kind carries.
LEMMA RequestFields ==
    ASSUME NEW request \in OfficeRequest
    PROVE  /\ request.op = "structure" => request.hotel \in HotelBookings /\ request.rooms \in Structure
           /\ request.op \in {"approve", "finalize"} => request.hotel \in HotelBookings
           /\ request.op = "checklist" => request.tour \in Tours /\ request.readiness \in Nat
           /\ request.op = "driver" => request.tour \in Tours /\ request.driver \in Drivers
           /\ request.op = "extra" => request.extra \in Extras /\ request.merged \in CostSheet
           /\ request.op = "transport" =>
                 /\ request.transport \in Transports /\ request.column \in {"kmGoogle", "kmExtras"}
                 /\ request.km \in Nat /\ request.plan \in Nat
           /\ request.op = "paper" => request.paper \in Papers
BY DEF OfficeRequest

\* The tables and requests of the office a step of one part leaves alone.
LEMMA RequestWritten ==
    ASSUME OperationsTypeOK, NEW o \in Officers, NEW request \in OfficeRequest,
           office' = [office EXCEPT ![o] = request]
    PROVE  office' \in [Officers -> OfficeRequest]
BY DEF OperationsTypeOK

LEMMA IdleRequest == Idle \in OfficeRequest /\ Idle \in ClerkRequest
BY DEF OfficeRequest, ClerkRequest

LEMMA TourStepOperations ==
    ASSUME OperationsTypeOK, TourStep, UNCHANGED <<drivers, costVars, paperVars, office>>
    PROVE  OperationsTypeOK'
<1>1. UNCHANGED <<hotels, checklists>>
    BY DEF TourStep, gateVars, Reprice, PassGates, CommitGatedStatus, AbandonGatedPlan
<1>2. margins' \in [Tours -> Margins] /\ cleared' \subseteq Planners
    <2>1. ASSUME NEW t \in Tours, NEW margin \in Margins, Reprice(t, margin)
          PROVE  margins' \in [Tours -> Margins] /\ cleared' \subseteq Planners
        BY <2>1 DEF Reprice, OperationsTypeOK
    <2>2. ASSUME NEW p \in Planners, PassGates(p) \/ CommitGatedStatus(p) \/ AbandonGatedPlan(p)
          PROVE  margins' \in [Tours -> Margins] /\ cleared' \subseteq Planners
        BY <2>2 DEF PassGates, CommitGatedStatus, AbandonGatedPlan, OperationsTypeOK
    <2>3. CASE UNCHANGED gateVars
        BY <2>3 DEF gateVars, OperationsTypeOK
    <2> QED
        BY <2>1, <2>2, <2>3 DEF TourStep
<1> QED
    BY <1>1, <1>2 DEF OperationsTypeOK, costVars, paperVars

LEMMA HotelStepOperations ==
    ASSUME OperationsTypeOK, HotelStep \/ StructureStep,
           UNCHANGED <<margins, cleared, checklists, drivers, costVars, paperVars>>
    PROVE  OperationsTypeOK'
<1>1. ASSUME NEW o \in Officers, NEW request \in OfficeRequest, UNCHANGED hotels,
             office' = [office EXCEPT ![o] = request]
      PROVE  OperationsTypeOK'
    BY <1>1, RequestWritten DEF OperationsTypeOK, costVars, paperVars
<1>2. ASSUME NEW h \in HotelBookings, NEW row \in HotelRow, hotels' = [hotels EXCEPT ![h] = row],
             office' \in [Officers -> OfficeRequest]
      PROVE  OperationsTypeOK'
    BY <1>2 DEF OperationsTypeOK, costVars, paperVars
<1>3. ASSUME NEW o \in Officers, NEW h \in HotelBookings, NEW t \in Tours, CreateHotelBooking(o, h, t)
      PROVE  OperationsTypeOK'
    <2>1. [structure |-> "draft", tour |-> t, rooms |-> NoRooms] \in HotelRow
        BY DEF HotelRow, NoRooms, Structure
    <2> QED
        BY <1>2, <1>3, <2>1 DEF CreateHotelBooking, OperationsTypeOK
<1>4. ASSUME NEW o \in Officers, NEW h \in HotelBookings,
             \/ \E rooms \in Structures : BeginSetStructure(o, h, rooms)
             \/ BeginApproveStructure(o, h) \/ BeginFinalizeStructure(o, h)
      PROVE  OperationsTypeOK'
    <2>1. /\ \A rooms \in Structures : [op |-> "structure", hotel |-> h, rooms |-> rooms] \in OfficeRequest
          /\ [op |-> "approve", hotel |-> h] \in OfficeRequest
          /\ [op |-> "finalize", hotel |-> h] \in OfficeRequest
        BY OfficeAssumption DEF OfficeRequest
    <2> QED
        BY <1>1, <1>4, <2>1 DEF BeginSetStructure, BeginApproveStructure, BeginFinalizeStructure
<1>5. ASSUME NEW o \in Officers, HotelCommit(o) PROVE OperationsTypeOK'
    <2> PICK h, row : /\ h = office[o].hotel
                      /\ row = CASE office[o].op = "structure" ->
                                       [hotels[h] EXCEPT !.rooms = office[o].rooms]
                                 [] office[o].op = "approve"  -> [hotels[h] EXCEPT !.structure = "approved"]
                                 [] office[o].op = "finalize" -> [hotels[h] EXCEPT !.structure = "final"]
        OBVIOUS
    <2>1. office[o] \in OfficeRequest /\ office[o].op \in HotelOps
        BY <1>5 DEF HotelCommit, OperationsTypeOK
    <2>2. h \in HotelBookings /\ (office[o].op = "structure" => office[o].rooms \in Structure)
        BY <2>1, RequestFields DEF HotelOps
    <2>3. hotels[h] \in HotelRow
        BY <2>2 DEF OperationsTypeOK
    <2>4. row \in HotelRow
        BY <2>1, <2>2, <2>3 DEF HotelRow, HotelOps
    <2>5. hotels' = [hotels EXCEPT ![h] = row] /\ office' = [office EXCEPT ![o] = Idle]
        BY <1>5 DEF HotelCommit
    <2>6. office' \in [Officers -> OfficeRequest]
        BY <2>5, RequestWritten, IdleRequest
    <2> QED
        BY <1>2, <2>2, <2>4, <2>5, <2>6
<1>6. ASSUME NEW o \in Officers,
             \/ CommitApproveStructure(o) \/ CommitSetStructure(o) \/ CommitFinalizeStructure(o)
      PROVE  HotelCommit(o)
    BY <1>6 DEF CommitApproveStructure, CommitSetStructure, CommitFinalizeStructure, HotelCommit, HotelOps
<1>7. CASE HotelStep
    BY <1>3, <1>4, <1>5, <1>6, <1>7 DEF HotelStep
<1>8. CASE StructureStep
    BY <1>4, <1>5, <1>6, <1>8 DEF StructureStep
<1> QED
    BY <1>7, <1>8

LEMMA ChecklistStepOperations ==
    ASSUME OperationsTypeOK, ChecklistStep,
           UNCHANGED <<margins, cleared, hotels, drivers, costVars, paperVars>>
    PROVE  OperationsTypeOK'
<1>1. ASSUME NEW t \in Tours, NEW row \in ChecklistRow, checklists' = [checklists EXCEPT ![t] = row],
             office' \in [Officers -> OfficeRequest]
      PROVE  OperationsTypeOK'
    BY <1>1 DEF OperationsTypeOK, costVars, paperVars
<1>2. ASSUME NEW o \in Officers, NEW t \in Tours, NEW item \in CHECKLIST_ITEMS, NEW value \in BOOLEAN,
             PatchItem(o, t, item, value)
      PROVE  OperationsTypeOK'
    <2> PICK done : done = IF value THEN checklists[t].done \union {item}
                           ELSE checklists[t].done \ {item}
        OBVIOUS
    <2>1. checklists[t] \in ChecklistRow /\ done \subseteq CHECKLIST_ITEMS
        BY DEF OperationsTypeOK, ChecklistRow
    <2>2. [checklists[t] EXCEPT !.done = done] \in ChecklistRow
        BY <2>1 DEF ChecklistRow
    <2>3. [op |-> "checklist", tour |-> t, readiness |-> calcReadiness(done)] \in OfficeRequest
        BY <2>1, ReadinessType DEF OfficeRequest
    <2>4. /\ checklists' = [checklists EXCEPT ![t] = [checklists[t] EXCEPT !.done = done]]
          /\ office' = [office EXCEPT ![o] =
                 [op |-> "checklist", tour |-> t, readiness |-> calcReadiness(done)]]
        BY <1>2 DEF PatchItem
    <2> QED
        BY <1>1, <2>2, <2>3, <2>4, RequestWritten
<1>3. ASSUME NEW o \in Officers, StoreReadiness(o) PROVE OperationsTypeOK'
    <2> PICK t, share : t = office[o].tour /\ share = office[o].readiness
        OBVIOUS
    <2>1. t \in Tours /\ share \in Nat
        BY <1>3, RequestFields DEF StoreReadiness, OperationsTypeOK
    <2>2. [checklists[t] EXCEPT !.readiness = share] \in ChecklistRow
        BY <2>1 DEF OperationsTypeOK, ChecklistRow
    <2>3. /\ checklists' = [checklists EXCEPT ![t] = [checklists[t] EXCEPT !.readiness = share]]
          /\ office' = [office EXCEPT ![o] = Idle]
        BY <1>3 DEF StoreReadiness
    <2> QED
        BY <1>1, <2>1, <2>2, <2>3, RequestWritten, IdleRequest
<1> QED
    BY <1>2, <1>3 DEF ChecklistStep

LEMMA DriversStepOperations ==
    ASSUME OperationsTypeOK, DriversStep,
           UNCHANGED <<margins, cleared, hotels, checklists, costVars, paperVars>>
    PROVE  OperationsTypeOK'
<1>1. ASSUME drivers' \in [Tours -> SUBSET Drivers], office' \in [Officers -> OfficeRequest]
      PROVE  OperationsTypeOK'
    BY <1>1 DEF OperationsTypeOK, costVars, paperVars
<1>2. ASSUME NEW o \in Officers, NEW t \in Tours, NEW d \in Drivers, BeginAssignDriver(o, t, d)
      PROVE  OperationsTypeOK'
    <2>1. [op |-> "driver", tour |-> t, driver |-> d] \in OfficeRequest
        BY DEF OfficeRequest
    <2> QED
        BY <1>1, <1>2, <2>1, RequestWritten DEF BeginAssignDriver, OperationsTypeOK
<1>3. ASSUME NEW o \in Officers, CommitAssignDriver(o) PROVE OperationsTypeOK'
    <2>1. office[o].tour \in Tours /\ office[o].driver \in Drivers
        BY <1>3, RequestFields DEF CommitAssignDriver, OperationsTypeOK
    <2>2. drivers' \in [Tours -> SUBSET Drivers]
        BY <1>3, <2>1 DEF CommitAssignDriver, OperationsTypeOK
    <2>3. office' \in [Officers -> OfficeRequest]
        BY <1>3, RequestWritten, IdleRequest DEF CommitAssignDriver
    <2> QED
        BY <1>1, <2>2, <2>3
<1>4. ASSUME NEW o \in Officers, NEW t \in Tours, NEW d \in Drivers, UnassignDriver(o, t, d)
      PROVE  OperationsTypeOK'
    BY <1>1, <1>4 DEF UnassignDriver, OperationsTypeOK
<1> QED
    BY <1>2, <1>3, <1>4 DEF DriversStep

LEMMA ExtraStepOperations ==
    ASSUME OperationsTypeOK, ExtraStep,
           UNCHANGED <<margins, cleared, hotels, checklists, drivers, paperVars>>
    PROVE  OperationsTypeOK'
<1>1. ASSUME NEW x \in Extras, NEW row \in ExtraRow, extras' = [extras EXCEPT ![x] = row],
             UNCHANGED transports, office' \in [Officers -> OfficeRequest]
      PROVE  OperationsTypeOK'
    BY <1>1 DEF OperationsTypeOK, paperVars
<1>2. ASSUME NEW o \in Officers, NEW x \in Extras, NEW t \in Tours, NEW amount \in Costs,
             CreateExtra(o, x, t, [field \in COST_FIELDS |-> amount])
      PROVE  OperationsTypeOK'
    <2> DEFINE costs == [field \in COST_FIELDS |-> amount]
               row == [status |-> "planned", costs |-> costs, totalCost |-> sumCosts(costs)]
    <2>1. costs \in CostSheet
        BY OfficeAssumption DEF CostSheet
    <2>2. extras' = [extras EXCEPT ![x] = row] /\ UNCHANGED <<office, transports>>
        BY <1>2 DEF CreateExtra
    <2> HIDE DEF costs
    <2>3. row \in ExtraRow
        BY <2>1, SumCostsType DEF ExtraRow
    <2> HIDE DEF row
    <2> QED
        BY <1>1, <2>2, <2>3 DEF OperationsTypeOK
<1>3. ASSUME NEW o \in Officers, NEW x \in Extras, NEW field \in COST_FIELDS, NEW amount \in Costs,
             BeginPatchExtra(o, x, field, amount)
      PROVE  OperationsTypeOK'
    <2> DEFINE merged == [extras[x].costs EXCEPT ![field] = amount]
    <2>1. merged \in CostSheet
        BY OfficeAssumption DEF OperationsTypeOK, ExtraRow, CostSheet
    <2>2. /\ office' = [office EXCEPT ![o] = [op |-> "extra", extra |-> x, field |-> field,
                                              merged |-> merged]]
          /\ UNCHANGED costVars
        BY <1>3 DEF BeginPatchExtra
    <2> HIDE DEF merged
    <2>3. [op |-> "extra", extra |-> x, field |-> field, merged |-> merged] \in OfficeRequest
        BY <2>1 DEF OfficeRequest
    <2> QED
        BY <2>2, <2>3, RequestWritten DEF OperationsTypeOK, costVars, paperVars
<1>4. ASSUME NEW o \in Officers, CommitPatchExtra(o) PROVE OperationsTypeOK'
    <2> PICK x, costs : x = office[o].extra /\ costs = office[o].merged
        OBVIOUS
    <2> DEFINE row == [extras[x] EXCEPT !.costs = costs, !.totalCost = sumCosts(costs)]
    <2>1. x \in Extras /\ costs \in CostSheet
        BY <1>4, RequestFields DEF CommitPatchExtra, OperationsTypeOK
    <2>2. row \in ExtraRow
        BY <2>1, SumCostsType DEF OperationsTypeOK, ExtraRow
    <2>3. /\ extras' = [extras EXCEPT ![x] = row] /\ office' = [office EXCEPT ![o] = Idle]
          /\ UNCHANGED transports
        BY <1>4 DEF CommitPatchExtra, WrittenCosts
    <2> HIDE DEF row
    <2> QED
        BY <1>1, <2>1, <2>2, <2>3, RequestWritten, IdleRequest
<1>5. ASSUME NEW o \in Officers, NEW x \in Extras, CancelExtra(o, x) PROVE OperationsTypeOK'
    <2>1. [extras[x] EXCEPT !.status = "cancelled"] \in ExtraRow
        BY DEF OperationsTypeOK, ExtraRow
    <2>2. extras' = [extras EXCEPT ![x] = [extras[x] EXCEPT !.status = "cancelled"]]
          /\ UNCHANGED <<office, transports>>
        BY <1>5 DEF CancelExtra
    <2> QED
        BY <1>1, <2>1, <2>2 DEF OperationsTypeOK
<1> QED
    BY <1>2, <1>3, <1>4, <1>5 DEF ExtraStep

LEMMA CoachStepOperations ==
    ASSUME OperationsTypeOK, CoachStep,
           UNCHANGED <<margins, cleared, hotels, checklists, drivers, paperVars>>
    PROVE  OperationsTypeOK'
<1>1. ASSUME NEW x \in Transports, NEW row \in TransportRow, transports' = [transports EXCEPT ![x] = row],
             UNCHANGED extras, office' \in [Officers -> OfficeRequest]
      PROVE  OperationsTypeOK'
    BY <1>1 DEF OperationsTypeOK, paperVars
<1>2. ASSUME NEW o \in Officers, NEW x \in Transports, NEW t \in Tours, NEW google \in Distances,
             NEW more \in Distances, CreateTransport(o, x, t, google, more)
      PROVE  OperationsTypeOK'
    <2>1. [exists |-> TRUE, kmGoogle |-> google, kmExtras |-> more, kmTotalPlan |-> google + more]
              \in TransportRow
        BY OfficeAssumption DEF TransportRow
    <2> QED
        BY <1>1, <1>2, <2>1 DEF CreateTransport, OperationsTypeOK
<1>3. ASSUME NEW o \in Officers, NEW x \in Transports, NEW column \in {"kmGoogle", "kmExtras"},
             NEW km \in Distances, BeginPatchTransport(o, x, column, km)
      PROVE  OperationsTypeOK'
    <2> DEFINE next == [transports[x] EXCEPT ![column] = km]
               request == [op |-> "transport", transport |-> x, column |-> column, km |-> km,
                           plan |-> next.kmGoogle + next.kmExtras]
    <2>1. km \in Nat /\ transports[x] \in TransportRow
        BY OfficeAssumption DEF OperationsTypeOK
    <2>2. next.kmGoogle \in Nat /\ next.kmExtras \in Nat
        BY <2>1 DEF TransportRow
    <2>3. office' = [office EXCEPT ![o] = request] /\ UNCHANGED costVars
        BY <1>3 DEF BeginPatchTransport
    <2> HIDE DEF next
    <2>4. request \in OfficeRequest
        BY <2>1, <2>2 DEF OfficeRequest
    <2> HIDE DEF request
    <2> QED
        BY <2>3, <2>4, RequestWritten DEF OperationsTypeOK, costVars, paperVars
<1>4. ASSUME NEW o \in Officers, CommitPatchTransport(o) PROVE OperationsTypeOK'
    <2> PICK x, column, km, plan :
            /\ x = office[o].transport /\ column = office[o].column
            /\ km = office[o].km /\ plan = office[o].plan
        OBVIOUS
    <2> DEFINE row == [transports[x] EXCEPT ![column] = km, !.kmTotalPlan = plan]
    <2>1. /\ x \in Transports /\ column \in {"kmGoogle", "kmExtras"}
          /\ km \in Nat /\ plan \in Nat
        BY <1>4, RequestFields DEF CommitPatchTransport, OperationsTypeOK
    <2>2. transports[x] \in TransportRow
        BY <2>1 DEF OperationsTypeOK
    <2>3. row \in TransportRow
        BY <2>1, <2>2 DEF TransportRow
    <2>4. /\ transports' = [transports EXCEPT ![x] = row] /\ office' = [office EXCEPT ![o] = Idle]
          /\ UNCHANGED extras
        BY <1>4 DEF CommitPatchTransport, PlanOfRead
    <2> HIDE DEF row
    <2> QED
        BY <1>1, <2>1, <2>3, <2>4, RequestWritten, IdleRequest
<1> QED
    BY <1>2, <1>3, <1>4 DEF CoachStep

LEMMA PaperStepOperations ==
    ASSUME OperationsTypeOK, PaperStep, UNCHANGED <<margins, cleared, hotels, checklists, drivers, costVars>>
    PROVE  OperationsTypeOK'
<1>1. ASSUME papers' \subseteq Papers, files' \subseteq Papers, office' \in [Officers -> OfficeRequest]
      PROVE  OperationsTypeOK'
    BY <1>1 DEF OperationsTypeOK, costVars
<1>2. ASSUME NEW o \in Officers, NEW x \in Papers, WriteFile(o, x) PROVE OperationsTypeOK'
    <2>1. [op |-> "paper", paper |-> x] \in OfficeRequest
        BY DEF OfficeRequest
    <2> QED
        BY <1>1, <1>2, <2>1, RequestWritten DEF WriteFile, OperationsTypeOK
<1>3. ASSUME NEW o \in Officers, InsertPaper(o) PROVE OperationsTypeOK'
    <2>1. office[o].paper \in Papers
        BY <1>3, RequestFields DEF InsertPaper, OperationsTypeOK
    <2> QED
        BY <1>1, <1>3, <2>1, RequestWritten, IdleRequest DEF InsertPaper, OperationsTypeOK
<1>4. CASE Redeploy
    BY <1>1, <1>4, IdleRequest DEF Redeploy, OperationsTypeOK
<1> QED
    BY <1>2, <1>3, <1>4 DEF PaperStep

LEMMA OfficeStepOperations == OperationsTypeOK /\ OfficeStep => OperationsTypeOK'
<1> SUFFICES ASSUME OperationsTypeOK, OfficeStep PROVE OperationsTypeOK'
    OBVIOUS
<1>1. CASE AbandonStep /\ UNCHANGED <<gateVars, drivers, costVars, paperVars>>
    BY <1>1, RequestWritten, IdleRequest
    DEF AbandonStep, AbandonOffice, OperationsTypeOK, gateVars, costVars, paperVars
<1>2. CASE TourStep /\ UNCHANGED <<drivers, costVars, paperVars, office>>
    BY <1>2, TourStepOperations
<1>3. CASE /\ HotelStep \/ StructureStep
           /\ UNCHANGED <<margins, cleared, checklists, drivers, costVars, paperVars>>
    BY <1>3, HotelStepOperations
<1>4. CASE ChecklistStep /\ UNCHANGED <<margins, cleared, hotels, drivers, costVars, paperVars>>
    BY <1>4, ChecklistStepOperations
<1>5. CASE DriversStep /\ UNCHANGED <<gateVars, costVars, paperVars>>
    BY <1>5, DriversStepOperations DEF gateVars
<1>6. CASE (ExtraStep \/ CoachStep) /\ UNCHANGED <<gateVars, drivers, paperVars>>
    BY <1>6, ExtraStepOperations, CoachStepOperations DEF gateVars
<1>7. CASE PaperStep /\ UNCHANGED <<gateVars, drivers, costVars>>
    BY <1>7, PaperStepOperations DEF gateVars
<1> QED
    BY <1>1, <1>2, <1>3, <1>4, <1>5, <1>6, <1>7 DEF OfficeStep

\* What a request about passengers of each kind carries.
LEMMA ClerkFields ==
    ASSUME NEW request \in ClerkRequest
    PROVE  /\ request.op \in {"seat", "wish"} =>
                 request.row \in Participants /\ request.seat \in SeatNumbers \union {NoSeat}
           /\ request.op = "room" => request.row \in Participants /\ request.room \in BOOLEAN
           /\ request.op = "close" => request.hotel \in HotelBookings
BY DEF ClerkRequest

LEMMA ClerkWritten ==
    ASSUME PassengersTypeOK, NEW c \in Clerks, NEW request \in ClerkRequest,
           clerks' = [clerks EXCEPT ![c] = request]
    PROVE  clerks' \in [Clerks -> ClerkRequest]
BY DEF PassengersTypeOK

LEMMA StagesNamed ==
    PartyStages = {"pending", "confirmed", "underway", "absent", "cancelled", "none"}
BY DEF PartyStages, StatusesAt

LEMMA PartyStepPassengers ==
    ASSUME PassengersTypeOK, PartyStep, UNCHANGED <<roomVars, scanVars, clerks>>
    PROVE  PassengersTypeOK'
<1>1. PICK b \in Parties : BookParty(b) \/ \E to \in PartyMoves : MoveParty(b, to)
    BY DEF PartyStep
<1>2. parties' \in [Parties -> PartyStages] /\ UNCHANGED seatOf
    BY <1>1, StagesNamed, PassengersAssumption DEF BookParty, MoveParty, PassengersTypeOK
<1> QED
    BY <1>2 DEF PassengersTypeOK, roomVars, scanVars

LEMMA SeatStepPassengers ==
    ASSUME PassengersTypeOK, SeatStep, UNCHANGED <<roomVars, scanVars>>
    PROVE  PassengersTypeOK'
<1>1. ASSUME seatOf' \in [Participants -> SeatNumbers \union {NoSeat}], UNCHANGED parties,
             clerks' \in [Clerks -> ClerkRequest]
      PROVE  PassengersTypeOK'
    BY <1>1 DEF PassengersTypeOK, roomVars, scanVars
<1>2. ASSUME NEW c \in Clerks, NEW p \in Participants, NEW s \in SeatNumbers \union {NoSeat},
             BeginSeat(c, TouristOf[p], p, s) \/ BeginWish(c, p, s)
      PROVE  PassengersTypeOK'
    <2>1. \A op \in {"seat", "wish"}, checked \in BOOLEAN :
              [op |-> op, row |-> p, seat |-> s, checked |-> checked] \in ClerkRequest
        BY DEF ClerkRequest
    <2>2. clerks' \in [Clerks -> ClerkRequest] /\ UNCHANGED seatVars
        BY <1>2, <2>1, ClerkWritten DEF BeginSeat, BeginWish
    <2> QED
        BY <1>1, <2>2 DEF PassengersTypeOK, seatVars
<1>3. ASSUME NEW c \in Clerks, CheckSeat(c) PROVE PassengersTypeOK'
    <2>1. clerks[c] \in ClerkRequest /\ clerks[c].op \in {"seat", "wish"}
        BY <1>3 DEF CheckSeat, PassengersTypeOK
    <2>2. [clerks[c] EXCEPT !.checked = TRUE] \in ClerkRequest
        BY <2>1 DEF ClerkRequest
    <2>3. clerks' = [clerks EXCEPT ![c] = [clerks[c] EXCEPT !.checked = TRUE]] /\ UNCHANGED seatVars
        BY <1>3 DEF CheckSeat
    <2> QED
        BY <1>1, <2>2, <2>3, ClerkWritten DEF PassengersTypeOK, seatVars
<1>4. ASSUME NEW c \in Clerks, WriteSeat(c) PROVE PassengersTypeOK'
    <2>1. clerks[c].row \in Participants /\ clerks[c].seat \in SeatNumbers \union {NoSeat}
        BY <1>4, ClerkFields DEF WriteSeat, PassengersTypeOK
    <2>2. seatOf' \in [Participants -> SeatNumbers \union {NoSeat}]
        BY <1>4, <2>1 DEF WriteSeat, PassengersTypeOK
    <2> QED
        BY <1>1, <1>4, <2>2, ClerkWritten, IdleRequest DEF WriteSeat
<1> QED
    BY <1>2, <1>3, <1>4 DEF SeatStep

LEMMA RoomStepPassengers ==
    ASSUME PassengersTypeOK, RoomStep, UNCHANGED <<seatVars, scanVars>>
    PROVE  PassengersTypeOK'
<1>1. ASSUME roomed' \subseteq Participants,
             rooming' \in [HotelBookings -> [final: BOOLEAN, required: BOOLEAN]],
             clerks' \in [Clerks -> ClerkRequest]
      PROVE  PassengersTypeOK'
    BY <1>1 DEF PassengersTypeOK, seatVars, scanVars
<1>2. ASSUME NEW c \in Clerks, NEW p \in Participants, NEW number \in BOOLEAN,
             BeginRoom(c, TouristOf[p], p, number)
      PROVE  PassengersTypeOK'
    <2>1. [op |-> "room", row |-> p, room |-> number] \in ClerkRequest
        BY DEF ClerkRequest
    <2> QED
        BY <1>1, <1>2, <2>1, ClerkWritten DEF BeginRoom, roomVars, PassengersTypeOK
<1>3. ASSUME NEW c \in Clerks, WriteRoom(c) PROVE PassengersTypeOK'
    <2>1. clerks[c].row \in Participants
        BY <1>3, ClerkFields DEF WriteRoom, PassengersTypeOK
    <2> QED
        BY <1>1, <1>3, <2>1, ClerkWritten, IdleRequest DEF WriteRoom, PassengersTypeOK
<1>4. ASSUME NEW c \in Clerks, NEW h \in HotelBookings, BeginFinalizeRooming(c, h)
      PROVE  PassengersTypeOK'
    <2>1. [op |-> "close", hotel |-> h] \in ClerkRequest
        BY DEF ClerkRequest
    <2> QED
        BY <1>1, <1>4, <2>1, ClerkWritten DEF BeginFinalizeRooming, roomVars, PassengersTypeOK
<1>5. ASSUME NEW c \in Clerks, CommitFinalizeRooming(c) PROVE PassengersTypeOK'
    <2> PICK h : h = clerks[c].hotel
        OBVIOUS
    <2>1. h \in HotelBookings
        BY <1>5, ClerkFields DEF CommitFinalizeRooming, PassengersTypeOK
    <2>2. rooming' = [rooming EXCEPT ![h].final = TRUE] /\ UNCHANGED roomed
        BY <1>5 DEF CommitFinalizeRooming
    <2>3. rooming' \in [HotelBookings -> [final: BOOLEAN, required: BOOLEAN]]
        BY <2>1, <2>2 DEF PassengersTypeOK
    <2>4. clerks' \in [Clerks -> ClerkRequest]
        BY <1>5, ClerkWritten, IdleRequest DEF CommitFinalizeRooming
    <2> QED
        BY <1>1, <2>2, <2>3, <2>4 DEF PassengersTypeOK
<1> QED
    BY <1>2, <1>3, <1>4, <1>5 DEF RoomStep

LEMMA ScanStepPassengers ==
    ASSUME PassengersTypeOK, UNCHANGED <<seatVars, roomed, clerks>>,
           \/ \E w \in Scanners : ScanStep(w) \/ CrashScan(w)
           \/ ApproachDeparture /\ UNCHANGED rooming
    PROVE  PassengersTypeOK'
<1>1. ASSUME rooming' \in [HotelBookings -> [final: BOOLEAN, required: BOOLEAN]],
             alerts' \in [HotelBookings -> Nat], near' \in BOOLEAN,
             scans' \in [Scanners -> SUBSET HotelBookings], losses' \in 0..MaxLosses,
             telling' \in [Scanners -> SUBSET HotelBookings]
      PROVE  PassengersTypeOK'
    BY <1>1 DEF PassengersTypeOK, seatVars
<1>2. ASSUME NEW w \in Scanners, BeginScan(w) PROVE PassengersTypeOK'
    BY <1>1, <1>2 DEF BeginScan, ScanCandidates, HotelsOfDeparture, PassengersTypeOK
<1>3. ASSUME NEW w \in Scanners, NEW h \in HotelBookings, MarkHotel(w, h) PROVE PassengersTypeOK'
    <2>1. /\ rooming' \in [HotelBookings -> [final: BOOLEAN, required: BOOLEAN]]
          /\ telling' \in [Scanners -> SUBSET HotelBookings]
        <3>1. CASE /\ rooming' = [rooming EXCEPT ![h].required = TRUE]
                   /\ telling' = [telling EXCEPT ![w] = @ \union {h}]
            <4>1. telling' \in [Scanners -> SUBSET HotelBookings]
                BY <3>1 DEF PassengersTypeOK
            <4>2. rooming' \in [HotelBookings -> [final: BOOLEAN, required: BOOLEAN]]
                BY <3>1 DEF PassengersTypeOK
            <4> QED
                BY <4>1, <4>2
        <3>2. CASE UNCHANGED <<rooming, telling>>
            BY <3>2 DEF PassengersTypeOK
        <3> QED
            BY <1>3, <3>1, <3>2 DEF MarkHotel
    <2>2. scans' \in [Scanners -> SUBSET HotelBookings] /\ UNCHANGED <<alerts, near, losses>>
        BY <1>3 DEF MarkHotel, PassengersTypeOK
    <2> QED
        BY <1>1, <2>1, <2>2 DEF PassengersTypeOK
<1>4. ASSUME NEW w \in Scanners, CrashScan(w) PROVE PassengersTypeOK'
    BY <1>1, <1>4, PassengersAssumption DEF CrashScan, PassengersTypeOK
<1>6. ASSUME NEW w \in Scanners, NEW h \in HotelBookings, TellHotel(w, h) PROVE PassengersTypeOK'
    <2>1. alerts' \in [HotelBookings -> Nat]
        BY <1>6 DEF TellHotel, PassengersTypeOK
    <2>2. telling' \in [Scanners -> SUBSET HotelBookings]
        BY <1>6 DEF TellHotel, PassengersTypeOK
    <2> QED
        BY <1>1, <1>6, <2>1, <2>2 DEF TellHotel, PassengersTypeOK
<1>7. ASSUME NEW w \in Scanners, NEW h \in HotelBookings, LoseAlert(w, h) PROVE PassengersTypeOK'
    <2>1. telling' \in [Scanners -> SUBSET HotelBookings] /\ losses' \in 0..MaxLosses
        BY <1>7, PassengersAssumption DEF LoseAlert, PassengersTypeOK
    <2> QED
        BY <1>1, <1>7, <2>1 DEF LoseAlert, PassengersTypeOK
<1>5. CASE ApproachDeparture /\ UNCHANGED rooming
    BY <1>1, <1>5 DEF ApproachDeparture, PassengersTypeOK
<1> QED
    BY <1>2, <1>3, <1>4, <1>5, <1>6, <1>7 DEF ScanStep

LEMMA PassengerStepType ==
    ASSUME PassengersTypeOK, PassengerStep
    PROVE  PassengersTypeOK'
<1>1. CASE (\E c \in Clerks : AbandonClerk(c)) /\ UNCHANGED <<seatVars, roomVars, scanVars>>
    BY <1>1, ClerkWritten, IdleRequest
    DEF AbandonClerk, PassengersTypeOK, seatVars, roomVars, scanVars
<1>2. CASE PartyStep /\ UNCHANGED <<roomVars, scanVars, clerks>>
    BY <1>2, PartyStepPassengers
<1>3. CASE SeatStep /\ UNCHANGED <<roomVars, scanVars>>
    BY <1>3, SeatStepPassengers
<1>4. CASE RoomStep /\ UNCHANGED <<seatVars, scanVars>>
    BY <1>4, RoomStepPassengers
<1>5. CASE /\ UNCHANGED <<seatVars, roomed, clerks>>
           /\ \/ \E w \in Scanners : ScanStep(w) \/ CrashScan(w)
              \/ ApproachDeparture /\ UNCHANGED rooming
    BY <1>5, ScanStepPassengers
<1> QED
    BY <1>1, <1>2, <1>3, <1>4, <1>5 DEF PassengerStep

LEMMA InitOffice == Init => TourOfficeTypeOK
<1> SUFFICES ASSUME Init PROVE TourOfficeTypeOK
    OBVIOUS
<1>1. load \in Loads /\ ToursTypeOK
    BY InitHotels DEF Init
<1>2. NoHotelRow \in HotelRow /\ NoTransportRow \in TransportRow
    BY ToursAssumption DEF NoHotelRow, HotelRow, NoRooms, Structure, NoTransportRow, TransportRow
<1>3. NoExtraRow \in ExtraRow
    <2> DEFINE costs == [field \in COST_FIELDS |-> 0]
    <2>1. costs \in CostSheet
        BY DEF CostSheet
    <2> HIDE DEF costs
    <2>2. [status |-> "none", costs |-> costs, totalCost |-> 0] \in ExtraRow
        BY <2>1 DEF ExtraRow
    <2> QED
        BY <2>2 DEF NoExtraRow, costs
<1>4. OperationsTypeOK
    BY <1>2, <1>3, IdleRequest DEF Init, OperationsInit, OperationsTypeOK, Margins, ChecklistRow
<1>5. PassengersTypeOK
    <2>1. /\ parties \in [Parties -> PartyStages]
          /\ seatOf \in [Participants -> SeatNumbers \union {NoSeat}]
          /\ roomed \subseteq Participants
        BY StagesNamed DEF Init, PassengersInit
    <2>2. /\ rooming \in [HotelBookings -> [final: BOOLEAN, required: BOOLEAN]]
          /\ alerts \in [HotelBookings -> Nat] /\ near \in BOOLEAN
        BY DEF Init, PassengersInit
    <2>3. /\ scans \in [Scanners -> SUBSET HotelBookings]
          /\ telling \in [Scanners -> SUBSET HotelBookings]
          /\ clerks \in [Clerks -> ClerkRequest]
        BY IdleRequest DEF Init, PassengersInit
    <2>4. losses \in 0..MaxLosses
        BY PassengersAssumption DEF Init, PassengersInit
    <2> QED
        BY <2>1, <2>2, <2>3, <2>4 DEF PassengersTypeOK
<1> QED
    BY <1>1, <1>4, <1>5 DEF TourOfficeTypeOK

LEMMA StepOffice == TourOfficeTypeOK /\ [Next]_officeVars => TourOfficeTypeOK'
<1> SUFFICES ASSUME TourOfficeTypeOK, [Next]_officeVars PROVE TourOfficeTypeOK'
    OBVIOUS
<1>1. UNCHANGED load
    BY DEF Next, officeVars
<1>2. ToursTypeOK'
    BY TourStepType DEF TourOfficeTypeOK, Next, OfficeStep, ToursTypeOK, tourVars, officeVars, deskVars
<1>3. OperationsTypeOK'
    <2>1. CASE OfficeStep
        BY <2>1, OfficeStepOperations DEF TourOfficeTypeOK
    <2>2. CASE UNCHANGED deskVars
        BY <2>2 DEF TourOfficeTypeOK, OperationsTypeOK, deskVars, gateVars, costVars, paperVars
    <2> QED
        BY <2>1, <2>2 DEF Next, officeVars
<1>4. PassengersTypeOK'
    <2>1. CASE PassengerStep
        BY <2>1, PassengerStepType DEF TourOfficeTypeOK
    <2>2. CASE UNCHANGED passengerVars
        BY <2>2 DEF TourOfficeTypeOK, PassengersTypeOK, passengerVars, seatVars, roomVars, scanVars
    <2> QED
        BY <2>1, <2>2 DEF Next, officeVars
<1> QED
    BY <1>1, <1>2, <1>3, <1>4 DEF TourOfficeTypeOK

\* Every reachable state of the tour office is well formed: whatever is in
\* flight, rows refer to rows, and what is computed of them is of its type.
THEOREM TourOfficeTypeCorrect == Spec => []TourOfficeTypeOK
BY InitOffice, StepOffice, PTL DEF Spec

(***************************************************************************)
(* Extra costs                                                             *)
(***************************************************************************)

\* An extra is written with the sum of the columns written with it, whatever it
\* held when the request read it.
LEMMA StepExtras ==
    ASSUME TourOfficeTypeOK, ExtrasAddUp, [Next]_officeVars
    PROVE  ExtrasAddUp'
<1>1. OperationsTypeOK
    BY DEF TourOfficeTypeOK
<1>2. ASSUME NEW x \in Extras, NEW row, extras' = [extras EXCEPT ![x] = row],
             row.totalCost = sumCosts(row.costs)
      PROVE  ExtrasAddUp'
    BY <1>1, <1>2 DEF ExtrasAddUp, OperationsTypeOK
<1>3. ASSUME NEW o \in Officers, NEW x \in Extras, NEW t, NEW costs, CreateExtra(o, x, t, costs)
      PROVE  ExtrasAddUp'
    BY <1>2, <1>3 DEF CreateExtra
<1>4. ASSUME NEW o \in Officers, CommitPatchExtra(o) PROVE ExtrasAddUp'
    <2> PICK x, costs : x = office[o].extra /\ costs = office[o].merged
        OBVIOUS
    <2> DEFINE row == [extras[x] EXCEPT !.costs = costs, !.totalCost = sumCosts(costs)]
    <2>1. x \in Extras
        BY <1>1, <1>4, RequestFields DEF CommitPatchExtra, OperationsTypeOK
    <2>2. row.costs = costs /\ row.totalCost = sumCosts(costs)
        BY <1>1, <2>1 DEF OperationsTypeOK, ExtraRow
    <2>3. extras' = [extras EXCEPT ![x] = row]
        BY <1>4 DEF CommitPatchExtra, WrittenCosts
    <2> HIDE DEF row
    <2> QED
        BY <1>2, <2>1, <2>2, <2>3
<1>5. ASSUME NEW o \in Officers, NEW x \in Extras, CancelExtra(o, x) PROVE ExtrasAddUp'
    <2> DEFINE row == [extras[x] EXCEPT !.status = "cancelled"]
    <2>1. row.costs = extras[x].costs /\ row.totalCost = extras[x].totalCost
        BY <1>1 DEF OperationsTypeOK, ExtraRow
    <2>2. row.totalCost = sumCosts(row.costs)
        BY <2>1 DEF ExtrasAddUp
    <2>3. extras' = [extras EXCEPT ![x] = row]
        BY <1>5 DEF CancelExtra
    <2> HIDE DEF row
    <2> QED
        BY <1>2, <2>2, <2>3
<1>6. CASE UNCHANGED extras
    BY <1>6 DEF ExtrasAddUp
<1>7. ExtraStep \/ UNCHANGED extras
    <2>1. CoachStep => UNCHANGED extras
        BY DEF CoachStep, CreateTransport, BeginPatchTransport, CommitPatchTransport, costVars
    <2> QED
        BY <2>1 DEF Next, OfficeStep, costVars, deskVars, officeVars
<1> QED
    BY <1>3, <1>4, <1>5, <1>6, <1>7 DEF ExtraStep, BeginPatchExtra, costVars

\* The total of every extra is the sum of its columns: for any columns and
\* amounts, and however the patches of one extra overlap.
THEOREM ExtraTotalsAreSums == Spec => []ExtrasAddUp
<1>1. Init => ExtrasAddUp
    <2> SUFFICES ASSUME Init PROVE ExtrasAddUp
        OBVIOUS
    <2> DEFINE nothing == [field \in COST_FIELDS |-> 0]
    <2>1. SumOf(nothing, COST_FIELDS) = 0
        BY OfficeAssumption, SumOfZeros
    <2>2. DOMAIN nothing = COST_FIELDS
        OBVIOUS
    <2> HIDE DEF nothing
    <2>3. \A x \in Extras : extras[x] = [status |-> "none", costs |-> nothing, totalCost |-> 0]
        BY DEF Init, OperationsInit, NoExtraRow, nothing
    <2> QED
        BY <2>1, <2>2, <2>3 DEF ExtrasAddUp, sumCosts
<1>2. TourOfficeTypeOK /\ ExtrasAddUp /\ [Next]_officeVars => ExtrasAddUp'
    BY StepExtras
<1> QED
    BY <1>1, <1>2, TourOfficeTypeCorrect, PTL DEF Spec

(***************************************************************************)
(* The closing of the rooming                                              *)
(***************************************************************************)

\* A hotel booking of the departure stays one.
LEMMA HotelsOfDepartureGrow ==
    ASSUME HotelsTypeOK, [Next]_officeVars
    PROVE  HotelsOfDeparture \subseteq HotelsOfDeparture'
<1>1. ASSUME NEW h \in HotelBookings, NEW t, HotelInsert(h, t)
      PROVE  HotelsOfDeparture \subseteq HotelsOfDeparture'
    <2>1. h \notin HotelsOfDeparture /\ \A g \in HotelBookings \ {h} : hotels'[g] = hotels[g]
        BY <1>1 DEF HotelInsert, HotelsTypeOK, HotelsOfDeparture
    <2> QED
        BY <2>1 DEF HotelsOfDeparture, HotelExists
<1>2. ASSUME NEW o \in Officers, HotelCommit(o)
      PROVE  HotelsOfDeparture \subseteq HotelsOfDeparture'
    <2> PICK h, row : /\ h = office[o].hotel
                      /\ row = CASE office[o].op = "structure" ->
                                       [hotels[h] EXCEPT !.rooms = office[o].rooms]
                                 [] office[o].op = "approve"  -> [hotels[h] EXCEPT !.structure = "approved"]
                                 [] office[o].op = "finalize" -> [hotels[h] EXCEPT !.structure = "final"]
        OBVIOUS
    <2>1. h \in HotelBookings /\ hotels[h] \in HotelRow /\ HotelExists(h)
        BY <1>2 DEF HotelCommit, HotelsTypeOK, HotelRequestOK
    <2>2. row.tour = hotels[h].tour /\ row.structure # "none"
        BY <1>2, <2>1 DEF HotelCommit, HotelRow, HotelOps, HotelExists
    <2>3. hotels' = [hotels EXCEPT ![h] = row]
        BY <1>2 DEF HotelCommit
    <2>4. hotels'[h] = row /\ \A g \in HotelBookings \ {h} : hotels'[g] = hotels[g]
        BY <2>1, <2>3 DEF HotelsTypeOK
    <2> QED
        BY <2>2, <2>4 DEF HotelsOfDeparture, HotelExists
<1>3. CASE UNCHANGED hotels
    BY <1>3 DEF HotelsOfDeparture, HotelExists
<1> QED
    BY <1>1, <1>2, <1>3, Shapes DEF HotelAction, HotelBegin

\* From the count on, while nothing overlaps with the closing and nothing is
\* confirmed after it, everybody has a room and no request takes one away.
RoomsInv ==
    /\ PassengersTypeOK
    /\ \A h \in HotelBookings : rooming[h].final => h \in HotelsOfDeparture
    /\ \A c \in Clerks : clerks[c].op = "close" => clerks[c].hotel \in HotelsOfDeparture
    /\ (ClosingInFlight \/ RoomingClosed) /\ load.overlap \intersect {"rooming", "late"} = {} =>
          WithoutRoom = {} /\ \A c \in Clerks : clerks[c].op # "room"

\* Fewer to have a room, and no closing or request on rooms that was not there.
LEMMA RoomsInvKept ==
    ASSUME RoomsInv, PassengersTypeOK', UNCHANGED load,
           HotelsOfDeparture \subseteq HotelsOfDeparture',
           \A h \in HotelBookings : rooming'[h].final => rooming[h].final,
           \A c \in Clerks : clerks'[c].op \in {"close", "room"} => clerks'[c] = clerks[c],
           WithoutRoom' \subseteq WithoutRoom
               \/ ~(ClosingInFlight \/ RoomingClosed)
               \/ load.overlap \intersect {"rooming", "late"} # {}
    PROVE  RoomsInv'
<1>1. \A h \in HotelBookings : rooming'[h].final => h \in HotelsOfDeparture'
    BY DEF RoomsInv
<1>2. \A c \in Clerks : clerks'[c].op = "close" => clerks'[c].hotel \in HotelsOfDeparture'
    BY DEF RoomsInv
<1>3. RoomingClosed' => RoomingClosed
    BY DEF RoomingClosed, RoomsInv, HotelsOfDeparture
<1>4. ClosingInFlight' => ClosingInFlight
    BY DEF ClosingInFlight
<1> QED
    BY <1>1, <1>2, <1>3, <1>4 DEF RoomsInv

LEMMA PartyStepRooms ==
    ASSUME RoomsInv, PassengersTypeOK', PartyStep,
           UNCHANGED <<load, roomVars, clerks, hotels>>
    PROVE  RoomsInv'
<1>0. /\ PassengersTypeOK
      /\ HotelsOfDeparture' = HotelsOfDeparture
      /\ UNCHANGED <<rooming, roomed>>
    BY DEF RoomsInv, HotelsOfDeparture, HotelExists, roomVars
<1>1. WithoutRoom' \subseteq WithoutRoom
          \/ ~(ClosingInFlight \/ RoomingClosed)
          \/ load.overlap \intersect {"rooming", "late"} # {}
    <2> PICK b \in Parties :
            \/ BookParty(b)
            \/ \E to \in PartyMoves :
                  /\ to \in CONFIRMED_AND_BEYOND =>
                         MayOverlap("late") \/ (~RoomingClosed /\ ~ClosingInFlight)
                  /\ MoveParty(b, to)
        BY DEF PartyStep
    <2>1. PICK to : /\ parties' = [parties EXCEPT ![b] = to]
                    /\ to \in CONFIRMED_AND_BEYOND =>
                           MayOverlap("late") \/ (~RoomingClosed /\ ~ClosingInFlight)
        BY DEF BookParty, MoveParty, CONFIRMED_AND_BEYOND
    <2>2. CASE to \in CONFIRMED_AND_BEYOND
        BY <2>1, <2>2 DEF MayOverlap
    <2>3. CASE to \notin CONFIRMED_AND_BEYOND
        <3>1. \A p \in Participants : Confirmed(p)' => Confirmed(p)
            BY <1>0, <2>1, <2>3, PassengersAssumption DEF Confirmed, PassengersTypeOK
        <3> QED
            BY <1>0, <3>1 DEF WithoutRoom
    <2> QED
        BY <2>2, <2>3
<1> QED
    BY <1>0, <1>1, RoomsInvKept

LEMMA SeatStepRooms ==
    ASSUME RoomsInv, PassengersTypeOK', SeatStep,
           UNCHANGED <<load, roomVars, hotels>>
    PROVE  RoomsInv'
<1>0. /\ PassengersTypeOK
      /\ HotelsOfDeparture' = HotelsOfDeparture
      /\ UNCHANGED <<rooming, roomed>>
    BY DEF RoomsInv, HotelsOfDeparture, HotelExists, roomVars
<1>1. PICK c \in Clerks : \/ \E p, s : BeginSeat(c, TouristOf[p], p, s) \/ BeginWish(c, p, s)
                          \/ CheckSeat(c) \/ WriteSeat(c)
    BY DEF SeatStep
<1>2. UNCHANGED parties
    BY <1>1 DEF BeginSeat, BeginWish, CheckSeat, WriteSeat, seatVars
<1>3. ASSUME NEW request, clerks' = [clerks EXCEPT ![c] = request], request.op \notin {"close", "room"}
      PROVE  \A d \in Clerks : clerks'[d].op \in {"close", "room"} => clerks'[d] = clerks[d]
    BY <1>0, <1>3 DEF PassengersTypeOK
<1>4. \A d \in Clerks : clerks'[d].op \in {"close", "room"} => clerks'[d] = clerks[d]
    <2>1. CASE CheckSeat(c)
        <3>1. clerks[c] \in ClerkRequest /\ clerks[c].op \in {"seat", "wish"}
            BY <1>0, <2>1 DEF CheckSeat, PassengersTypeOK
        <3>2. [clerks[c] EXCEPT !.checked = TRUE].op \in {"seat", "wish"}
            BY <3>1 DEF ClerkRequest
        <3>3. clerks' = [clerks EXCEPT ![c] = [clerks[c] EXCEPT !.checked = TRUE]]
            BY <2>1 DEF CheckSeat
        <3> QED
            BY <1>3, <3>2, <3>3
    <2>2. ASSUME NEW p, NEW s, BeginSeat(c, TouristOf[p], p, s) \/ BeginWish(c, p, s)
          PROVE  \A d \in Clerks : clerks'[d].op \in {"close", "room"} => clerks'[d] = clerks[d]
        <3>1. PICK op \in {"seat", "wish"} :
                  clerks' = [clerks EXCEPT ![c] = [op |-> op, row |-> p, seat |-> s, checked |-> s = NoSeat]]
            BY <2>2 DEF BeginSeat, BeginWish
        <3>2. [op |-> op, row |-> p, seat |-> s, checked |-> s = NoSeat].op \notin {"close", "room"}
            OBVIOUS
        <3> QED
            BY <1>3, <3>1, <3>2
    <2>3. CASE WriteSeat(c)
        <3>1. clerks' = [clerks EXCEPT ![c] = Idle] /\ Idle.op = "idle"
            BY <2>3 DEF WriteSeat
        <3> HIDE DEF Idle
        <3> QED
            BY <1>3, <3>1
    <2> QED
        BY <1>1, <2>1, <2>2, <2>3
<1>5. WithoutRoom' = WithoutRoom
    BY <1>0, <1>2 DEF WithoutRoom, Confirmed
<1> QED
    BY <1>0, <1>4, <1>5, RoomsInvKept

LEMMA RoomStepRooms ==
    ASSUME RoomsInv, PassengersTypeOK', RoomStep,
           UNCHANGED <<load, seatVars, hotels>>
    PROVE  RoomsInv'
<1>0. /\ PassengersTypeOK /\ UNCHANGED parties
      /\ HotelsOfDeparture' = HotelsOfDeparture
    BY DEF RoomsInv, HotelsOfDeparture, HotelExists, seatVars
<1>1. ASSUME NEW c \in Clerks, NEW p, NEW number, ClerkFree, BeginRoom(c, TouristOf[p], p, number)
      PROVE  RoomsInv'
    <2>1. /\ clerks' = [clerks EXCEPT ![c] = [op |-> "room", row |-> p, room |-> number]]
          /\ UNCHANGED <<rooming, roomed>>
        BY <1>1 DEF BeginRoom, roomVars
    <2>2. \A d \in Clerks : clerks'[d].op = "close" => clerks[d].op = "close" /\ clerks'[d] = clerks[d]
        BY <1>0, <2>1 DEF PassengersTypeOK
    <2>3. RoomingClosed' = RoomingClosed
        BY <1>0, <2>1 DEF RoomingClosed
    <2>4. ~RoomingClosed /\ ("rooming" \notin load.overlap => ~ClosingInFlight)
        BY <1>1 DEF BeginRoom, RoomsOpen, ClerkFree, MayOverlap
    <2>5. "rooming" \notin load.overlap => ~ClosingInFlight'
        BY <2>2, <2>4 DEF ClosingInFlight
    <2>6. /\ \A h \in HotelBookings : rooming'[h].final => h \in HotelsOfDeparture'
          /\ \A d \in Clerks : clerks'[d].op = "close" => clerks'[d].hotel \in HotelsOfDeparture'
        BY <1>0, <2>1, <2>2 DEF RoomsInv
    <2> QED
        BY <2>3, <2>4, <2>5, <2>6 DEF RoomsInv
<1>2. ASSUME NEW c \in Clerks, WriteRoom(c)
      PROVE  RoomsInv'
    <2>1. /\ clerks' = [clerks EXCEPT ![c] = Idle] /\ UNCHANGED rooming
          /\ clerks[c].op = "room"
        BY <1>2 DEF WriteRoom
    <2>2. \A d \in Clerks : clerks'[d].op \in {"close", "room"} => clerks'[d] = clerks[d]
        BY <1>0, <2>1 DEF PassengersTypeOK
    <2>3. \/ ~(ClosingInFlight \/ RoomingClosed)
          \/ load.overlap \intersect {"rooming", "late"} # {}
        BY <2>1 DEF RoomsInv
    <2> QED
        BY <1>0, <2>1, <2>2, <2>3, RoomsInvKept
<1>3. ASSUME NEW c \in Clerks, NEW h, ClosingFree, BeginFinalizeRooming(c, h)
      PROVE  RoomsInv'
    <2>1. /\ clerks' = [clerks EXCEPT ![c] = [op |-> "close", hotel |-> h]]
          /\ h \in HotelsOfDeparture /\ WithoutRoom = {}
          /\ UNCHANGED <<rooming, roomed>>
        BY <1>3 DEF BeginFinalizeRooming, roomVars
    <2>2. /\ clerks'[c] = [op |-> "close", hotel |-> h]
          /\ \A d \in Clerks \ {c} : clerks'[d] = clerks[d]
        BY <1>0, <2>1 DEF PassengersTypeOK
    <2>3. WithoutRoom' = {}
        BY <1>0, <2>1 DEF WithoutRoom, Confirmed
    <2>4. "rooming" \notin load.overlap => \A d \in Clerks : clerks'[d].op # "room"
        BY <1>3, <2>2 DEF ClosingFree, ClerksIdle, MayOverlap
    <2>5. /\ \A g \in HotelBookings : rooming'[g].final => g \in HotelsOfDeparture'
          /\ \A d \in Clerks : clerks'[d].op = "close" => clerks'[d].hotel \in HotelsOfDeparture'
        BY <1>0, <2>1, <2>2 DEF RoomsInv
    <2> QED
        BY <2>3, <2>4, <2>5 DEF RoomsInv
<1>4. ASSUME NEW c \in Clerks, CommitFinalizeRooming(c)
      PROVE  RoomsInv'
    <2> PICK h : h = clerks[c].hotel
        OBVIOUS
    <2>1. /\ clerks' = [clerks EXCEPT ![c] = Idle] /\ UNCHANGED roomed
          /\ rooming' = [rooming EXCEPT ![h].final = TRUE]
          /\ ClosingInFlight /\ h \in HotelsOfDeparture
        BY <1>4 DEF CommitFinalizeRooming, ClosingInFlight, RoomsInv
    <2>2. \A d \in Clerks : clerks'[d].op \in {"close", "room"} => clerks'[d] = clerks[d]
        BY <1>0, <2>1 DEF PassengersTypeOK
    <2>3. \A g \in HotelBookings : rooming'[g].final => g = h \/ rooming[g].final
        BY <1>0, <2>1 DEF PassengersTypeOK
    <2>4. WithoutRoom' = WithoutRoom
        BY <1>0, <2>1 DEF WithoutRoom, Confirmed
    <2>5. /\ \A g \in HotelBookings : rooming'[g].final => g \in HotelsOfDeparture'
          /\ \A d \in Clerks : clerks'[d].op = "close" => clerks'[d].hotel \in HotelsOfDeparture'
        BY <1>0, <2>1, <2>2, <2>3 DEF RoomsInv
    <2> QED
        BY <2>1, <2>2, <2>4, <2>5 DEF RoomsInv
<1> QED
    BY <1>1, <1>2, <1>3, <1>4 DEF RoomStep

LEMMA StepRooms ==
    ASSUME HotelsTypeOK, PassengersTypeOK', RoomsInv, [Next]_officeVars
    PROVE  RoomsInv'
<1>0. UNCHANGED load /\ PassengersTypeOK
    BY DEF Next, officeVars, RoomsInv
<1>1. CASE UNCHANGED passengerVars
    <2>1. UNCHANGED <<parties, roomed, rooming, clerks>>
        BY <1>1 DEF passengerVars, seatVars, roomVars
    <2>2. WithoutRoom' = WithoutRoom
        BY <2>1 DEF WithoutRoom, Confirmed
    <2> QED
        BY <1>0, <2>1, <2>2, HotelsOfDepartureGrow, RoomsInvKept
<1>2. CASE PassengerStep /\ UNCHANGED hotels
    <2>1. CASE PartyStep /\ UNCHANGED <<roomVars, clerks>>
        BY <1>0, <1>2, <2>1, PartyStepRooms
    <2>2. CASE SeatStep /\ UNCHANGED roomVars
        BY <1>0, <1>2, <2>2, SeatStepRooms
    <2>3. CASE RoomStep /\ UNCHANGED seatVars
        BY <1>0, <1>2, <2>3, RoomStepRooms
    <2>4. ASSUME NEW c \in Clerks, AbandonClerk(c), UNCHANGED <<seatVars, roomVars>>
          PROVE  RoomsInv'
        <3>1. UNCHANGED <<parties, roomed, rooming>> /\ clerks' = [clerks EXCEPT ![c] = Idle]
            BY <2>4 DEF AbandonClerk, seatVars, roomVars
        <3>2. \A d \in Clerks : clerks'[d].op \in {"close", "room"} => clerks'[d] = clerks[d]
            BY <1>0, <3>1 DEF PassengersTypeOK
        <3>3. WithoutRoom' = WithoutRoom
            BY <3>1 DEF WithoutRoom, Confirmed
        <3> QED
            BY <1>0, <3>1, <3>2, <3>3, HotelsOfDepartureGrow, RoomsInvKept
    <2>5. CASE /\ UNCHANGED <<seatVars, roomed, clerks>>
               /\ \A h \in HotelBookings : rooming'[h].final => rooming[h].final
        <3>1. WithoutRoom' = WithoutRoom
            BY <2>5 DEF WithoutRoom, Confirmed, seatVars
        <3> QED
            BY <1>0, <2>5, <3>1, HotelsOfDepartureGrow, RoomsInvKept
    <2>6. ASSUME UNCHANGED rooming
                 \/ \E w \in Scanners : \/ \E h \in HotelBookings :
                                               MarkHotel(w, h) \/ TellHotel(w, h) \/ LoseAlert(w, h)
                                        \/ BeginScan(w) \/ CrashScan(w)
          PROVE  \A h \in HotelBookings : rooming'[h].final => rooming[h].final
        BY <1>0, <2>6 DEF MarkHotel, TellHotel, LoseAlert, BeginScan, CrashScan, PassengersTypeOK
    <2> QED
        BY <1>2, <2>1, <2>2, <2>3, <2>4, <2>5, <2>6 DEF PassengerStep, ScanStep
<1> QED
    BY <1>1, <1>2 DEF Next, officeVars, deskVars, gateVars

\* OPS-16: at whatever moment everybody of a confirmed booking was counted to
\* have a room, all of them have one for good, unless something overlapped with
\* the closing or was confirmed after it; for any number of clerks and rows.
THEOREM ClosedRoomingsComplete == Spec => []ClosedRoomingIsComplete
<1>1. Init => RoomsInv
    <2> SUFFICES ASSUME Init PROVE RoomsInv
        OBVIOUS
    <2>1. PassengersTypeOK
        BY InitOffice DEF TourOfficeTypeOK
    <2>2. /\ \A h \in HotelBookings : ~rooming[h].final
          /\ \A c \in Clerks : clerks[c].op = "idle"
        BY DEF Init, PassengersInit
    <2> QED
        BY <2>1, <2>2 DEF RoomsInv, ClosingInFlight, RoomingClosed, HotelsOfDeparture
<1>2. HotelsTypeOK /\ TourOfficeTypeOK' /\ RoomsInv /\ [Next]_officeVars => RoomsInv'
    BY StepRooms DEF TourOfficeTypeOK
<1>3. ToursTypeOK /\ HotelsTypeOK /\ [Next]_officeVars => ToursTypeOK' /\ HotelsTypeOK'
    BY StepType
<1>4. RoomsInv => ClosedRoomingIsComplete
    BY DEF RoomsInv, ClosedRoomingIsComplete, WithoutRoom
<1> QED
    BY <1>1, <1>2, <1>3, <1>4, InitHotels, TourOfficeTypeCorrect, PTL DEF Spec

(***************************************************************************)
(* The gate of OPS-18                                                      *)
(***************************************************************************)

\* Neither requests nor the process end at a time that DepartsReady excludes.
Undisturbed == load.overlap \intersect {"gate", "checklist", "crash", "redeploy"} = {}

ReadinessFollows(t) == checklists[t].readiness = calcReadiness(checklists[t].done)

\* The readiness of a tour, or else that of the one request that has still to
\* store it, is that of the items done; and a change of status that passed its
\* gate excludes such a request.
ReadyInv ==
    Undisturbed =>
        /\ \A t \in Tours : ChecklistInFlight(t) \/ ReadinessFollows(t)
        /\ \A o \in Officers : office[o].op = "checklist" =>
              /\ office[o].readiness = calcReadiness(checklists[office[o].tour].done)
              /\ \A q \in Officers :
                    office[q].op = "checklist" /\ office[q].tour = office[o].tour => q = o
        /\ \A p \in Planners :
              /\ p \in cleared => plans[p].op = "status"
              /\ plans[p].op = "status" =>
                    /\ ~ChecklistInFlight(plans[p].tour)
                    /\ p \in cleared /\ plans[p].to = "on_tour" => ChecklistReady(plans[p].tour)

\* All of a hundred percent is every item, for lists of fewer than two hundred.
LEMMA HundredPercent ==
    ASSUME NEW done \in SUBSET CHECKLIST_ITEMS, Cardinality(CHECKLIST_ITEMS) < 200,
           calcReadiness(done) >= 100
    PROVE  done = CHECKLIST_ITEMS
<1> DEFINE n == Cardinality(CHECKLIST_ITEMS)
           k == Cardinality(done)
<1>1. /\ n \in Nat \ {0} /\ k \in Nat /\ k <= n /\ n < 200
      /\ k = n => done = CHECKLIST_ITEMS
    BY OfficeAssumption, FS_Subset, FS_CardinalityType, FS_EmptySet
<1>2. (2 * 100 * k + n) \div (2 * n) >= 100
    BY DEF calcReadiness
<1> HIDE DEF n, k
<1>3. ASSUME k + 1 <= n PROVE FALSE
    <2>1. 200 * k + n < 200 * n
        BY <1>1, <1>3
    <2>2. 200 * k + n < 100 * (2 * n)
        BY <1>1, <2>1
    <2>3. (200 * k + n) \div (2 * n) < 100
        BY <1>1, <2>2
    <2> QED
        BY <1>1, <1>2, <2>3
<1> QED
    BY <1>1, <1>3

LEMMA NothingDone == calcReadiness({}) = 0
<1> DEFINE n == Cardinality(CHECKLIST_ITEMS)
<1>1. n \in Nat \ {0} /\ Cardinality({}) = 0
    BY OfficeAssumption, FS_CardinalityType, FS_EmptySet
<1> HIDE DEF n
<1>2. (2 * 100 * 0 + n) \div (2 * n) = 0
    BY <1>1
<1> QED
    BY <1>1, <1>2 DEF calcReadiness, n

\* The requests on checklists are in flight as before.
SameChecklistRequests ==
    \A o \in Officers :
        office[o].op = "checklist" \/ office'[o].op = "checklist" => office'[o] = office[o]

LEMMA OtherRequest ==
    ASSUME NEW o \in Officers, NEW request, office' = [office EXCEPT ![o] = request],
           DOMAIN office = Officers, office[o].op # "checklist", request.op # "checklist"
    PROVE  SameChecklistRequests
BY DEF SameChecklistRequests

LEMMA OthersLeaveChecklists ==
    ASSUME DOMAIN office = Officers, Undisturbed,
           HotelStep \/ StructureStep \/ DriversStep \/ ExtraStep \/ CoachStep \/ PaperStep \/ AbandonStep
    PROVE  SameChecklistRequests
<1>0. office' = office => SameChecklistRequests
    BY DEF SameChecklistRequests
<1>1. CASE HotelStep
    <2>1. PICK o \in Officers :
              \/ UNCHANGED office
              \/ office[o].op # "checklist" /\ office' = [office EXCEPT ![o] = Idle]
              \/ \E h \in HotelBookings :
                    /\ office[o].op # "checklist"
                    /\ office' = [office EXCEPT ![o] = [op |-> "approve", hotel |-> h]]
        BY <1>1 DEF HotelStep, CreateHotelBooking, BeginApproveStructure, CommitApproveStructure
    <2> QED
        BY <1>0, <2>1, OtherRequest
<1>2. CASE StructureStep
    <2>1. PICK o \in Officers :
              \/ \E h \in HotelBookings, rooms \in Structures : BeginSetStructure(o, h, rooms)
              \/ \E h \in HotelBookings : BeginFinalizeStructure(o, h)
              \/ CommitSetStructure(o) \/ CommitFinalizeStructure(o)
        BY <1>2 DEF StructureStep
    <2>2. /\ office[o].op # "checklist"
          /\ \/ \E h, rooms : office' = [office EXCEPT ![o] = [op |-> "structure", hotel |-> h, rooms |-> rooms]]
             \/ \E h : office' = [office EXCEPT ![o] = [op |-> "finalize", hotel |-> h]]
             \/ office' = [office EXCEPT ![o] = Idle]
        BY <2>1 DEF BeginSetStructure, CommitSetStructure, BeginFinalizeStructure, CommitFinalizeStructure
    <2> QED
        BY <2>2, OtherRequest
<1>3. CASE DriversStep
    <2>1. PICK o \in Officers :
              \/ \E t \in Tours, d \in Drivers : BeginAssignDriver(o, t, d) \/ UnassignDriver(o, t, d)
              \/ CommitAssignDriver(o)
        BY <1>3 DEF DriversStep
    <2>2. \/ UNCHANGED office
          \/ /\ office[o].op # "checklist"
             /\ \/ \E t, d : office' = [office EXCEPT ![o] = [op |-> "driver", tour |-> t, driver |-> d]]
                \/ office' = [office EXCEPT ![o] = Idle]
        BY <2>1 DEF BeginAssignDriver, CommitAssignDriver, UnassignDriver
    <2> QED
        BY <1>0, <2>2, OtherRequest
<1>4. CASE ExtraStep
    <2>1. PICK o \in Officers :
              \/ \E x, t, costs : CreateExtra(o, x, t, costs)
              \/ \E x, field, amount : BeginPatchExtra(o, x, field, amount)
              \/ \E x : CancelExtra(o, x)
              \/ CommitPatchExtra(o)
        BY <1>4 DEF ExtraStep
    <2>2. \/ UNCHANGED office
          \/ /\ office[o].op # "checklist"
             /\ \E request : office' = [office EXCEPT ![o] = request] /\ request.op \in {"extra", "idle"}
        BY <2>1 DEF CreateExtra, BeginPatchExtra, CancelExtra, CommitPatchExtra
    <2> QED
        BY <1>0, <2>2, OtherRequest
<1>5. CASE CoachStep
    <2>1. PICK o \in Officers :
              \/ \E x, t, google, more : CreateTransport(o, x, t, google, more)
              \/ \E x, column, km : BeginPatchTransport(o, x, column, km)
              \/ CommitPatchTransport(o)
        BY <1>5 DEF CoachStep
    <2>2. \/ UNCHANGED office
          \/ /\ office[o].op # "checklist"
             /\ \E request : office' = [office EXCEPT ![o] = request] /\ request.op \in {"transport", "idle"}
        BY <2>1 DEF CreateTransport, BeginPatchTransport, CommitPatchTransport
    <2> QED
        BY <1>0, <2>2, OtherRequest
<1>6. CASE PaperStep
    <2>1. PICK o \in Officers : InsertPaper(o) \/ \E x \in Papers : WriteFile(o, x)
        BY <1>6 DEF PaperStep, MayOverlap, Undisturbed
    <2>2. /\ office[o].op # "checklist"
          /\ \/ \E x \in Papers : office' = [office EXCEPT ![o] = [op |-> "paper", paper |-> x]]
             \/ office' = [office EXCEPT ![o] = Idle]
        BY <2>1 DEF InsertPaper, WriteFile
    <2> QED
        BY <2>2, OtherRequest
<1>7. CASE AbandonStep
    <2>1. PICK o \in Officers : office[o].op # "checklist" /\ office' = [office EXCEPT ![o] = Idle]
        BY <1>7 DEF AbandonStep, AbandonOffice, MayOverlap, Undisturbed
    <2>2. Idle.op # "checklist"
        OBVIOUS
    <2> HIDE DEF Idle
    <2> QED
        BY <2>1, <2>2, OtherRequest
<1> QED
    BY <1>1, <1>2, <1>3, <1>4, <1>5, <1>6, <1>7

LEMMA OthersKeepReady ==
    ASSUME ReadyInv, UNCHANGED <<load, checklists, plans, cleared>>,
           Undisturbed => SameChecklistRequests
    PROVE  ReadyInv'
<1> SUFFICES ASSUME Undisturbed PROVE ReadyInv'
    BY DEF ReadyInv, Undisturbed
<1>1. \A t \in Tours : ChecklistInFlight(t)' <=> ChecklistInFlight(t)
    BY DEF SameChecklistRequests, ChecklistInFlight
<1>2. \A o \in Officers : office'[o].op = "checklist" => office'[o] = office[o]
    BY DEF SameChecklistRequests
<1>3. \A p \in Planners : ChecklistInFlight(plans[p].tour)' <=> ChecklistInFlight(plans[p].tour)
    BY DEF SameChecklistRequests, ChecklistInFlight
<1> QED
    BY <1>1, <1>2, <1>3 DEF ReadyInv, Undisturbed, ReadinessFollows, ChecklistReady

LEMMA ChecklistStepReady ==
    ASSUME OperationsTypeOK, ReadyInv, ChecklistStep, UNCHANGED <<load, plans, cleared>>
    PROVE  ReadyInv'
<1> SUFFICES ASSUME Undisturbed PROVE ReadyInv'
    BY DEF ReadyInv, Undisturbed
<1>1. ASSUME NEW o \in Officers, NEW t \in Tours, NEW item \in CHECKLIST_ITEMS, NEW value \in BOOLEAN,
             ChecklistFree(t), NoGate(t), PatchItem(o, t, item, value)
      PROVE  ReadyInv'
    <2> DEFINE done == IF value THEN checklists[t].done \union {item} ELSE checklists[t].done \ {item}
               share == calcReadiness(done)
    <2>1. /\ checklists' = [checklists EXCEPT ![t].done = done]
          /\ office' = [office EXCEPT ![o] = [op |-> "checklist", tour |-> t, readiness |-> share]]
          /\ office[o].op = "idle"
        BY <1>1 DEF PatchItem
    <2>2. ~ChecklistInFlight(t) /\ ~StatusInFlight(t)
        BY <1>1 DEF ChecklistFree, NoGate, MayOverlap, Undisturbed
    <2>3. checklists[t].done \subseteq CHECKLIST_ITEMS /\ checklists[t] \in ChecklistRow
        BY DEF OperationsTypeOK, ChecklistRow
    <2>4. share = calcReadiness(done)
        OBVIOUS
    <2> HIDE DEF done, share
    <2>5. /\ checklists'[t].done = done
          /\ \A u \in Tours \ {t} : checklists'[u] = checklists[u]
        BY <2>1, <2>3 DEF OperationsTypeOK, ChecklistRow
    <2>6. /\ office'[o] = [op |-> "checklist", tour |-> t, readiness |-> share]
          /\ \A q \in Officers \ {o} : office'[q] = office[q]
        BY <2>1 DEF OperationsTypeOK
    <2>7. \A u \in Tours : ChecklistInFlight(u)' <=> u = t \/ ChecklistInFlight(u)
        BY <2>1, <2>6 DEF ChecklistInFlight
    <2>8. \A u \in Tours : ChecklistInFlight(u)' \/ ReadinessFollows(u)'
        BY <2>5, <2>7 DEF ReadyInv, ReadinessFollows
    <2>9. \A q \in Officers \ {o} : office[q].op = "checklist" =>
              office[q].tour # t /\ office[q].tour \in Tours
        BY <2>2, RequestFields DEF ChecklistInFlight, OperationsTypeOK
    <2>10. ASSUME NEW q \in Officers, office'[q].op = "checklist"
           PROVE  /\ office'[q].readiness = calcReadiness(checklists'[office'[q].tour].done)
                  /\ \A r \in Officers :
                        office'[r].op = "checklist" /\ office'[r].tour = office'[q].tour => r = q
        BY <2>4, <2>5, <2>6, <2>9, <2>10 DEF ReadyInv
    <2>11. ASSUME NEW p \in Planners, plans[p].op = "status"
           PROVE  /\ ~ChecklistInFlight(plans[p].tour)'
                  /\ p \in cleared /\ plans[p].to = "on_tour" => ChecklistReady(plans[p].tour)'
        <3>1. plans[p].tour # t /\ ~ChecklistInFlight(plans[p].tour)
            BY <2>2, <2>11 DEF StatusInFlight, ReadyInv
        <3>2. ~ChecklistInFlight(plans[p].tour)'
            BY <2>6, <3>1 DEF ChecklistInFlight
        <3>3. checklists'[plans[p].tour] = checklists[plans[p].tour]
            BY <2>1, <2>5, <3>1 DEF OperationsTypeOK
        <3> QED
            BY <2>11, <3>2, <3>3 DEF ReadyInv, ChecklistReady
    <2> QED
        BY <2>8, <2>10, <2>11 DEF ReadyInv
<1>2. ASSUME NEW o \in Officers, StoreReadiness(o) PROVE ReadyInv'
    <2> PICK t, share : t = office[o].tour /\ share = office[o].readiness
        OBVIOUS
    <2>1. /\ checklists' = [checklists EXCEPT ![t].readiness = share]
          /\ office' = [office EXCEPT ![o] = Idle]
          /\ office[o].op = "checklist" /\ t \in Tours
        BY <1>2, RequestFields DEF StoreReadiness, OperationsTypeOK
    <2>2. share = calcReadiness(checklists[t].done) /\ ChecklistInFlight(t)
        BY <2>1 DEF ReadyInv, ChecklistInFlight
    <2>3. /\ checklists'[t].readiness = share
          /\ \A u \in Tours : checklists'[u].done = checklists[u].done
          /\ \A u \in Tours \ {t} : checklists'[u] = checklists[u]
        BY <2>1 DEF OperationsTypeOK, ChecklistRow
    <2>4. \A q \in Officers : office'[q].op = "checklist" =>
              q # o /\ office'[q] = office[q] /\ office[q].tour \in Tours
        BY <2>1, RequestFields DEF OperationsTypeOK
    <2>5. \A u \in Tours \ {t} : ChecklistInFlight(u) => ChecklistInFlight(u)'
        BY <2>1 DEF OperationsTypeOK, ChecklistInFlight
    <2>6. \A u \in Tours : ChecklistInFlight(u)' \/ ReadinessFollows(u)'
        BY <2>2, <2>3, <2>5 DEF ReadyInv, ReadinessFollows
    <2>7. ASSUME NEW q \in Officers, office'[q].op = "checklist"
          PROVE  /\ office'[q].readiness = calcReadiness(checklists'[office'[q].tour].done)
                 /\ \A r \in Officers :
                       office'[r].op = "checklist" /\ office'[r].tour = office'[q].tour => r = q
        BY <2>3, <2>4, <2>7 DEF ReadyInv
    <2>8. ASSUME NEW p \in Planners, plans[p].op = "status"
          PROVE  /\ ~ChecklistInFlight(plans[p].tour)'
                 /\ p \in cleared /\ plans[p].to = "on_tour" => ChecklistReady(plans[p].tour)'
        <3>1. ~ChecklistInFlight(plans[p].tour) /\ plans[p].tour # t
            BY <2>2, <2>8 DEF ReadyInv
        <3>2. ~ChecklistInFlight(plans[p].tour)'
            BY <2>4, <3>1 DEF ChecklistInFlight
        <3>3. checklists'[plans[p].tour] = checklists[plans[p].tour]
            BY <2>1, <3>1 DEF OperationsTypeOK
        <3> QED
            BY <2>8, <3>2, <3>3 DEF ReadyInv, ChecklistReady
    <2> QED
        BY <2>6, <2>7, <2>8 DEF ReadyInv
<1> QED
    BY <1>1, <1>2 DEF ChecklistStep

\* A request of the tour office comes, passes its gates, or goes.
LEMMA TourStepReady ==
    ASSUME ToursTypeOK, ReadyInv, TourStep, UNCHANGED <<load, checklists, office>>
    PROVE  ReadyInv'
<1> SUFFICES ASSUME Undisturbed PROVE ReadyInv'
    BY DEF ReadyInv, Undisturbed
<1> DEFINE Gated(p) == /\ p \in cleared => plans[p].op = "status"
                       /\ plans[p].op = "status" =>
                             /\ ~ChecklistInFlight(plans[p].tour)
                             /\ p \in cleared /\ plans[p].to = "on_tour" => ChecklistReady(plans[p].tour)
<1>0. \A p \in Planners : Gated(p)
    BY DEF ReadyInv
<1>1. ASSUME \A p \in Planners : Gated(p)' PROVE ReadyInv'
    <2>1. /\ \A t \in Tours : ChecklistInFlight(t)' \/ ReadinessFollows(t)'
          /\ \A o \in Officers : office'[o].op = "checklist" =>
              /\ office'[o].readiness = calcReadiness(checklists'[office'[o].tour].done)
              /\ \A q \in Officers :
                    office'[q].op = "checklist" /\ office'[q].tour = office'[o].tour => q = o
        BY DEF ReadyInv, ChecklistInFlight, ReadinessFollows
    <2> QED
        BY <1>1, <2>1 DEF ReadyInv
<1>2. \A t : (ChecklistInFlight(t)' <=> ChecklistInFlight(t)) /\ (ChecklistReady(t)' <=> ChecklistReady(t))
    BY DEF ChecklistInFlight, ChecklistReady
<1>3. ASSUME NEW p \in Planners, NEW plan, plans' = [plans EXCEPT ![p] = plan],
             plan.op = "status" => ~ChecklistInFlight(plan.tour) /\ p \notin cleared,
             cleared' \in {cleared, cleared \ {p}},
             plan.op # "status" => p \notin cleared'
      PROVE  ReadyInv'
    <2>1. plans'[p] = plan /\ \A q \in Planners \ {p} : plans'[q] = plans[q]
        BY <1>3 DEF ToursTypeOK
    <2>2. ASSUME NEW q \in Planners \ {p} PROVE Gated(q)'
        <3>1. plans'[q] = plans[q] /\ (q \in cleared' <=> q \in cleared)
            BY <1>3, <2>1
        <3> QED
            BY <1>0, <1>2, <3>1
    <2>3. Gated(p)'
        BY <1>2, <1>3, <2>1
    <2> HIDE DEF Gated
    <2> QED
        BY <1>1, <2>2, <2>3
<1>4. NoPlan.op = "idle"
    BY DEF NoPlan
<1>5. ASSUME NEW p \in Planners, NEW t \in Tours, NEW to \in TourTargets,
             GateFree(t), BeginGatedStatus(p, t, to), UNCHANGED cleared
      PROVE  ReadyInv'
    <2> DEFINE plan == [NoPlan EXCEPT !.op = "status", !.tour = t, !.to = to]
    <2>1. plan.op = "status" /\ plan.tour = t
        BY DEF NoPlan
    <2>2. plans[p].op = "idle" /\ plans' = [plans EXCEPT ![p] = plan]
        BY <1>5 DEF BeginGatedStatus, BeginTourStatus
    <2>3. p \notin cleared /\ ~ChecklistInFlight(t)
        BY <1>0, <1>5, <2>2 DEF GateFree, MayOverlap, Undisturbed
    <2> HIDE DEF plan, Gated
    <2> QED
        BY <1>3, <1>5, <2>1, <2>2, <2>3
<1>6. ASSUME NEW p \in Planners, PassGates(p), UNCHANGED tourVars
      PROVE  ReadyInv'
    <2>1. /\ cleared' = cleared \union {p} /\ UNCHANGED plans
          /\ plans[p].op = "status" /\ (plans[p].to = "on_tour" => ChecklistReady(plans[p].tour))
        BY <1>6 DEF PassGates, tourVars
    <2>2. \A q \in Planners : Gated(q)'
        BY <1>0, <1>2, <2>1
    <2> QED
        BY <1>1, <2>2
<1>7. ASSUME NEW p \in Planners, NEW t, NEW seats, BeginResize(p, t, seats), UNCHANGED cleared
      PROVE  ReadyInv'
    <2> DEFINE plan == [NoPlan EXCEPT !.op = "resize", !.tour = t,
                                      !.seen = tours[t].totalSeats, !.seats = seats]
    <2>1. plan.op = "resize"
        BY DEF NoPlan
    <2>2. plans[p].op = "idle" /\ plans' = [plans EXCEPT ![p] = plan]
        BY <1>7 DEF BeginResize
    <2> HIDE DEF plan
    <2>3. p \notin cleared
        BY <1>0, <2>2
    <2> HIDE DEF Gated
    <2> QED
        BY <1>3, <1>7, <2>1, <2>2, <2>3
<1>8. ASSUME NEW p \in Planners, CommitResize(p), UNCHANGED cleared
      PROVE  ReadyInv'
    <2>1. plans[p].op = "resize" /\ plans' = [plans EXCEPT ![p] = NoPlan]
        BY <1>8 DEF CommitResize
    <2>2. p \notin cleared
        BY <1>0, <2>1
    <2> HIDE DEF Gated
    <2> QED
        BY <1>3, <1>4, <1>8, <2>1, <2>2
<1>9. ASSUME NEW p \in Planners, CommitGatedStatus(p) \/ AbandonGatedPlan(p)
      PROVE  ReadyInv'
    <2>1. plans' = [plans EXCEPT ![p] = NoPlan] /\ cleared' = cleared \ {p}
        BY <1>9 DEF CommitGatedStatus, CommitTourStatus, AbandonGatedPlan, AbandonPlan
    <2> HIDE DEF Gated
    <2> QED
        BY <1>3, <1>4, <2>1
<1>10. CASE UNCHANGED <<plans, cleared>>
    <2>1. \A p \in Planners : Gated(p)'
        BY <1>0, <1>2, <1>10
    <2> QED
        BY <1>1, <2>1
<1> HIDE DEF Gated
<1> QED
    BY <1>5, <1>6, <1>7, <1>8, <1>9, <1>10 DEF TourStep, CreateTour, Reprice, gateVars, tourVars

LEMMA StepReady ==
    ASSUME TourOfficeTypeOK, ReadyInv, [Next]_officeVars
    PROVE  ReadyInv'
<1>0. /\ ToursTypeOK /\ OperationsTypeOK /\ UNCHANGED load
      /\ DOMAIN office = Officers
    BY DEF TourOfficeTypeOK, OperationsTypeOK, Next, officeVars
<1>1. CASE TourStep /\ UNCHANGED office
    <2>1. UNCHANGED checklists
        BY <1>1 DEF TourStep, gateVars, Reprice, PassGates, CommitGatedStatus, AbandonGatedPlan
    <2> QED
        BY <1>0, <1>1, <2>1, TourStepReady
<1>2. CASE ChecklistStep /\ UNCHANGED <<plans, cleared>>
    BY <1>0, <1>2, ChecklistStepReady
<1>3. CASE /\ HotelStep \/ StructureStep \/ DriversStep \/ ExtraStep \/ CoachStep \/ PaperStep \/ AbandonStep
           /\ UNCHANGED <<checklists, plans, cleared>>
    BY <1>0, <1>3, OthersLeaveChecklists, OthersKeepReady
<1>4. CASE UNCHANGED <<office, checklists, plans, cleared>>
    BY <1>0, <1>4, OthersKeepReady DEF SameChecklistRequests
<1> QED
    BY <1>1, <1>2, <1>3, <1>4 DEF Next, OfficeStep, officeVars, deskVars, tourVars, gateVars

\* A tour departs when a request that passed the gates is committed.
LEMMA Departing ==
    ASSUME TourOfficeTypeOK, ReadyInv, [Next]_officeVars, NEW t \in Tours,
           tours[t].status # "on_tour", tours'[t].status = "on_tour", Undisturbed,
           Cardinality(CHECKLIST_ITEMS) < 200
    PROVE  checklists[t].done = CHECKLIST_ITEMS
<1>0. ToursTypeOK /\ OperationsTypeOK
    BY DEF TourOfficeTypeOK
<1>1. TourStep
    BY DEF Next, OfficeStep, officeVars, deskVars, tourVars
<1>2. ASSUME NEW u \in Tours, NEW seats, CreateTour(u, seats)
      PROVE  tours'[t].status \in {tours[t].status, "draft"}
    BY <1>0, <1>2 DEF CreateTour, ToursTypeOK
<1>3. ASSUME NEW p \in Planners, CommitResize(p)
      PROVE  tours'[t].status = tours[t].status
    <2> PICK u, seats, free : /\ u = plans[p].tour /\ seats = plans[p].seats
                              /\ free = tours[u].availableSeats + (plans[p].seats - plans[p].seen)
        OBVIOUS
    <2>1. tours' = [tours EXCEPT ![u] =
              [tours[u] EXCEPT !.totalSeats = seats, !.availableSeats = free]]
        BY <1>3 DEF CommitResize
    <2> QED
        BY <1>0, <2>1 DEF ToursTypeOK, Tour
<1>4. PICK p \in Planners : CommitGatedStatus(p)
    BY <1>1, <1>2, <1>3 DEF TourStep, BeginResize, BeginGatedStatus, BeginTourStatus, tourVars,
       AbandonGatedPlan, AbandonPlan
<1>5. t = plans[p].tour /\ plans[p].to = "on_tour"
    <2> PICK u, to : u = plans[p].tour /\ to = plans[p].to
        OBVIOUS
    <2>1. tours' = [tours EXCEPT ![u].status = to]
        BY <1>4 DEF CommitGatedStatus, CommitTourStatus
    <2> QED
        BY <1>0, <2>1 DEF ToursTypeOK, Tour
<1>6. ChecklistReady(t) /\ ~ChecklistInFlight(t)
    BY <1>4, <1>5 DEF ReadyInv, CommitGatedStatus
<1>7. calcReadiness(checklists[t].done) >= 100
    BY <1>6 DEF ReadyInv, ReadinessFollows, ChecklistReady
<1>8. checklists[t].done \in SUBSET CHECKLIST_ITEMS
    BY <1>0 DEF OperationsTypeOK, ChecklistRow
<1> QED
    BY <1>7, <1>8, HundredPercent

\* OPS-18, for any number of officers, planners and tours, and for checklists
\* of fewer than two hundred items, of which no share but all of them rounds to
\* a hundred percent.
THEOREM DepartsWithChecklistDone ==
    Cardinality(CHECKLIST_ITEMS) < 200 => (Spec => DepartsReady)
<1> SUFFICES ASSUME Cardinality(CHECKLIST_ITEMS) < 200 PROVE Spec => DepartsReady
    OBVIOUS
<1>1. Init => ReadyInv
    <2> SUFFICES ASSUME Init PROVE ReadyInv
        OBVIOUS
    <2>1. /\ \A t \in Tours : checklists[t].done = {} /\ checklists[t].readiness = 0
          /\ \A o \in Officers : office[o].op = "idle"
          /\ cleared = {}
        BY DEF Init, OperationsInit
    <2>2. \A p \in Planners : plans[p].op = "idle"
        BY DEF Init, ToursInit, NoPlan
    <2> QED
        BY <2>1, <2>2, NothingDone DEF ReadyInv, ReadinessFollows
<1>2. TourOfficeTypeOK /\ ReadyInv /\ [Next]_officeVars => ReadyInv'
    BY StepReady
<1>3. TourOfficeTypeOK /\ ReadyInv /\ [Next]_officeVars =>
        [\A t \in Tours :
            /\ tours[t].status # "on_tour" /\ tours'[t].status = "on_tour"
            /\ load.overlap \intersect {"gate", "checklist", "crash", "redeploy"} = {}
            => checklists[t].done = CHECKLIST_ITEMS]_officeVars
    BY Departing DEF Undisturbed
<1> QED
    BY <1>1, <1>2, <1>3, TourOfficeTypeCorrect, PTL DEF Spec, DepartsReady

(***************************************************************************)
(* An office that only enlarges its tours                                  *)
(***************************************************************************)

\* No step takes seats from a tour.  A smaller one is a legal request, which
\* looks at neither the rooms ordered nor the numbers given.
Enlarges == \A t \in Tours : tours[t].totalSeats <= tours'[t].totalSeats

\* The rooms a request will order fit the tour as it is, not only as it was read.
BedsInv ==
    /\ \A h \in HotelBookings : Beds(hotels[h].rooms) <= tours[hotels[h].tour].totalSeats
    /\ \A o \in Officers : office[o].op = "structure" =>
          Beds(office[o].rooms) <= tours[hotels[office[o].hotel].tour].totalSeats

LEMMA BedsOfRooms ==
    /\ Beds(NoRooms) = 0
    /\ \A rooms \in Structure : Beds(rooms) = calcCapacity(rooms) /\ Beds(rooms) \in Nat
BY DEF Beds, NoRooms, Structure, calcCapacity

LEMMA SeatsType ==
    ASSUME ToursTypeOK
    PROVE  \A t \in Tours : tours[t].totalSeats \in Nat
BY DEF ToursTypeOK, Tour

\* What a request that begins to order rooms has checked.
LEMMA StructureFits ==
    ASSUME StructureStep, DOMAIN office = Officers, NEW o \in Officers,
           office'[o].op = "structure", office'[o] # office[o]
    PROVE  calcCapacity(office'[o].rooms) <= tours[hotels[office'[o].hotel].tour].totalSeats
<1> PICK q \in Officers :
        \/ \E h \in HotelBookings, rooms \in Structures : BeginSetStructure(q, h, rooms)
        \/ \E h \in HotelBookings : BeginFinalizeStructure(q, h)
        \/ CommitSetStructure(q) \/ CommitFinalizeStructure(q)
    BY DEF StructureStep
<1>1. \E h \in HotelBookings, rooms \in Structures : q = o /\ BeginSetStructure(o, h, rooms)
    BY DEF BeginSetStructure, CommitSetStructure, BeginFinalizeStructure, CommitFinalizeStructure
<1> QED
    BY <1>1 DEF BeginSetStructure

LEMMA StepBeds ==
    ASSUME TourOfficeTypeOK, TourOfficeTypeOK', HotelsTypeOK, BedsInv, [Next]_officeVars, [Enlarges]_officeVars
    PROVE  BedsInv'
<1>0. /\ ToursTypeOK /\ ToursTypeOK' /\ OperationsTypeOK /\ DOMAIN office = Officers
      /\ hotels \in [HotelBookings -> HotelRow] /\ hotels' \in [HotelBookings -> HotelRow]
    BY DEF TourOfficeTypeOK, OperationsTypeOK
<1>1. \A t \in Tours : /\ tours[t].totalSeats \in Nat /\ tours'[t].totalSeats \in Nat
                       /\ tours[t].totalSeats <= tours'[t].totalSeats
    <2>1. \A t \in Tours : tours[t].totalSeats \in Nat /\ tours'[t].totalSeats \in Nat
        BY <1>0, SeatsType DEF ToursTypeOK, Tour
    <2>2. CASE Enlarges
        BY <2>1, <2>2 DEF Enlarges
    <2>3. CASE UNCHANGED officeVars
        BY <2>1, <2>3 DEF officeVars, deskVars, tourVars
    <2> QED
        BY <2>2, <2>3, <2>1
<1>2. \A h \in HotelBookings : /\ hotels[h].tour \in Tours /\ hotels'[h].tour \in Tours
                               /\ Beds(hotels[h].rooms) \in Nat
    BY <1>0, BedsOfRooms DEF HotelRow
<1>3. \A o \in Officers : office[o].op = "structure" =>
          office[o].hotel \in HotelBookings /\ HotelExists(office[o].hotel) /\ Beds(office[o].rooms) \in Nat
    BY BedsOfRooms DEF HotelsTypeOK, HotelRequestOK, HotelOps
\* A row keeps its tour and its rooms, a request its rooms.
<1>4. ASSUME \A h \in HotelBookings : /\ hotels'[h].tour = hotels[h].tour
                                      /\ hotels'[h].rooms = hotels[h].rooms,
             \A o \in Officers : office'[o].op = "structure" => office'[o] = office[o]
      PROVE  BedsInv'
    <2>1. ASSUME NEW h \in HotelBookings
          PROVE  Beds(hotels'[h].rooms) <= tours'[hotels'[h].tour].totalSeats
        BY <1>1, <1>2, <1>4 DEF BedsInv
    <2>2. ASSUME NEW o \in Officers, office'[o].op = "structure"
          PROVE  Beds(office'[o].rooms) <= tours'[hotels'[office'[o].hotel].tour].totalSeats
        BY <1>1, <1>2, <1>3, <1>4, <2>2 DEF BedsInv
    <2> QED
        BY <2>1, <2>2 DEF BedsInv
<1>5. ASSUME UNCHANGED hotels, NEW kinds, BeginsOnly(kinds), "structure" \notin kinds
      PROVE  BedsInv'
    BY <1>4, <1>5 DEF BeginsOnly
<1>6. CASE HotelStep /\ UNCHANGED tourVars
    <2>1. ASSUME NEW o \in Officers, NEW h \in HotelBookings, NEW t \in Tours, CreateHotelBooking(o, h, t)
          PROVE  BedsInv'
        <3>1. /\ ~HotelExists(h) /\ hotels'[h].rooms = NoRooms
              /\ \A g \in HotelBookings \ {h} : hotels'[g] = hotels[g]
              /\ UNCHANGED <<office, tours>>
            BY <1>0, <1>6, <2>1 DEF CreateHotelBooking, tourVars
        <3>2. \A g \in HotelBookings : Beds(hotels'[g].rooms) <= tours'[hotels'[g].tour].totalSeats
            BY <1>1, <1>2, <3>1, BedsOfRooms DEF BedsInv
        <3>3. \A q \in Officers : office[q].op = "structure" => office[q].hotel # h
            BY <1>3, <3>1
        <3>4. \A q \in Officers : office[q].op = "structure" =>
                  Beds(office[q].rooms) <= tours[hotels'[office[q].hotel].tour].totalSeats
            BY <1>3, <3>1, <3>3 DEF BedsInv
        <3> QED
            BY <3>1, <3>2, <3>4 DEF BedsInv
    <2>2. ASSUME NEW o \in Officers, NEW h \in HotelBookings, BeginApproveStructure(o, h)
          PROVE  BedsInv'
        BY <1>4, <2>2, <1>0 DEF BeginApproveStructure
    <2>3. ASSUME NEW o \in Officers, CommitApproveStructure(o)
          PROVE  BedsInv'
        <3> PICK h : h = office[o].hotel
            OBVIOUS
        <3>1. /\ hotels' = [hotels EXCEPT ![h].structure = "approved"]
              /\ office' = [office EXCEPT ![o] = Idle]
              /\ h \in HotelBookings
            BY <2>3 DEF CommitApproveStructure, HotelsTypeOK, HotelRequestOK, HotelOps
        <3>2. \A g \in HotelBookings : /\ hotels'[g].tour = hotels[g].tour
                                       /\ hotels'[g].rooms = hotels[g].rooms
            BY <1>0, <3>1 DEF HotelRow
        <3>3. \A q \in Officers : office'[q].op = "structure" => office'[q] = office[q]
            BY <1>0, <3>1
        <3> QED
            BY <1>4, <3>2, <3>3
    <2> QED
        BY <1>6, <2>1, <2>2, <2>3 DEF HotelStep
<1>7. CASE StructureStep /\ UNCHANGED tourVars
    <2>1. ASSUME NEW o \in Officers, CommitSetStructure(o)
          PROVE  BedsInv'
        <3> PICK h, rooms : h = office[o].hotel /\ rooms = office[o].rooms
            OBVIOUS
        <3>1. /\ hotels' = [hotels EXCEPT ![h].rooms = rooms]
              /\ office' = [office EXCEPT ![o] = Idle]
              /\ h \in HotelBookings /\ Beds(rooms) <= tours[hotels[h].tour].totalSeats
            BY <2>1, <1>3 DEF CommitSetStructure, BedsInv
        <3>2. /\ hotels'[h].rooms = rooms
              /\ \A g \in HotelBookings : hotels'[g].tour = hotels[g].tour
              /\ \A g \in HotelBookings \ {h} : hotels'[g] = hotels[g]
            BY <1>0, <3>1 DEF HotelRow
        <3>3. \A q \in Officers : office'[q].op = "structure" => office'[q] = office[q]
            BY <1>0, <3>1
        <3>4. UNCHANGED tours
            BY <1>7 DEF tourVars
        <3>5. \A g \in HotelBookings : Beds(hotels'[g].rooms) <= tours'[hotels'[g].tour].totalSeats
            <4> SUFFICES ASSUME NEW g \in HotelBookings
                         PROVE  Beds(hotels'[g].rooms) <= tours[hotels[g].tour].totalSeats
                BY <3>2, <3>4
            <4>1. CASE g = h
                BY <3>1, <3>2, <4>1
            <4>2. CASE g # h
                BY <3>2, <4>2 DEF BedsInv
            <4> QED
                BY <4>1, <4>2
        <3>6. ASSUME NEW q \in Officers, office'[q].op = "structure"
              PROVE  Beds(office'[q].rooms) <= tours'[hotels'[office'[q].hotel].tour].totalSeats
            BY <1>3, <3>2, <3>3, <3>4, <3>6 DEF BedsInv
        <3> QED
            BY <3>5, <3>6 DEF BedsInv
    <2>2. ASSUME NEW o \in Officers, CommitFinalizeStructure(o)
          PROVE  BedsInv'
        <3> PICK h : h = office[o].hotel
            OBVIOUS
        <3>1. /\ hotels' = [hotels EXCEPT ![h].structure = "final"]
              /\ office' = [office EXCEPT ![o] = Idle]
              /\ h \in HotelBookings
            BY <2>2 DEF CommitFinalizeStructure, HotelsTypeOK, HotelRequestOK, HotelOps
        <3>2. \A g \in HotelBookings : /\ hotels'[g].tour = hotels[g].tour
                                       /\ hotels'[g].rooms = hotels[g].rooms
            BY <1>0, <3>1 DEF HotelRow
        <3>3. \A q \in Officers : office'[q].op = "structure" => office'[q] = office[q]
            BY <1>0, <3>1
        <3> QED
            BY <1>4, <3>2, <3>3
    <2>3. CASE UNCHANGED hotels
        <3>1. UNCHANGED tours
            BY <1>7 DEF tourVars
        <3>2. ASSUME NEW o \in Officers, office'[o].op = "structure"
              PROVE  Beds(office'[o].rooms) <= tours[hotels[office'[o].hotel].tour].totalSeats
            <4>1. CASE office'[o] = office[o]
                BY <3>2, <4>1 DEF BedsInv
            <4>2. CASE office'[o] # office[o]
                <5>1. office'[o].rooms \in Structure
                    <6>1. OperationsTypeOK'
                        BY DEF TourOfficeTypeOK
                    <6>2. office'[o] \in OfficeRequest
                        BY <6>1 DEF OperationsTypeOK
                    <6> QED
                        BY <3>2, <6>2, RequestFields
                <5> QED
                    BY <1>0, <1>7, <3>2, <4>2, <5>1, StructureFits, BedsOfRooms
            <4> QED
                BY <4>1, <4>2
        <3> QED
            BY <2>3, <3>1, <3>2 DEF BedsInv
    <2> QED
        BY <1>7, <2>1, <2>2, <2>3 DEF StructureStep, BeginSetStructure, BeginFinalizeStructure
<1>8. CASE UNCHANGED deskVars
    BY <1>4, <1>8 DEF deskVars, gateVars
<1>9. CASE TourStep /\ UNCHANGED office
    BY <1>4, <1>9, TourStepHotels
<1>10. CASE /\ ChecklistStep \/ DriversStep \/ ExtraStep \/ CoachStep \/ PaperStep \/ AbandonStep
            /\ UNCHANGED hotels
    BY <1>0, <1>5, <1>10, ChecklistBegins, DriversBegins, CostBegins, PaperBegins, AbandonBegins
<1> QED
    BY <1>6, <1>7, <1>8, <1>9, <1>10 DEF Next, OfficeStep, officeVars, gateVars

\* BR-10, in an office that only enlarges its tours: for any structures, and
\* however requests on one hotel booking overlap, the beds ordered fit.
THEOREM BedsFitTheTour == Spec /\ [][Enlarges]_officeVars => []BedsWithinSeats
<1>1. Init => BedsInv
    <2> SUFFICES ASSUME Init PROVE BedsInv
        OBVIOUS
    <2>1. /\ \A h \in HotelBookings : hotels[h].rooms = NoRooms /\ hotels[h].tour \in Tours
          /\ \A o \in Officers : office[o].op = "idle"
        BY ToursAssumption DEF Init, OperationsInit, NoHotelRow
    <2>2. \A t \in Tours : tours[t].totalSeats \in Nat
        BY InitHotels, SeatsType
    <2> QED
        BY <2>1, <2>2, BedsOfRooms DEF BedsInv
<1>2. /\ TourOfficeTypeOK /\ TourOfficeTypeOK' /\ HotelsTypeOK /\ BedsInv
      /\ [Next]_officeVars /\ [Enlarges]_officeVars
      => BedsInv'
    BY StepBeds
<1>3. ToursTypeOK /\ HotelsTypeOK /\ [Next]_officeVars => ToursTypeOK' /\ HotelsTypeOK'
    BY StepType
<1>4. BedsInv => BedsWithinSeats
    BY DEF BedsInv, BedsWithinSeats
<1> QED
    BY <1>1, <1>2, <1>3, <1>4, InitHotels, TourOfficeTypeCorrect, PTL DEF Spec

=============================================================================
