---------------------------- MODULE TourOperations ----------------------------
(***************************************************************************)
(* What the operations office prepares for a tour: the rooms ordered from  *)
(* its hotels (room-structure.service.ts, hotel-bookings.service.ts), the  *)
(* checklist of its departure (checklist.service.ts), its drivers          *)
(* (tour-drivers.service.ts), its extra costs (tour-extras.service.ts),    *)
(* its coaches (transport.service.ts) and its papers                       *)
(* (documents.service.ts); and the gates these put before the statuses of  *)
(* TourInventory (changeTourStatus).                                       *)
(*                                                                         *)
(* A request of an officer reads, checks, awaits and then writes what it   *)
(* computed, in two steps as everywhere in this server.                    *)
(***************************************************************************)
EXTENDS TourInventory, FiniteSets, Sums

CONSTANTS
    Officers,        \* requests of the operations office that may be in flight at once
    OfficerRoles,    \* [Officers -> SUBSET OfficeRoles]: who may send them
    PlannerRole,     \* [Planners -> {"director", "other"}]: who changes statuses
    HotelBookings,   \* the ids of hotel bookings
    Structures,      \* the room structures a request may carry
    CHECKLIST_ITEMS, \* the items of a checklist
    Drivers,         \* the staff with the role of a driver
    Extras,          \* the ids of tour extras
    COST_FIELDS,     \* the cost columns of an extra
    Costs,           \* the amounts such a column may be given
    Transports,      \* the ids of coach orders
    Distances,       \* the kilometres a request may carry
    Papers           \* the ids of generated documents

OfficeRoles == {"admin", "ops", "logist", "director", "product_manager"}

Structure == [twin: Nat, double: Nat, triple: Nat, single: Nat]

ASSUME OfficeAssumption ==
    /\ IsFiniteSet(Officers)
    /\ OfficerRoles \in [Officers -> SUBSET OfficeRoles]
    /\ PlannerRole \in [Planners -> {"director", "other"}]
    /\ Structures \subseteq Structure
    /\ IsFiniteSet(CHECKLIST_ITEMS) /\ CHECKLIST_ITEMS # {}
    /\ IsFiniteSet(COST_FIELDS)
    /\ Costs \subseteq Nat
    /\ Distances \subseteq Nat

VARIABLES
    margins,     \* [Tours -> Margins]: what changeTourStatus computes of the prices
    cleared,     \* the planners whose change of status has passed its gates
    hotels,      \* [HotelBookings -> HotelRow], the table hotel_bookings
    checklists,  \* [Tours -> ChecklistRow], the table tour_checklists
    drivers,     \* [Tours -> SUBSET Drivers], the table tour_driver_assignments
    extras,      \* [Extras -> ExtraRow], the table tour_extras
    transports,  \* [Transports -> TransportRow], the table transport_bookings
    papers,      \* the documents that have a row in the table documents
    files,       \* the documents whose file is in storage/documents
    office       \* [Officers -> request], what a request in flight holds

gateVars   == <<margins, cleared, hotels, checklists>>
costVars   == <<extras, transports>>
paperVars  == <<papers, files>>

\* The margin of the operator; it cannot be computed without a cost price.
Margins == {"unknown", "profit", "loss"}

NoRooms == [twin |-> 0, double |-> 0, triple |-> 0, single |-> 0]

HotelRow == [structure: {"none", "draft", "approved", "final"}, tour: Tours, rooms: Structure]

\* "none" is the structure of an id no hotel booking has yet.
NoHotelRow == [structure |-> "none", tour |-> CHOOSE t \in Tours : TRUE, rooms |-> NoRooms]

HotelExists(h) == hotels[h].structure # "none"

ChecklistRow == [done: SUBSET CHECKLIST_ITEMS, readiness: Nat]

Idle == [op |-> "idle"]

\* requireRoles: the sender has one of these roles.
Holds(o, roles) == OfficerRoles[o] \intersect roles # {}

(***************************************************************************)
(* Room structure: draft -> approved -> final (BR-09, BR-10, OPS-10)       *)
(***************************************************************************)

\* Wrong on purpose: a triple room sleeps two.
CapacityOfPairs(rooms) == 2 * (rooms.twin + rooms.double + rooms.triple) + rooms.single

\* How many travellers the rooms take.
calcCapacity(rooms) ==
    rooms.twin * 2 + rooms.double * 2 + rooms.triple * 3 + rooms.single * 1

MaySetStructure(o)      == Holds(o, {"ops", "admin", "logist"})
MayApproveStructure(o)  == Holds(o, {"admin", "director"})
MayFinalizeStructure(o) == Holds(o, {"ops", "admin", "logist"})

\* POST /tours/:id/hotels.  The hotel itself may be created with it, by name.
CreateHotelBooking(o, h, t) ==
    /\ office[o].op = "idle"
    /\ Holds(o, {"ops", "admin", "logist"})
    /\ Listed(t)
    /\ ~HotelExists(h)
    /\ hotels' = [hotels EXCEPT ![h] = [structure |-> "draft", tour |-> t, rooms |-> NoRooms]]
    /\ UNCHANGED office

\* Wrong on purpose: an approved structure is open to everyone.
EditableByAll(o, h) == TRUE

\* OPS-10: once approved, only an administrator edits.
Editable(o, h) == hotels[h].structure = "draft" \/ Holds(o, {"admin"})

\* PUT /tours/:id/room-structure: the status, and the seats of the tour, are
\* those of the read.
BeginSetStructure(o, h, rooms) ==
    /\ office[o].op = "idle"
    /\ MaySetStructure(o)
    /\ HotelExists(h)
    /\ Listed(hotels[h].tour)
    /\ Editable(o, h)
    /\ calcCapacity(rooms) <= tours[hotels[h].tour].totalSeats
    /\ office' = [office EXCEPT ![o] = [op |-> "structure", hotel |-> h, rooms |-> rooms]]
    /\ UNCHANGED hotels

CommitSetStructure(o) ==
    /\ office[o].op = "structure"
    /\ hotels' = [hotels EXCEPT ![office[o].hotel].rooms = office[o].rooms]
    /\ office' = [office EXCEPT ![o] = Idle]

BeginApproveStructure(o, h) ==
    /\ office[o].op = "idle"
    /\ MayApproveStructure(o)
    /\ hotels[h].structure = "draft"
    /\ office' = [office EXCEPT ![o] = [op |-> "approve", hotel |-> h]]
    /\ UNCHANGED hotels

CommitApproveStructure(o) ==
    /\ office[o].op = "approve"
    /\ hotels' = [hotels EXCEPT ![office[o].hotel].structure = "approved"]
    /\ office' = [office EXCEPT ![o] = Idle]

BeginFinalizeStructure(o, h) ==
    /\ office[o].op = "idle"
    /\ MayFinalizeStructure(o)
    /\ hotels[h].structure = "approved"
    /\ office' = [office EXCEPT ![o] = [op |-> "finalize", hotel |-> h]]
    /\ UNCHANGED hotels

CommitFinalizeStructure(o) ==
    /\ office[o].op = "finalize"
    /\ hotels' = [hotels EXCEPT ![office[o].hotel].structure = "final"]
    /\ office' = [office EXCEPT ![o] = Idle]

(***************************************************************************)
(* Checklist                                                               *)
(***************************************************************************)

\* Wrong on purpose: rounded up, so that the last item is not needed.
ReadinessRoundedUp(done) ==
    LET items == Cardinality(CHECKLIST_ITEMS)
    IN  IF 2 * Cardinality(done) >= items THEN 100 ELSE 0

\* Math.round of the share of items done, in percent.
calcReadiness(done) ==
    LET items == Cardinality(CHECKLIST_ITEMS)
    IN  (2 * 100 * Cardinality(done) + items) \div (2 * items)

\* PATCH /tours/:id/checklist, its first update: the item is written and the
\* row it returns is what readiness is computed from.
PatchItem(o, t, item, value) ==
    LET done == IF value THEN checklists[t].done \union {item}
                ELSE checklists[t].done \ {item}
    IN  /\ office[o].op = "idle"
        /\ Holds(o, {"ops", "admin"})
        /\ Listed(t)
        /\ checklists' = [checklists EXCEPT ![t].done = done]
        /\ office' = [office EXCEPT ![o] = [op |-> "checklist", tour |-> t,
                                            readiness |-> calcReadiness(done)]]

\* Its second update.
StoreReadiness(o) ==
    /\ office[o].op = "checklist"
    /\ checklists' = [checklists EXCEPT ![office[o].tour].readiness = office[o].readiness]
    /\ office' = [office EXCEPT ![o] = Idle]

(***************************************************************************)
(* The gates of PATCH /tours/:id/status                                    *)
(***************************************************************************)

\* PUT /tours/:id with new prices: one update, of a tour not yet over.
Reprice(t, margin) ==
    /\ Listed(t)
    /\ tours[t].status \notin {"completed", "cancelled"}
    /\ margins' = [margins EXCEPT ![t] = margin]
    /\ UNCHANGED <<cleared, hotels, checklists>>

\* BE-02: only a director, with a reason, publishes a tour that loses money.
MarginAllows(p, t, to) ==
    to \in {"open", "active"} /\ margins[t] = "loss" => PlannerRole[p] = "director"

BeginGatedStatus(p, t, to) ==
    /\ MarginAllows(p, t, to)
    /\ BeginTourStatus(p, t, to)

\* Wrong on purpose: one approved hotel is enough.
SomeStructureApproved(t) ==
    LET booked == {h \in HotelBookings : HotelExists(h) /\ hotels[h].tour = t}
    IN  booked = {} \/ \E h \in booked : hotels[h].structure = "approved"

\* OPS-01 counts the hotel bookings that are not "approved"; a "final" one is
\* not.  The server never sets isFastLaunch, which would exempt a booking.
StructuresApproved(t) ==
    \A h \in HotelBookings :
        HotelExists(h) /\ hotels[h].tour = t => hotels[h].structure = "approved"

\* OPS-18.
ChecklistReady(t) == checklists[t].readiness >= 100

\* The queries of the gates, after the read of the tour and before its update.
PassGates(p) ==
    /\ plans[p].op = "status"
    /\ p \notin cleared
    /\ plans[p].to = "open" => StructuresApproved(plans[p].tour)
    /\ plans[p].to = "on_tour" => ChecklistReady(plans[p].tour)
    /\ cleared' = cleared \union {p}
    /\ UNCHANGED <<margins, hotels, checklists>>

CommitGatedStatus(p) ==
    /\ p \in cleared
    /\ CommitTourStatus(p)
    /\ cleared' = cleared \ {p}
    /\ UNCHANGED <<margins, hotels, checklists>>

AbandonGatedPlan(p) ==
    /\ AbandonPlan(p)
    /\ cleared' = cleared \ {p}
    /\ UNCHANGED <<margins, hotels, checklists>>

(***************************************************************************)
(* Drivers                                                                 *)
(***************************************************************************)

MAX_DRIVERS_PER_TOUR == 2

MayAssignDrivers(o) == Holds(o, {"admin", "product_manager"})

\* Wrong on purpose: the limit is checked after one more.
RoomForOneMore(t) == Cardinality(drivers[t]) <= MAX_DRIVERS_PER_TOUR

HasRoomForDriver(t) == Cardinality(drivers[t]) < MAX_DRIVERS_PER_TOUR

\* POST /tours/:id/drivers: counts, looks for this driver, then inserts.
BeginAssignDriver(o, t, d) ==
    /\ office[o].op = "idle"
    /\ MayAssignDrivers(o)
    /\ Listed(t)
    /\ HasRoomForDriver(t)
    /\ d \notin drivers[t]
    /\ office' = [office EXCEPT ![o] = [op |-> "driver", tour |-> t, driver |-> d]]
    /\ UNCHANGED drivers

\* The unique index on tour and staff rejects a second insert of one driver.
CommitAssignDriver(o) ==
    /\ office[o].op = "driver"
    /\ office[o].driver \notin drivers[office[o].tour]
    /\ drivers' = [drivers EXCEPT ![office[o].tour] = @ \union {office[o].driver}]
    /\ office' = [office EXCEPT ![o] = Idle]

\* DELETE /tours/:id/drivers/:staffId.
UnassignDriver(o, t, d) ==
    /\ office[o].op = "idle"
    /\ MayAssignDrivers(o)
    /\ d \in drivers[t]
    /\ drivers' = [drivers EXCEPT ![t] = @ \ {d}]
    /\ UNCHANGED office

(***************************************************************************)
(* Extra costs                                                             *)
(***************************************************************************)

CostSheet == [COST_FIELDS -> Nat]

ExtraRow == [status: {"none", "planned", "cancelled"}, costs: CostSheet, totalCost: Nat]

NoExtraRow ==
    [status |-> "none", costs |-> [field \in COST_FIELDS |-> 0], totalCost |-> 0]

sumCosts(costs) == SumOf(costs, DOMAIN costs)

MayEditExtras(o) == Holds(o, {"admin", "product_manager"})

CreateExtra(o, x, t, costs) ==
    /\ office[o].op = "idle"
    /\ MayEditExtras(o)
    /\ Listed(t)
    /\ extras[x].status = "none"
    /\ extras' = [extras EXCEPT ![x] = [status |-> "planned", costs |-> costs,
                                        totalCost |-> sumCosts(costs)]]
    /\ UNCHANGED <<office, transports>>

\* PATCH /tours/:id/extras/:extraId: the columns the request does not carry are
\* taken from the row it read; the request carries one column here.
BeginPatchExtra(o, x, field, amount) ==
    /\ office[o].op = "idle"
    /\ MayEditExtras(o)
    /\ extras[x].status # "none"
    /\ office' = [office EXCEPT ![o] = [op |-> "extra", extra |-> x, field |-> field,
                      merged |-> [extras[x].costs EXCEPT ![field] = amount]]]
    /\ UNCHANGED costVars

\* Wrong on purpose: only the column of the request is written.
WrittenCostsOfField(o) ==
    [extras[office[o].extra].costs EXCEPT ![office[o].field] = office[o].merged[office[o].field]]

\* Wrong on purpose: the columns the request does not carry become undefined.
WrittenCostsOfRequest(o) ==
    [field \in {office[o].field} |-> office[o].merged[field]]

\* All cost columns are written, those of the request and those of the read.
WrittenCosts(o) == office[o].merged

CommitPatchExtra(o) ==
    /\ office[o].op = "extra"
    /\ extras' = [extras EXCEPT ![office[o].extra] =
           [@ EXCEPT !.costs = WrittenCosts(o), !.totalCost = sumCosts(office[o].merged)]]
    /\ office' = [office EXCEPT ![o] = Idle]
    /\ UNCHANGED transports

\* DELETE: the row stays, as cancelled.
CancelExtra(o, x) ==
    /\ office[o].op = "idle"
    /\ MayEditExtras(o)
    /\ extras[x].status # "none"
    /\ extras' = [extras EXCEPT ![x].status = "cancelled"]
    /\ UNCHANGED <<office, transports>>

(***************************************************************************)
(* Coaches                                                                 *)
(***************************************************************************)

TransportRow == [exists: BOOLEAN, kmGoogle: Nat, kmExtras: Nat, kmTotalPlan: Nat]

NoTransportRow == [exists |-> FALSE, kmGoogle |-> 0, kmExtras |-> 0, kmTotalPlan |-> 0]

MayEditTransport(o) == Holds(o, {"ops", "admin", "logist"})

CreateTransport(o, x, t, google, more) ==
    /\ office[o].op = "idle"
    /\ MayEditTransport(o)
    /\ Listed(t)
    /\ ~transports[x].exists
    /\ transports' = [transports EXCEPT ![x] = [exists |-> TRUE, kmGoogle |-> google,
                          kmExtras |-> more, kmTotalPlan |-> google + more]]
    /\ UNCHANGED <<office, extras>>

\* PATCH /tours/:id/transport/:transportId carrying one of the two distances.
BeginPatchTransport(o, x, column, km) ==
    LET next == [transports[x] EXCEPT ![column] = km]
    IN  /\ office[o].op = "idle"
        /\ MayEditTransport(o)
        /\ transports[x].exists
        /\ office' = [office EXCEPT ![o] = [op |-> "transport", transport |-> x,
                          column |-> column, km |-> km,
                          plan |-> next.kmGoogle + next.kmExtras]]
        /\ UNCHANGED costVars

PlanOfRead(o) == office[o].plan

\* Only the column of the request is written, and the total of what was read.
CommitPatchTransport(o) ==
    /\ office[o].op = "transport"
    /\ transports' = [transports EXCEPT ![office[o].transport] =
           [@ EXCEPT ![office[o].column] = office[o].km, !.kmTotalPlan = PlanOfRead(o)]]
    /\ office' = [office EXCEPT ![o] = Idle]
    /\ UNCHANGED extras

(***************************************************************************)
(* Papers                                                                  *)
(***************************************************************************)

\* Wrong on purpose: the row is inserted before the file is written.
InsertRowFirst(o, x) ==
    /\ office[o].op = "idle"
    /\ x \notin files \union papers
    /\ papers' = papers \union {x}
    /\ office' = [office EXCEPT ![o] = [op |-> "paper", paper |-> x]]
    /\ UNCHANGED files

\* renderAndSave writes the file first.
WriteFile(o, x) ==
    /\ office[o].op = "idle"
    /\ Holds(o, {"ops", "admin"})
    /\ x \notin files \union papers
    /\ files' = files \union {x}
    /\ office' = [office EXCEPT ![o] = [op |-> "paper", paper |-> x]]
    /\ UNCHANGED papers

\* Then it inserts the row that names the file.
InsertPaper(o) ==
    /\ office[o].op = "paper"
    /\ papers' = papers \union {office[o].paper}
    /\ office' = [office EXCEPT ![o] = Idle]
    /\ UNCHANGED files

\* A deployment: a new process, with an empty storage/documents.
Redeploy ==
    /\ files' = {}
    /\ office' = [o \in Officers |-> Idle]
    /\ UNCHANGED papers

(***************************************************************************)

\* A request that ends before its (next) write: a rejected insert, an error of
\* the database, the end of the process.
AbandonOffice(o) ==
    /\ office[o].op # "idle"
    /\ office' = [office EXCEPT ![o] = Idle]

OperationsInit ==
    /\ margins = [t \in Tours |-> "unknown"]
    /\ cleared = {}
    /\ hotels = [h \in HotelBookings |-> NoHotelRow]
    /\ checklists = [t \in Tours |-> [done |-> {}, readiness |-> 0]]
    /\ drivers = [t \in Tours |-> {}]
    /\ extras = [x \in Extras |-> NoExtraRow]
    /\ transports = [x \in Transports |-> NoTransportRow]
    /\ papers = {} /\ files = {}
    /\ office = [o \in Officers |-> Idle]

OfficeRequest ==
    {Idle}
    \union [op: {"structure"}, hotel: HotelBookings, rooms: Structure]
    \union [op: {"approve", "finalize"}, hotel: HotelBookings]
    \union [op: {"checklist"}, tour: Tours, readiness: Nat]
    \union [op: {"driver"}, tour: Tours, driver: Drivers]
    \union [op: {"extra"}, extra: Extras, field: COST_FIELDS, merged: CostSheet]
    \union [op: {"transport"}, transport: Transports, column: {"kmGoogle", "kmExtras"},
            km: Nat, plan: Nat]
    \union [op: {"paper"}, paper: Papers]

OperationsTypeOK ==
    /\ margins \in [Tours -> Margins]
    /\ cleared \subseteq Planners
    /\ hotels \in [HotelBookings -> HotelRow]
    /\ checklists \in [Tours -> ChecklistRow]
    /\ drivers \in [Tours -> SUBSET Drivers]
    /\ extras \in [Extras -> ExtraRow]
    /\ transports \in [Transports -> TransportRow]
    /\ papers \subseteq Papers /\ files \subseteq Papers
    /\ office \in [Officers -> OfficeRequest]

===============================================================================
