---------------------------- MODULE TourInventory ----------------------------
(***************************************************************************)
(* The tours of the catalogue and their seats: tours.service.ts and        *)
(* seat-claim.ts.  A planner's request (PUT /tours/:id, PATCH              *)
(* /tours/:id/status, DELETE /tours/:id/archive) reads the tour in one     *)
(* step and writes it in a later one: PostgreSQL runs at READ COMMITTED    *)
(* and the read takes no row lock, so whatever other requests commit in    *)
(* between is not seen.  Every UPDATE is one step, with its WHERE clause   *)
(* evaluated on the row it writes.                                         *)
(*                                                                         *)
(* Bookings claims and releases seats through the operators CanClaim,      *)
(* Claim and Release.                                                      *)
(***************************************************************************)
EXTENDS Integers

CONSTANTS
    Tours,       \* the ids of tours
    Planners,    \* requests of the tour office that may be in flight at once
    Capacities,  \* the values of totalSeats a creation may carry
    Resizes,     \* the values of totalSeats a change may carry
    TourTargets, \* the statuses a PATCH /tours/:id/status may ask for
    Archivable   \* the tours a DELETE /tours/:id/archive may name

ASSUME ToursAssumption == Tours # {}
ASSUME TourRequestAssumption ==
    /\ Capacities \union Resizes \subseteq Nat \ {0}
    /\ TourTargets \subseteq { "draft", "open", "active", "almost_full", "closed",
                              "on_tour", "completed", "cancelled" }
    /\ Archivable \subseteq Tours

VARIABLES
    tours,       \* [Tours -> Tour], a row of the table tours
    plans        \* [Planners -> Plan], what a request in flight has read

tourVars == <<tours, plans>>

TourStatuses == { "draft", "open", "active", "almost_full", "closed",
                  "on_tour", "completed", "cancelled" }

\* A row; "none" is the status of an id no tour has yet.
Tour == [status: TourStatuses \union {"none"}, archived: BOOLEAN,
         totalSeats: Nat, availableSeats: Int]

NoTourRow == [status |-> "none", archived |-> FALSE,
              totalSeats |-> 0, availableSeats |-> 0]

TourExists(t) == tours[t].status # "none"

\* What findFirst({ id, isArchived: false }) finds.
Listed(t) == TourExists(t) /\ ~tours[t].archived

\* A request of the tour office between its read and its write: seen is the
\* totalSeats it read, seats the totalSeats it will write, to the new status.
Plan == [op: {"idle", "resize", "status", "archive"}, tour: Tours,
         to: TourStatuses, seen: Nat, seats: Nat]

NoPlan == [op |-> "idle", tour |-> CHOOSE t \in Tours : TRUE,
           to |-> "draft", seen |-> 0, seats |-> 0]

(***************************************************************************)
(* Seats (seat-claim.ts)                                                   *)
(***************************************************************************)

SEAT_CLAIMABLE_TOUR_STATUSES == {"open", "active", "almost_full"}

\* Wrong on purpose: any free seat is taken for enough.
CanClaimAnyFree(t, seats) ==
    /\ Listed(t)
    /\ tours[t].availableSeats > 0
    /\ tours[t].status \in SEAT_CLAIMABLE_TOUR_STATUSES

\* The WHERE clause of the conditional UPDATE: no step lies between this test
\* and the decrement.
CanClaim(t, seats) ==
    /\ Listed(t)
    /\ tours[t].availableSeats >= seats
    /\ tours[t].status \in SEAT_CLAIMABLE_TOUR_STATUSES

Claim(t, seats) == tours' = [tours EXCEPT ![t].availableSeats = @ - seats]

\* Wrong on purpose: a cancellation that keeps the seats.
ReleaseNothing(t, seats) == UNCHANGED tours

\* The relative increment of cancelBooking; no condition on the tour.
Release(t, seats) == tours' = [tours EXCEPT ![t].availableSeats = @ + seats]

(***************************************************************************)
(* Requests of the tour office (tours.service.ts)                          *)
(***************************************************************************)

\* POST /tours: a draft with every seat free.  The unique code is abstracted.
CreateTour(t, seats) ==
    /\ ~TourExists(t)
    /\ tours' = [tours EXCEPT ![t] = [status |-> "draft", archived |-> FALSE,
                                      totalSeats |-> seats, availableSeats |-> seats]]
    /\ UNCHANGED plans

\* POST /tours/:id/departures: a copy of a listed tour, with its own seats.
CreateDeparture(source, t, seats) ==
    /\ Listed(source)
    /\ seats \in Capacities \union {tours[source].totalSeats}
    /\ CreateTour(t, seats)

\* PUT /tours/:id that changes totalSeats; with the same totalSeats the row
\* keeps its seats and nothing modelled changes.
BeginResize(p, t, seats) ==
    /\ plans[p].op = "idle"
    /\ Listed(t)
    /\ tours[t].status \notin {"completed", "cancelled"}
    /\ seats # tours[t].totalSeats
    /\ plans' = [plans EXCEPT ![p] = [NoPlan EXCEPT !.op = "resize", !.tour = t,
                                          !.seen = tours[t].totalSeats, !.seats = seats]]
    /\ UNCHANGED tours

\* Wrong on purpose: the guard in the WHERE clause is lost.
ShrinkUnguarded(t, delta) == TRUE

\* The part of the WHERE clause that keeps availableSeats from going negative.
ShrinkFits(t, delta) == delta < 0 => tours[t].availableSeats >= -delta

\* The updateMany: totalSeats is overwritten, availableSeats shifted by the
\* difference to the totalSeats read.  A count of 0 is a rejected request.
CommitResize(p) ==
    LET t     == plans[p].tour
        delta == plans[p].seats - plans[p].seen
    IN  /\ plans[p].op = "resize"
        /\ ~tours[t].archived
        /\ ShrinkFits(t, delta)
        /\ tours' = [tours EXCEPT ![t] =
               [@ EXCEPT !.totalSeats = plans[p].seats,
                         !.availableSeats = tours[t].availableSeats + delta]]
        /\ plans' = [plans EXCEPT ![p] = NoPlan]

ALLOWED_STATUS_TRANSITIONS ==
    [s \in TourStatuses |->
        CASE s = "draft"       -> {"open"}
          [] s = "open"        -> {"active", "cancelled"}
          [] s = "active"      -> {"almost_full", "closed", "cancelled"}
          [] s = "almost_full" -> {"closed", "active", "cancelled"}
          [] s = "closed"      -> {"on_tour", "cancelled"}
          [] s = "on_tour"     -> {"completed"}
          [] s \in {"completed", "cancelled"} -> {}]

\* PATCH /tours/:id/status.  The gates on margin, room structure (OPS-01) and
\* checklist (OPS-18) only reject requests: a rejected one is no step.
BeginTourStatus(p, t, to) ==
    /\ plans[p].op = "idle"
    /\ Listed(t)
    /\ to \in ALLOWED_STATUS_TRANSITIONS[tours[t].status]
    /\ plans' = [plans EXCEPT ![p] = [NoPlan EXCEPT !.op = "status", !.tour = t, !.to = to]]
    /\ UNCHANGED tours

CommitTourStatus(p) ==
    /\ plans[p].op = "status"
    /\ tours' = [tours EXCEPT ![plans[p].tour].status = plans[p].to]
    /\ plans' = [plans EXCEPT ![p] = NoPlan]

BeginArchive(p, t) ==
    /\ plans[p].op = "idle"
    /\ Listed(t)
    /\ tours[t].status # "on_tour"
    /\ plans' = [plans EXCEPT ![p] = [NoPlan EXCEPT !.op = "archive", !.tour = t]]
    /\ UNCHANGED tours

CommitArchive(p) ==
    /\ plans[p].op = "archive"
    /\ tours' = [tours EXCEPT ![plans[p].tour].archived = TRUE]
    /\ plans' = [plans EXCEPT ![p] = NoPlan]

\* A request that ends without its write: rejected by its WHERE clause, by a
\* gate, or lost with the process.
AbandonPlan(p) ==
    /\ plans[p].op # "idle"
    /\ plans' = [plans EXCEPT ![p] = NoPlan]
    /\ UNCHANGED tours

ToursInit ==
    /\ tours = [t \in Tours |-> NoTourRow]
    /\ plans = [p \in Planners |-> NoPlan]

ToursTypeOK ==
    /\ tours \in [Tours -> Tour]
    /\ plans \in [Planners -> Plan]

=============================================================================
