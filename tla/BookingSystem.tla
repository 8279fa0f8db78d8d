--------------------------- MODULE BookingSystem ---------------------------
(***************************************************************************)
(* The tour office, the booking desk and the card gateway at work on one   *)
(* database.  Each module says what its requests do to the tables it       *)
(* knows; this one composes them and states what the whole must keep.      *)
(*                                                                         *)
(* Contention says on which kinds of row two requests may work at the same *)
(* time.  The server never prevents it, so {"booking", "tour"} is the      *)
(* program as deployed; a smaller set describes an office that keeps two   *)
(* people (or a person and a card payment) off the same booking, or off    *)
(* the same tour's capacity and status.                                    *)
(*                                                                         *)
(* MaxPaid and MaxFree bound the two counters that requests can drive up   *)
(* for ever; they only stop new requests from being sent.                  *)
(***************************************************************************)
EXTENDS LiqPay

CONSTANTS
    Contention,
    MaxPaid,    \* no desk payment of a type on a booking that has received this much
    MaxFree     \* no resize of, nor cancellation on, a tour with this many free seats

ASSUME ContentionAssumption == Contention \subseteq {"booking", "tour"}
ASSUME BoundsAssumption == MaxPaid \in Nat /\ MaxFree \in Nat

vars == <<tourVars, bookingVars, liqPayVars>>

Init == ToursInit /\ BookingsInit /\ LiqPayInit

(***************************************************************************)
(* The environment                                                         *)
(***************************************************************************)

BookingInFlight(b) ==
    \/ \E d \in Desks : desk[d].op # "idle" /\ desk[d].booking = b
    \/ \E h \in Hooks : hooks[h].busy /\ charges[hooks[h].charge].booking = b

TourInFlight(t) == \E p \in Planners : plans[p].op # "idle" /\ plans[p].tour = t

RoomToFree(t) == tours[t].availableSeats < MaxFree

BookingFree(b) == "booking" \in Contention \/ ~BookingInFlight(b)
TourFree(t)    == "tour" \in Contention \/ ~TourInFlight(t)

(***************************************************************************)
(* The steps                                                               *)
(***************************************************************************)

TourStep ==
    \/ \E t \in Tours, seats \in Capacities : CreateTour(t, seats)
    \/ \E source, t \in Tours :
          \E seats \in Capacities \union {tours[source].totalSeats} :
              CreateDeparture(source, t, seats)
    \/ \E p \in Planners, t \in Tours :
          /\ TourFree(t)
          /\ \/ \E seats \in Resizes : RoomToFree(t) /\ BeginResize(p, t, seats)
             \/ \E to \in TourTargets : BeginTourStatus(p, t, to)
             \/ t \in Archivable /\ BeginArchive(p, t)
    \/ \E p \in Planners : \/ CommitResize(p)
                           \/ CommitTourStatus(p)
                           \/ CommitArchive(p)
                           \/ AbandonPlan(p)

DeskStep ==
    \/ \E d \in Desks, b \in BookingIds, t \in Tours, offer \in Offers :
          \E agent \in EffectiveAgents(d) : CreateBooking(d, b, t, offer, agent)
    \/ \E d \in Desks, b \in BookingIds :
          /\ BookingFree(b)
          /\ \/ \E to \in StatusTargets : BeginChangeStatus(d, b, to)
             \/ \E type \in DeskTypes, amount \in Amounts :
                   payments[b][type] < MaxPaid /\ BeginAddPayment(d, b, type, amount)
             \/ \E cancelType \in CancelTypes, policy \in Policies, days \in DaysAhead :
                   /\ RoomToFree(bookings[b].tour)
                   /\ BeginCancel(d, b, cancelType, policy, days)
    \/ \E d \in Desks : \/ CommitChangeStatus(d)
                        \/ CommitAddPayment(d)
                        \/ CommitCancel(d)
                        \/ AbandonRequest(d)

LiqPayStep ==
    \/ \E c \in Charges : \/ \E b \in BookingIds, amount \in ChargeAmounts,
                               kind \in {"deposit", "final_payment"} :
                                 PayAtGateway(c, b, kind, amount)
                          \/ ReverseAtGateway(c)
                          \/ BookingFree(charges[c].booking) /\ HandleReversal(c)
    \/ \E h \in Hooks : \/ \E c \in Charges : /\ BookingFree(charges[c].booking)
                                              /\ BeginSuccess(h, c)
                        \/ CommitSuccess(h)
                        \/ AbandonHook(h)

Next ==
    \/ TourStep /\ UNCHANGED <<bookingVars, liqPayVars>>
    \/ DeskStep /\ UNCHANGED <<plans, liqPayVars>>
    \/ LiqPayStep /\ UNCHANGED <<tourVars, desk>>

Spec == Init /\ [][Next]_vars

TypeOK == ToursTypeOK /\ BookingsTypeOK /\ LiqPayTypeOK

=============================================================================
