-------------------------- MODULE BookingProperties --------------------------
(***************************************************************************)
(* What the bookings, the seats and the money of BookingSystem must keep.  *)
(* The comment before each property says for which Contention it holds;    *)
(* the README says which run shows it and which run shows where it fails.  *)
(***************************************************************************)
EXTENDS BookingSystem, Sums

CancelledStatuses == {"cancelled_client", "cancelled_operator", "refund"}

\* A booking whose seats no cancelBooking has given back: that handler is the
\* only one that sets the commission of a booking to "cancelled".
Holding(b) == BookingExists(b) /\ bookings[b].commission # "cancelled"

\* A booking whose persons expect to travel.
Live(b) == BookingExists(b) /\ bookings[b].status \notin CancelledStatuses \union {"no_show"}

PersonsOf(t, Counts(_)) ==
    SumOf([b \in BookingIds |-> bookings[b].persons],
          {b \in BookingIds : Counts(b) /\ bookings[b].tour = t})

Received(b) == payments[b]["deposit"] + payments[b]["balance"]

(***************************************************************************)
(* Seats                                                                   *)
(***************************************************************************)

\* BR-01: however requests interleave, no tour ever has fewer than zero seats
\* left (claimSeats and updateTour test and write in one UPDATE).
SeatsNeverNegative == \A t \in Tours : tours[t].availableSeats >= 0

\* The seats a tour has sold are those of the bookings that hold seats on it:
\* claims, cancellations, resizes and rolled back requests lose none and
\* invent none, as long as no two requests work on the same booking or resize
\* the same tour at once.
SeatConservation ==
    \A t \in Tours : tours[t].totalSeats - tours[t].availableSeats = PersonsOf(t, Holding)

\* Two cancellations of one booking may free its seats twice, but no order of
\* requests loses a seat: those that are not free are held by a booking.
\* Holds as long as no two requests resize the same tour at once.
NoSeatLost ==
    \A t \in Tours : tours[t].totalSeats - tours[t].availableSeats <= PersonsOf(t, Holding)

\* A coach never has more travellers than seats.
NoOverbooking == \A t \in Tours : PersonsOf(t, Live) <= tours[t].totalSeats

\* GET /tours/:id/availability never shows more free seats than seats.
AvailableWithinTotal == \A t \in Tours : tours[t].availableSeats <= tours[t].totalSeats

\* The seats of the system implement the ledger BR-01 promises.
Ledger == INSTANCE SeatLedger WITH
    Reservations <- BookingIds,
    Places       <- Tours,
    Sizes        <- Capacities \union Resizes,
    capacity     <- [t \in Tours |-> tours[t].totalSeats],
    free         <- [t \in Tours |-> tours[t].availableSeats],
    held         <- [b \in BookingIds |-> IF Holding(b) THEN bookings[b].persons ELSE 0],
    place        <- [b \in BookingIds |-> bookings[b].tour]

\* Every step of the handlers is a step of that ledger or leaves it alone.
ImplementsSeatLedger == Ledger!Init /\ [][Ledger!Next]_(Ledger!ledgerVars)

(***************************************************************************)
(* Money                                                                   *)
(***************************************************************************)

\* A booking is never credited with money that was not received for it: what
\* it counts as paid is covered by the deposit and balance rows of payments,
\* however desks and callbacks interleave on it (stale reads lose money, they
\* never invent any).
PaidIsBacked == \A b \in BookingIds : TotalPaid(bookings[b]) <= Received(b)

\* "fully_paid" is what addPayment and the gateway agree on: the whole total
\* has come in.  Holds where no card payment has rewritten balanceAmount.
FullyPaidMeansPaid ==
    \A b \in BookingIds :
        bookings[b].paymentStatus = "fully_paid" => TotalPaid(bookings[b]) >= bookings[b].total

\* Cancelling never pays back more than was received.  Holds without two
\* requests at one booking.
RefundsBacked == \A b \in BookingIds : payments[b]["refund"] <= Received(b)

CardTotal(b) == SumOf([c \in Charges |-> charges[c].amount],
                      {c \in recorded : charges[c].booking = b})

\* The money of a charge is booked once, however often its callback is
\* delivered, however many deliveries are in flight and whatever desks do
\* meanwhile: a step that is no desk's adds to the receipts of a booking
\* exactly the charges it records.
ChargeBookedOnce ==
    [][desk' = desk => \A b \in BookingIds :
           Received(b)' - Received(b) = CardTotal(b)' - CardTotal(b)]_vars

\* With card payments only and no two callbacks at one booking, every charge
\* recorded is counted: the booking shows exactly what the gateway took.
BooksMatchGateway == \A b \in BookingIds : TotalPaid(bookings[b]) = CardTotal(b)

\* BR-08: an operator's cancellation has paid everything back and stopped the
\* agent's commission.
OperatorCancelRefunds ==
    \A b \in BookingIds :
        bookings[b].status = "cancelled_operator" =>
            /\ payments[b]["refund"] = TotalPaid(bookings[b])
            /\ bookings[b].agentCommission # "pending"

(***************************************************************************)
(* The life of a booking                                                   *)
(***************************************************************************)

\* Once cancelBooking has given the seats back the booking never travels: it
\* stays cancelled or becomes refunded.  Holds without two requests at one
\* booking.
CancelledStaysCancelled ==
    [][\A b \in BookingIds : bookings[b].commission = "cancelled" =>
           bookings'[b].status \in CancelledStatuses]_vars

\* BR-06: completed, no_show and refund are final, but for the reversal of a
\* charge, which makes a refund of anything.  Holds without two requests at one
\* booking.
TerminalIsFinal ==
    [][\A b \in BookingIds : BookingExists(b) /\ IsTerminalStatus(bookings[b].status) =>
           \/ bookings'[b].status = bookings[b].status
           \/ /\ bookings'[b].status = "refund"
              /\ \E c \in revRecorded' \ revRecorded : charges[c].booking = b]_vars

=============================================================================
