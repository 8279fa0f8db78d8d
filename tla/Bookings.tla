------------------------------- MODULE Bookings -------------------------------
(***************************************************************************)
(* The booking desk: bookings.service.ts.  A desk is one HTTP request at a *)
(* time of one member of staff or agent.  createBooking does everything    *)
(* behind the row lock that claimSeats takes, so it is one step.           *)
(* changeStatus, addPayment and cancelBooking first read the booking and   *)
(* check it, then await, then write what they computed from that read:     *)
(* two steps, and other requests run between them.                         *)
(*                                                                         *)
(* Amounts are whole cents.  The rows of payments are kept as their sum    *)
(* for each booking and type.  Left out: participants, audit, e-mail,      *)
(* Telegram, amounts of commissions, and the booking number, whose clash   *)
(* rolls a creation back.                                                  *)
(***************************************************************************)
EXTENDS TourInventory, BookingStatusMachine

CONSTANTS
    BookingIds,     \* the ids of bookings
    Desks,          \* the requests that may be in flight at once
    Role,           \* [Desks -> Roles]: who sends the requests of a desk
    Agency,         \* [Desks -> Agents \union {NoAgent}]: for whom an agent works
    Agents,         \* the ids of agencies
    NoAgent,        \* a booking without an agency
    Offers,         \* the [persons, total, deposit] a creation may carry
    StatusTargets,  \* the statuses a PATCH /status may ask for
    DeskTypes,      \* the types a payment may have, a subset of PaymentTypes
    Amounts,        \* the amounts a payment may have
    CancelTypes,    \* who may be named as cancelling: a subset of {"client", "operator"}
    Policies,       \* the cancellation policies tours may have
    NoPolicy,       \* a tour without a policy
    DaysAhead       \* how many days before departure a cancellation may come

Roles == {"admin", "manager", "ops", "accountant", "agent"}

PaymentTypes == {"deposit", "balance", "refund", "commission", "penalty"}

\* A rule of a policy; penalty_pct in hundredths of the price (the code keeps a fraction).
Rule == [days_before: Nat, penalty_pct: Nat]

ASSUME BookingIdsAssumption == BookingIds # {}
ASSUME RoleAssumption == Role \in [Desks -> Roles]
ASSUME AgencyAssumption ==
    /\ NoAgent \notin Agents
    /\ Agency \in [Desks -> Agents \union {NoAgent}]
\* CreateBookingSchema and AddPaymentSchema; nothing bounds deposit by total.
ASSUME RequestAssumption ==
    /\ Offers \subseteq [persons: Nat \ {0}, total: Nat \ {0}, deposit: Nat \ {0}]
    /\ StatusTargets \subseteq Statuses
    /\ DeskTypes \subseteq PaymentTypes
    /\ Amounts \subseteq Nat \ {0}
    /\ CancelTypes \subseteq {"client", "operator"}
ASSUME PolicyAssumption ==
    /\ DaysAhead \subseteq Nat
    /\ \A policy \in Policies \ {NoPolicy} : policy \subseteq Rule

VARIABLES
    bookings,       \* [BookingIds -> BookingRow], the table bookings
    payments,       \* [BookingIds -> [PaymentTypes -> Int]], sums over the table payments
    desk            \* [Desks -> DeskRequest], what a request in flight holds

bookingVars == <<bookings, payments, desk>>

PaymentStatuses == {"unpaid", "deposit_paid", "partially_paid", "fully_paid"}
CommissionStatuses == {"none", "pending", "cancelled"}

\* commission is bookings.commission_status, agentCommission the status of the
\* booking's row in agent_commissions.  The status "none" is an id not yet used.
BookingRow ==
    [status: Statuses \union {"none"}, tour: Tours, agent: Agents \union {NoAgent},
     persons: Nat, total: Nat, depositAmount: Nat, balanceAmount: Int,
     depositPaid: Nat, balancePaid: Int, paymentStatus: PaymentStatuses,
     commission: CommissionStatuses, agentCommission: CommissionStatuses]

NoBookingRow ==
    [status |-> "none", tour |-> CHOOSE t \in Tours : TRUE, agent |-> NoAgent,
     persons |-> 0, total |-> 0, depositAmount |-> 0, balanceAmount |-> 0,
     depositPaid |-> 0, balancePaid |-> 0, paymentStatus |-> "unpaid",
     commission |-> "none", agentCommission |-> "none"]

BookingExists(b) == bookings[b].status # "none"

DeskRequest ==
    [op: {"idle", "status", "payment", "cancel"}, booking: BookingIds,
     to: Statuses, type: PaymentTypes, amount: Nat, refund: Nat, seen: BookingRow]

NoRequest ==
    [op |-> "idle", booking |-> CHOOSE b \in BookingIds : TRUE, to |-> "new",
     type |-> "deposit", amount |-> 0, refund |-> 0, seen |-> NoBookingRow]

(***************************************************************************)
(* Who may do what: requireRoles of the routes, assertOwnership and        *)
(* resolveAgentId of the service.                                          *)
(***************************************************************************)

MayCreate(d)       == Role[d] \in {"admin", "manager", "agent"}
MayChangeStatus(d) == Role[d] \in {"admin", "manager", "ops", "agent"}
MayAddPayment(d)   == Role[d] \in {"admin", "manager", "accountant"}
MayCancel(d)       == Role[d] \in {"admin", "manager", "agent"}

Owns(d, b) == Role[d] = "agent" => bookings[b].agent = Agency[d]

EffectiveAgents(d) == IF Role[d] = "agent" THEN {Agency[d]} ELSE Agents \union {NoAgent}

(***************************************************************************)
(* Money                                                                   *)
(***************************************************************************)

Least(x, y)    == IF x <= y THEN x ELSE y
Greatest(x, y) == IF x >= y THEN x ELSE y

TotalPaid(row) == row.depositPaid + row.balancePaid

\* Wrong on purpose: a paid balance alone counts as fully paid.
PaymentStatusOfBalance(depositPaid, depositAmount, balancePaid, balanceAmount) ==
    IF balancePaid >= balanceAmount THEN "fully_paid"
    ELSE IF depositPaid >= depositAmount THEN "deposit_paid"
    ELSE "unpaid"

ComputePaymentStatus(depositPaid, depositAmount, balancePaid, balanceAmount) ==
    IF depositPaid + balancePaid >= depositAmount + balanceAmount THEN "fully_paid"
    ELSE IF depositPaid >= depositAmount /\ balancePaid <= 0 THEN "deposit_paid"
    ELSE IF depositPaid > 0 \/ depositPaid >= depositAmount THEN "partially_paid"
    ELSE "unpaid"

\* The rule with the largest days_before that has been reached; a policy none
\* of whose rules applies takes everything.
PenaltyPct(policy, days) ==
    LET reached == {rule \in policy : days >= rule.days_before}
    IN  IF reached = {} THEN 100
        ELSE (CHOOSE rule \in reached :
                 \A other \in reached : rule.days_before >= other.days_before).penalty_pct

\* Math.round(total * pct * 100) / 100, in cents.
PenaltyAmount(total, pct) == (2 * total * pct + 100) \div 200

\* Wrong on purpose: the penalty is taken off the price, not off what was paid.
RefundOfTotal(row, cancelType, policy, days) ==
    IF cancelType = "operator" \/ policy = NoPolicy
    THEN Greatest(0, TotalPaid(row))
    ELSE Greatest(0, row.total - PenaltyAmount(row.total, PenaltyPct(policy, days)))

\* Wrong on purpose: a penalty above what was paid leaves a negative refund.
RefundUnclamped(row, cancelType, policy, days) ==
    IF cancelType = "operator" \/ policy = NoPolicy
    THEN TotalPaid(row)
    ELSE TotalPaid(row) - PenaltyAmount(row.total, PenaltyPct(policy, days))

\* What a cancellation of the given type pays back for the row it has read.
RefundAmount(row, cancelType, policy, days) ==
    IF cancelType = "operator" \/ policy = NoPolicy
    THEN Greatest(0, TotalPaid(row))
    ELSE IF TotalPaid(row) = 0 THEN 0
    ELSE Greatest(0, TotalPaid(row) - PenaltyAmount(row.total, PenaltyPct(policy, days)))

(***************************************************************************)
(* POST /bookings                                                          *)
(***************************************************************************)

CreateBooking(d, b, t, offer, agent) ==
    /\ desk[d].op = "idle"
    /\ MayCreate(d)
    /\ agent \in EffectiveAgents(d)
    /\ ~BookingExists(b)
    /\ CanClaim(t, offer.persons)
    /\ Claim(t, offer.persons)
    /\ LET commission == IF agent = NoAgent THEN "none" ELSE "pending"
       IN  bookings' = [bookings EXCEPT ![b] =
               [NoBookingRow EXCEPT !.status = "new", !.tour = t, !.agent = agent,
                   !.persons = offer.persons, !.total = offer.total,
                   !.depositAmount = offer.deposit,
                   !.balanceAmount = offer.total - offer.deposit,
                   !.commission = commission, !.agentCommission = commission]]
    /\ UNCHANGED <<payments, desk>>

(***************************************************************************)
(* PATCH /bookings/:id/status                                              *)
(***************************************************************************)

\* The statuses an agent may still cancel from in changeStatus.
agentCancellableStatuses == {"new", "in_work", "pre_booked", "awaiting_payment"}

BeginChangeStatus(d, b, to) ==
    /\ desk[d].op = "idle"
    /\ MayChangeStatus(d)
    /\ BookingExists(b)
    /\ Owns(d, b)
    /\ IsValidStatusTransition(bookings[b].status, to)
    /\ Role[d] = "agent" /\ to = "cancelled_client" =>
           bookings[b].status \in agentCancellableStatuses
    /\ desk' = [desk EXCEPT ![d] = [NoRequest EXCEPT !.op = "status", !.booking = b, !.to = to]]
    /\ UNCHANGED <<tours, bookings, payments>>

\* The update names the booking by id only and writes nothing but the status:
\* a cancellation made here keeps the seats, the money and the commission.
CommitChangeStatus(d) ==
    /\ desk[d].op = "status"
    /\ bookings' = [bookings EXCEPT ![desk[d].booking].status = desk[d].to]
    /\ desk' = [desk EXCEPT ![d] = NoRequest]
    /\ UNCHANGED <<tours, payments>>

(***************************************************************************)
(* POST /bookings/:id/payment                                              *)
(***************************************************************************)

BeginAddPayment(d, b, type, amount) ==
    /\ desk[d].op = "idle"
    /\ MayAddPayment(d)
    /\ BookingExists(b)
    /\ ~IsTerminalStatus(bookings[b].status) \/ bookings[b].status = "completed"
    /\ desk' = [desk EXCEPT ![d] = [NoRequest EXCEPT !.op = "payment", !.booking = b,
                    !.type = type, !.amount = amount, !.seen = bookings[b]]]
    /\ UNCHANGED <<tours, bookings, payments>>

\* Wrong on purpose: the machine is not asked before "confirmed".
ConfirmWhenPaid(status, paymentStatus) ==
    IF paymentStatus = "deposit_paid" /\ status = "awaiting_payment" THEN "pre_booked"
    ELSE IF paymentStatus = "fully_paid" THEN "confirmed"
    ELSE status

\* The status the booking is given once the payment is counted: the one that
\* was read, unless the payment moves it on.
StatusAfterPayment(status, paymentStatus) ==
    IF paymentStatus = "deposit_paid" /\ status = "awaiting_payment" THEN "pre_booked"
    ELSE IF paymentStatus = "fully_paid" /\ IsValidStatusTransition(status, "confirmed")
    THEN "confirmed"
    ELSE status

\* Wrong on purpose: the larger of the two for the smaller.
CreditSwapped(paid, amount, due) == Greatest(paid + amount, due)

\* What a line of the booking counts as paid: never more than is due on it.
Credit(paid, amount, due) == Least(paid + amount, due)

\* Both paid amounts are written, from the row that was read.
CommitAddPayment(d) ==
    LET b    == desk[d].booking
        seen == desk[d].seen
        depositPaid ==
            IF desk[d].type = "deposit"
            THEN Credit(seen.depositPaid, desk[d].amount, seen.depositAmount)
            ELSE seen.depositPaid
        balancePaid ==
            IF desk[d].type = "balance"
            THEN Credit(seen.balancePaid, desk[d].amount, seen.balanceAmount)
            ELSE seen.balancePaid
        paymentStatus == ComputePaymentStatus(depositPaid, seen.depositAmount,
                                              balancePaid, seen.balanceAmount)
    IN  /\ desk[d].op = "payment"
        /\ payments' = [payments EXCEPT ![b][desk[d].type] = @ + desk[d].amount]
        /\ bookings' = [bookings EXCEPT ![b] =
               [@ EXCEPT !.depositPaid = depositPaid,
                         !.balancePaid = balancePaid,
                         !.paymentStatus = paymentStatus,
                         !.status = StatusAfterPayment(seen.status, paymentStatus)]]
        /\ desk' = [desk EXCEPT ![d] = NoRequest]
        /\ UNCHANGED tours

(***************************************************************************)
(* POST /bookings/:id/cancel                                               *)
(***************************************************************************)

CancelledBy(cancelType) ==
    IF cancelType = "operator" THEN "cancelled_operator" ELSE "cancelled_client"

BeginCancel(d, b, cancelType, policy, days) ==
    /\ desk[d].op = "idle"
    /\ MayCancel(d)
    /\ BookingExists(b)
    /\ Owns(d, b)
    /\ IsValidStatusTransition(bookings[b].status, CancelledBy(cancelType))
    /\ desk' = [desk EXCEPT ![d] = [NoRequest EXCEPT !.op = "cancel", !.booking = b,
                    !.to = CancelledBy(cancelType),
                    !.refund = RefundAmount(bookings[b], cancelType, policy, days)]]
    /\ UNCHANGED <<tours, bookings, payments>>

\* One transaction.  The tour and the persons of a booking never change, so
\* the row serves for the ones that were read.
CommitCancel(d) ==
    LET b == desk[d].booking
    IN  /\ desk[d].op = "cancel"
        /\ Release(bookings[b].tour, bookings[b].persons)
        /\ payments' = [payments EXCEPT ![b].refund = @ + desk[d].refund]
        /\ bookings' = [bookings EXCEPT ![b] =
               [@ EXCEPT !.status = desk[d].to,
                         !.commission = "cancelled",
                         !.agentCommission = IF bookings[b].agentCommission = "pending"
                                             THEN "cancelled" ELSE bookings[b].agentCommission]]
        /\ desk' = [desk EXCEPT ![d] = NoRequest]

\* The process stops, or the transaction is rolled back, before the write.
AbandonRequest(d) ==
    /\ desk[d].op # "idle"
    /\ desk' = [desk EXCEPT ![d] = NoRequest]
    /\ UNCHANGED <<tours, bookings, payments>>

BookingsInit ==
    /\ bookings = [b \in BookingIds |-> NoBookingRow]
    /\ payments = [b \in BookingIds |-> [type \in PaymentTypes |-> 0]]
    /\ desk = [d \in Desks |-> NoRequest]

BookingsTypeOK ==
    /\ bookings \in [BookingIds -> BookingRow]
    /\ payments \in [BookingIds -> [PaymentTypes -> Int]]
    /\ desk \in [Desks -> DeskRequest]

===============================================================================
