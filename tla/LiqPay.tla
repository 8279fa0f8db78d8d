------------------------------- MODULE LiqPay -------------------------------
(***************************************************************************)
(* Card payments: liqpay.service.ts.  A customer pays a checkout form at   *)
(* the gateway, which then calls POST /webhooks/liqpay.  The route answers *)
(* 200 whatever happens, so a delivery that fails on our side is not a     *)
(* reason for another one; the gateway still may deliver a callback late,  *)
(* more than once, and after the callback of a later event.                *)
(*                                                                         *)
(* The gateway is external: charges is its own record, from which the      *)
(* callbacks are drawn.  Left out: signatures, decoding, audit and the     *)
(* communication row.                                                      *)
(***************************************************************************)
EXTENDS Bookings

CONSTANTS
    Charges,        \* the payment ids of the gateway
    ChargeAmounts,  \* the amounts a customer may be charged
    Hooks           \* the callbacks that may be in flight at once

ASSUME ChargeAssumption == Charges # {} /\ ChargeAmounts \subseteq Nat \ {0}

VARIABLES
    charges,        \* [Charges -> Charge], the gateway's record
    hooks,          \* [Hooks -> Hook], what a callback in flight has read
    recorded,       \* the charges whose payment_id is an externalId of payments
    revRecorded     \* the charges whose rev_<payment_id> is one

liqPayVars == <<charges, hooks, recorded, revRecorded>>

Charge == [state: {"none", "paid", "reversed"}, booking: BookingIds,
           kind: {"deposit", "final_payment"}, amount: Nat]

NoCharge == [state |-> "none", booking |-> CHOOSE b \in BookingIds : TRUE,
             kind |-> "deposit", amount |-> 0]

Hook == [busy: BOOLEAN, charge: Charges, seen: BookingRow]

NoHook == [busy |-> FALSE, charge |-> CHOOSE c \in Charges : TRUE, seen |-> NoBookingRow]

(***************************************************************************)
(* The gateway (external)                                                  *)
(***************************************************************************)

\* A checkout form of a booking is paid.  The order id carries the booking and
\* the kind; the route that makes the form does not look at the status.
PayAtGateway(c, b, kind, amount) ==
    /\ charges[c].state = "none"
    /\ BookingExists(b)
    /\ charges' = [charges EXCEPT ![c] = [state |-> "paid", booking |-> b,
                                          kind |-> kind, amount |-> amount]]
    /\ UNCHANGED <<bookings, payments, hooks, recorded, revRecorded>>

ReverseAtGateway(c) ==
    /\ charges[c].state = "paid"
    /\ charges' = [charges EXCEPT ![c].state = "reversed"]
    /\ UNCHANGED <<bookings, payments, hooks, recorded, revRecorded>>

(***************************************************************************)
(* handleSuccess                                                           *)
(***************************************************************************)

ResolvePaymentStatus(totalPaid, depositAmount, totalAmount) ==
    IF totalPaid <= 0 THEN "unpaid"
    ELSE IF totalPaid >= totalAmount THEN "fully_paid"
    ELSE IF totalPaid >= depositAmount THEN "deposit_paid"
    ELSE "partially_paid"

ResolveNextStatus(status, totalPaid, totalAmount) ==
    IF totalPaid >= totalAmount /\ status \in {"awaiting_payment", "partially_paid"}
    THEN "confirmed"
    ELSE IF totalPaid < totalAmount /\ totalPaid > 0 /\ status = "awaiting_payment"
    THEN "partially_paid"
    ELSE status

\* Deposits by name, and whatever comes first.
IsDepositPayment(kind, depositPaid) == kind = "deposit" \/ depositPaid = 0

\* Wrong on purpose: payments.external_id is not unique.
ExternalIdAnyway(c) == TRUE

\* The unique index on payments.external_id lets the row in.
ExternalIdFree(c) == c \notin recorded

\* Wrong on purpose: the deposit is capped, as addPayment does.
DepositCapped(seen, isDeposit, amount) ==
    IF isDeposit THEN Least(seen.depositPaid + amount, seen.depositAmount) ELSE seen.depositPaid

\* The deposit after a charge of that amount: nothing caps it.
DepositAfter(seen, isDeposit, amount) ==
    IF isDeposit THEN seen.depositPaid + amount ELSE seen.depositPaid

\* The booking is read and the externalId looked up before the transaction; a
\* charge already recorded is skipped.  (A delivery that overlooks the record
\* of another one fails on the unique externalId in CommitSuccess.)
BeginSuccess(h, c) ==
    /\ ~hooks[h].busy
    /\ charges[c].state # "none"
    /\ c \notin recorded
    /\ BookingExists(charges[c].booking)
    /\ hooks' = [hooks EXCEPT ![h] = [busy |-> TRUE, charge |-> c,
                                      seen |-> bookings[charges[c].booking]]]
    /\ UNCHANGED <<bookings, payments, charges, recorded, revRecorded>>

\* One transaction.  Every amount is computed from the row that was read, is
\* not capped, and balanceAmount becomes what is left of the total.
CommitSuccess(h) ==
    LET c           == hooks[h].charge
        b           == charges[c].booking
        seen        == hooks[h].seen
        isDeposit   == IsDepositPayment(charges[c].kind, seen.depositPaid)
        depositPaid == DepositAfter(seen, isDeposit, charges[c].amount)
        balancePaid == seen.balancePaid + (IF isDeposit THEN 0 ELSE charges[c].amount)
        totalPaid   == depositPaid + balancePaid
    IN  /\ hooks[h].busy
        /\ ExternalIdFree(c)
        /\ recorded' = recorded \union {c}
        /\ payments' = [payments EXCEPT
               ![b][IF isDeposit THEN "deposit" ELSE "balance"] = @ + charges[c].amount]
        /\ bookings' = [bookings EXCEPT ![b] =
               [@ EXCEPT !.depositPaid = depositPaid,
                         !.balancePaid = balancePaid,
                         !.balanceAmount = Greatest(0, seen.total - totalPaid),
                         !.paymentStatus = ResolvePaymentStatus(totalPaid, seen.depositAmount,
                                                                seen.total),
                         !.status = ResolveNextStatus(seen.status, totalPaid, seen.total)]]
        /\ hooks' = [hooks EXCEPT ![h] = NoHook]
        /\ UNCHANGED <<charges, revRecorded>>

\* The transaction is rolled back, by the unique externalId among others, or
\* the process stops.  The gateway has its 200 in the first case.
AbandonHook(h) ==
    /\ hooks[h].busy
    /\ hooks' = [hooks EXCEPT ![h] = NoHook]
    /\ UNCHANGED <<bookings, payments, charges, recorded, revRecorded>>

(***************************************************************************)
(* handleReversal: nothing is read first, one transaction                  *)
(***************************************************************************)

HandleReversal(c) ==
    LET b == charges[c].booking
    IN  /\ charges[c].state = "reversed"
        /\ c \notin revRecorded
        /\ BookingExists(b)
        /\ revRecorded' = revRecorded \union {c}
        /\ payments' = [payments EXCEPT ![b].refund = @ - charges[c].amount]
        /\ bookings' = [bookings EXCEPT ![b] = [@ EXCEPT !.status = "refund",
                                                         !.paymentStatus = "unpaid"]]
        /\ UNCHANGED <<charges, hooks, recorded>>

LiqPayInit ==
    /\ charges = [c \in Charges |-> NoCharge]
    /\ hooks = [h \in Hooks |-> NoHook]
    /\ recorded = {}
    /\ revRecorded = {}

LiqPayTypeOK ==
    /\ charges \in [Charges -> Charge]
    /\ hooks \in [Hooks -> Hook]
    /\ recorded \subseteq Charges
    /\ revRecorded \subseteq Charges

=============================================================================
