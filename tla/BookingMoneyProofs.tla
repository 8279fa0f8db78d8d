------------------------- MODULE BookingMoneyProofs -------------------------
(***************************************************************************)
(* The money of a booking, for every tariff, set of desks and set of       *)
(* callbacks.  ChargeBookedOnce holds in every office; BooksMatchGateway   *)
(* and RefundsBacked where no two requests work on one booking;            *)
(* FullyPaidMeansPaid where payments come from the desks alone or from the *)
(* gateway alone.                                                          *)
(***************************************************************************)
EXTENDS BookingSystemProofs

\* The charges recorded are finitely many, each of them a charge of the gateway.
RecordedInv ==
    /\ IsFiniteSet(recorded)
    /\ \A c \in recorded : charges[c].state # "none"

\* A payment in flight is one that the desks may take.
DeskPaymentsInv ==
    \A d \in Desks : desk[d].op = "payment" =>
        desk[d].type \in DeskTypes /\ desk[d].amount \in Amounts

\* A booking that has its seats has had no refund, and a cancellation in
\* flight will pay back no more than has been received.
RefundsInv ==
    /\ RefundsBacked
    /\ \A b \in BookingIds : bookings[b].commission # "cancelled" => payments[b]["refund"] <= 0
    /\ \A d \in Desks : desk[d].op = "cancel" => desk[d].refund <= Received(desk[d].booking)

\* Deposit and balance make up the total, for as long as no charge of the
\* gateway has rewritten the balance, in the booking and in what requests have
\* read of it; and nobody holds another total than the booking's.
Composed(row) == Hooks = {} => row.depositAmount + row.balanceAmount = row.total

PricesInv ==
    /\ \A b \in BookingIds : Composed(bookings[b])
    /\ \A d \in Desks : desk[d].op = "payment" =>
          Composed(desk[d].seen) /\ desk[d].seen.total = bookings[desk[d].booking].total
    /\ \A h \in Hooks : hooks[h].busy => hooks[h].seen.total = bookings[ChargedBooking(h)].total

(***************************************************************************)
(* The steps, by what they do to the money                                 *)
(***************************************************************************)

\* Only four handlers write rows of payments, and only one records a charge.
LEMMA WhoBooks ==
    ASSUME TypeOK, [Next]_vars
    PROVE  \/ UNCHANGED <<payments, recorded>>
           \/ /\ UNCHANGED <<recorded, charges, hooks>>
              /\ \E d \in Desks : CommitAddPayment(d) \/ CommitCancel(d)
           \/ UNCHANGED <<recorded, desk>> /\ \E c \in Charges : HandleReversal(c)
           \/ UNCHANGED desk /\ \E h \in Hooks : CommitSuccess(h)
<1>1. CASE UNCHANGED <<bookingVars, liqPayVars>>
    BY <1>1 DEF bookingVars, liqPayVars
<1>2. CASE DeskStep /\ UNCHANGED <<plans, liqPayVars>>
    <2>1. UNCHANGED <<recorded, charges, hooks>>
        BY <1>2 DEF liqPayVars
    <2>2. ASSUME NEW d \in Desks, NEW b \in BookingIds,
                 \/ \E t \in Tours, offer \in Offers :
                       \E agent \in EffectiveAgents(d) : CreateBooking(d, b, t, offer, agent)
                 \/ \E to \in StatusTargets : BeginChangeStatus(d, b, to)
                 \/ \E type \in DeskTypes, amount \in Amounts : BeginAddPayment(d, b, type, amount)
                 \/ \E cancelType \in CancelTypes, policy \in Policies, days \in DaysAhead :
                        BeginCancel(d, b, cancelType, policy, days)
          PROVE  UNCHANGED payments
        BY <2>2 DEF CreateBooking, BeginChangeStatus, BeginAddPayment, BeginCancel
    <2>3. ASSUME NEW d \in Desks, CommitChangeStatus(d) \/ AbandonRequest(d)
          PROVE  UNCHANGED payments
        BY <2>3 DEF CommitChangeStatus, AbandonRequest
    <2> QED
        BY <1>2, <2>1, <2>2, <2>3 DEF DeskStep
<1>3. CASE LiqPayStep /\ UNCHANGED <<tourVars, desk>>
    <2>1. ASSUME NEW c \in Charges,
                 \/ \E b \in BookingIds, amount \in ChargeAmounts,
                       kind \in {"deposit", "final_payment"} : PayAtGateway(c, b, kind, amount)
                 \/ ReverseAtGateway(c)
          PROVE  UNCHANGED <<payments, recorded>>
        BY <2>1 DEF PayAtGateway, ReverseAtGateway
    <2>2. ASSUME NEW h \in Hooks, (\E c \in Charges : BeginSuccess(h, c)) \/ AbandonHook(h)
          PROVE  UNCHANGED <<payments, recorded>>
        BY <2>2 DEF BeginSuccess, AbandonHook
    <2>3. ASSUME NEW c \in Charges, HandleReversal(c) PROVE UNCHANGED recorded
        BY <2>3 DEF HandleReversal
    <2> QED
        BY <1>3, <2>1, <2>2, <2>3 DEF LiqPayStep
<1> QED
    BY <1>1, <1>2, <1>3 DEF Next, vars

\* What a callback that gets through writes.
LEMMA CommitSuccessEffect ==
    ASSUME TypeOK, RequestsInv, NEW h \in Hooks, CommitSuccess(h)
    PROVE  \E c \in Charges, b \in BookingIds, seen \in BookingRow :
              /\ c = hooks[h].charge /\ b = ChargedBooking(h) /\ seen = hooks[h].seen
              /\ charges[c].booking = b /\ charges[c].amount \in Nat
              /\ charges[c].state # "none" /\ UNCHANGED charges
              /\ c \notin recorded /\ recorded' = recorded \union {c}
              /\ BookingExists(b)
              /\ Received(b)' = Received(b) + charges[c].amount
              /\ TotalPaid(bookings'[b]) = TotalPaid(seen) + charges[c].amount
              /\ bookings'[b].paymentStatus =
                     ResolvePaymentStatus(TotalPaid(bookings'[b]), seen.depositAmount, seen.total)
              /\ \A x \in BookingIds : payments'[x]["refund"] = payments[x]["refund"]
              /\ \A x \in BookingIds : x # b => /\ Received(x)' = Received(x)
                                                /\ bookings'[x] = bookings[x]
<1>1. PICK c \in Charges, b \in BookingIds, seen \in BookingRow :
          /\ c = hooks[h].charge /\ b = ChargedBooking(h) /\ seen = hooks[h].seen
          /\ BookingExists(b)
    BY ChargedExist DEF CommitSuccess, TypeOK, LiqPayTypeOK, Hook
<1> DEFINE amount      == charges[c].amount
           isDeposit   == IsDepositPayment(charges[c].kind, seen.depositPaid)
           type        == IF isDeposit THEN "deposit" ELSE "balance"
           depositPaid == DepositAfter(seen, isDeposit, amount)
           balancePaid == seen.balancePaid + (IF isDeposit THEN 0 ELSE amount)
           balanceAmount == Greatest(0, seen.total - (depositPaid + balancePaid))
           paymentStatus == ResolvePaymentStatus(depositPaid + balancePaid, seen.depositAmount,
                                                 seen.total)
           status      == ResolveNextStatus(seen.status, depositPaid + balancePaid, seen.total)
<1>2. charges[c].booking = b /\ amount \in Nat /\ charges[c].state # "none"
    BY <1>1 DEF TypeOK, LiqPayTypeOK, Charge, ChargedBooking, RequestsInv, CommitSuccess
<1>3. c \notin recorded /\ recorded' = recorded \union {c} /\ UNCHANGED charges
    BY <1>1 DEF CommitSuccess, ExternalIdFree
<1>4. seen.depositPaid \in Int /\ seen.balancePaid \in Int
    BY DEF BookingRow
<1>5. depositPaid + balancePaid = TotalPaid(seen) + amount
    BY <1>2, <1>4 DEF DepositAfter, TotalPaid
<1>6. payments' = [payments EXCEPT ![b][type] = @ + amount]
    BY <1>1 DEF CommitSuccess, ChargedBooking
<1>7. bookings' = [bookings EXCEPT ![b] =
          [bookings[b] EXCEPT !.depositPaid = depositPaid, !.balancePaid = balancePaid,
               !.balanceAmount = balanceAmount, !.paymentStatus = paymentStatus,
               !.status = status]]
    BY <1>1 DEF CommitSuccess, ChargedBooking
<1>8. type \in {"deposit", "balance"}
    OBVIOUS
<1>9. paymentStatus = ResolvePaymentStatus(depositPaid + balancePaid, seen.depositAmount,
                                           seen.total)
    OBVIOUS
<1> HIDE DEF amount, type, depositPaid, balancePaid, balanceAmount, paymentStatus, status
<1>10. /\ bookings'[b].depositPaid = depositPaid /\ bookings'[b].balancePaid = balancePaid
       /\ bookings'[b].paymentStatus = paymentStatus
       /\ \A x \in BookingIds : x # b => bookings'[x] = bookings[x]
    BY <1>7 DEF TypeOK, BookingsTypeOK, BookingRow
<1>11. /\ payments'[b]["deposit"] + payments'[b]["balance"] =
              payments[b]["deposit"] + payments[b]["balance"] + amount
       /\ \A x \in BookingIds : payments'[x]["refund"] = payments[x]["refund"]
       /\ \A x \in BookingIds : x # b => payments'[x] = payments[x]
    BY <1>2, <1>6, <1>8 DEF TypeOK, BookingsTypeOK, PaymentTypes
<1>12. TotalPaid(bookings'[b]) = depositPaid + balancePaid
    BY <1>10 DEF TotalPaid
<1>13. Received(b)' = Received(b) + amount
    BY <1>11 DEF Received
<1> USE DEF amount
<1> QED
    BY <1>1, <1>2, <1>3, <1>5, <1>9, <1>10, <1>11, <1>12, <1>13 DEF Received

\* What a payment that is taken at a desk writes.
LEMMA CommitAddPaymentEffect ==
    ASSUME TypeOK, RequestsInv, NEW d \in Desks, CommitAddPayment(d)
    PROVE  \E b \in BookingIds, seen \in BookingRow, type \in PaymentTypes, amount \in Nat :
              /\ b = desk[d].booking /\ seen = desk[d].seen /\ desk[d].op = "payment"
              /\ type = desk[d].type /\ amount = desk[d].amount /\ BookingExists(b)
              /\ payments' = [payments EXCEPT ![b][type] = @ + amount]
              /\ bookings'[b].depositPaid =
                    IF type = "deposit"
                    THEN Credit(seen.depositPaid, amount, seen.depositAmount)
                    ELSE seen.depositPaid
              /\ bookings'[b].balancePaid =
                    IF type = "balance"
                    THEN Credit(seen.balancePaid, amount, seen.balanceAmount)
                    ELSE seen.balancePaid
              /\ bookings'[b].paymentStatus =
                    ComputePaymentStatus(bookings'[b].depositPaid, seen.depositAmount,
                                         bookings'[b].balancePaid, seen.balanceAmount)
              /\ bookings'[b].balanceAmount = bookings[b].balanceAmount
              /\ \A x \in BookingIds : x # b => bookings'[x] = bookings[x]
<1>1. PICK b \in BookingIds, seen \in BookingRow, type \in PaymentTypes, amount \in Nat :
          /\ b = desk[d].booking /\ seen = desk[d].seen
          /\ type = desk[d].type /\ amount = desk[d].amount
    BY DEF TypeOK, BookingsTypeOK, DeskRequest
<1>2. desk[d].op = "payment" /\ BookingExists(b)
    BY <1>1 DEF CommitAddPayment, RequestsInv
<1> DEFINE depositPaid ==
               IF type = "deposit"
               THEN Credit(seen.depositPaid, amount, seen.depositAmount)
               ELSE seen.depositPaid
           balancePaid ==
               IF type = "balance"
               THEN Credit(seen.balancePaid, amount, seen.balanceAmount)
               ELSE seen.balancePaid
           paymentStatus == ComputePaymentStatus(depositPaid, seen.depositAmount,
                                                 balancePaid, seen.balanceAmount)
           status == StatusAfterPayment(seen.status, paymentStatus)
<1>3. payments' = [payments EXCEPT ![b][type] = @ + amount]
    BY <1>1 DEF CommitAddPayment
<1>4. bookings' = [bookings EXCEPT ![b] =
          [bookings[b] EXCEPT !.depositPaid = depositPaid, !.balancePaid = balancePaid,
               !.paymentStatus = paymentStatus, !.status = status]]
    BY <1>1 DEF CommitAddPayment
<1> HIDE DEF depositPaid, balancePaid, paymentStatus, status
<1>5. /\ bookings'[b].depositPaid = depositPaid /\ bookings'[b].balancePaid = balancePaid
      /\ bookings'[b].paymentStatus = paymentStatus
      /\ bookings'[b].balanceAmount = bookings[b].balanceAmount
      /\ \A x \in BookingIds : x # b => bookings'[x] = bookings[x]
    BY <1>4 DEF TypeOK, BookingsTypeOK, BookingRow
<1>6. bookings'[b].paymentStatus =
          ComputePaymentStatus(bookings'[b].depositPaid, seen.depositAmount,
                               bookings'[b].balancePaid, seen.balanceAmount)
    BY <1>5 DEF paymentStatus
<1>7. /\ bookings'[b].depositPaid =
             IF type = "deposit"
             THEN Credit(seen.depositPaid, amount, seen.depositAmount)
             ELSE seen.depositPaid
      /\ bookings'[b].balancePaid =
             IF type = "balance"
             THEN Credit(seen.balancePaid, amount, seen.balanceAmount)
             ELSE seen.balancePaid
    BY <1>5 DEF depositPaid, balancePaid
<1> QED
    BY <1>1, <1>2, <1>3, <1>5, <1>6, <1>7

\* A cancellation and a reversal touch the refunds alone.
LEMMA RefundEffect ==
    ASSUME TypeOK, NEW b \in BookingIds, NEW amount,
           payments' = [payments EXCEPT ![b]["refund"] = amount]
    PROVE  /\ payments'[b]["refund"] = amount
           /\ \A x \in BookingIds : Received(x)' = Received(x)
           /\ \A x \in BookingIds : x # b => payments'[x] = payments[x]
BY DEF TypeOK, BookingsTypeOK, PaymentTypes, Received

LEMMA CommitCancelRefund ==
    ASSUME TypeOK, RequestsInv, NEW d \in Desks, CommitCancel(d)
    PROVE  \E b \in BookingIds :
              /\ b = desk[d].booking
              /\ payments'[b]["refund"] = payments[b]["refund"] + desk[d].refund
              /\ \A x \in BookingIds : Received(x)' = Received(x)
              /\ \A x \in BookingIds : x # b => payments'[x] = payments[x]
<1>1. PICK b \in BookingIds : b = desk[d].booking
    BY DEF TypeOK, BookingsTypeOK, DeskRequest
<1>2. PICK amount : /\ amount = payments[b]["refund"] + desk[d].refund
                    /\ payments' = [payments EXCEPT ![b]["refund"] = amount]
    BY <1>1 DEF CommitCancel, TypeOK, BookingsTypeOK, PaymentTypes
<1> QED
    BY <1>1, <1>2, RefundEffect

LEMMA HandleReversalRefund ==
    ASSUME TypeOK, NEW c \in Charges, HandleReversal(c)
    PROVE  \E b \in BookingIds :
              /\ payments'[b]["refund"] = payments[b]["refund"] - charges[c].amount
              /\ \A x \in BookingIds : Received(x)' = Received(x)
              /\ \A x \in BookingIds : x # b => payments'[x] = payments[x]
<1>1. PICK b \in BookingIds : b = charges[c].booking
    BY DEF TypeOK, LiqPayTypeOK, Charge
<1>2. PICK amount : /\ amount = payments[b]["refund"] - charges[c].amount
                    /\ payments' = [payments EXCEPT ![b]["refund"] = amount]
    BY <1>1 DEF HandleReversal, TypeOK, BookingsTypeOK, PaymentTypes
<1> QED
    BY <1>2, RefundEffect

(***************************************************************************)
(* A charge is booked once                                                 *)
(***************************************************************************)

AmountOf   == [c \in Charges |-> charges[c].amount]
ChargesFor(b) == {c \in recorded : charges[c].booking = b}

LEMMA CardTotalOfCharges == \A b \in BookingIds : CardTotal(b) = SumOf(AmountOf, ChargesFor(b))
BY DEF CardTotal, AmountOf, ChargesFor

LEMMA FewCharges ==
    ASSUME TypeOK, RecordedInv, NEW b \in BookingIds
    PROVE  /\ IsFiniteSet(ChargesFor(b))
           /\ \A c \in Charges : AmountOf[c] \in Int
           /\ ChargesFor(b) \subseteq Charges
           /\ CardTotal(b) \in Int
<1>1. ChargesFor(b) \subseteq recorded /\ recorded \subseteq Charges
    BY DEF ChargesFor, TypeOK, LiqPayTypeOK
<1>2. IsFiniteSet(ChargesFor(b))
    BY <1>1, FS_Subset DEF RecordedInv
<1>3. \A c \in Charges : AmountOf[c] \in Int
    BY DEF AmountOf, TypeOK, LiqPayTypeOK, Charge
<1>4. SumOf(AmountOf, ChargesFor(b)) \in Int
    BY <1>1, <1>2, <1>3, SumOfInt
<1> QED
    BY <1>1, <1>2, <1>3, <1>4, CardTotalOfCharges

\* A step that records nothing leaves what the gateway took for a booking alone.
LEMMA CardTotalKept ==
    ASSUME TypeOK, RecordedInv, [Next]_vars, UNCHANGED recorded, NEW b \in BookingIds
    PROVE  CardTotal(b)' = CardTotal(b)
<1>1. \A c \in recorded : /\ c \in Charges /\ charges'[c].booking = charges[c].booking
                          /\ charges'[c].amount = charges[c].amount
    BY ChargesLast DEF RecordedInv, TypeOK, LiqPayTypeOK
<1>2. ChargesFor(b)' = ChargesFor(b)
    BY <1>1 DEF ChargesFor
<1>3. \A c \in ChargesFor(b) : AmountOf'[c] = AmountOf[c]
    BY <1>1 DEF AmountOf, ChargesFor
<1>4. SumOf(AmountOf', ChargesFor(b)) = SumOf(AmountOf, ChargesFor(b))
    BY <1>3, FewCharges, SumOfSame
<1>5. SumOf(AmountOf, ChargesFor(b))' = SumOf(AmountOf', ChargesFor(b)')
    OBVIOUS
<1>6. CardTotal(b)' = SumOf(AmountOf, ChargesFor(b))'
    BY DEF CardTotal, AmountOf, ChargesFor
<1> QED
    BY <1>2, <1>4, <1>5, <1>6, CardTotalOfCharges

\* A charge that is recorded counts for its booking.
LEMMA CardTotalGrows ==
    ASSUME TypeOK, RecordedInv, NEW c \in Charges, c \notin recorded,
           recorded' = recorded \union {c}, UNCHANGED charges, NEW b \in BookingIds
    PROVE  CardTotal(b)' = CardTotal(b)
                               + (IF charges[c].booking = b THEN charges[c].amount ELSE 0)
<1>1. AmountOf' = AmountOf /\ AmountOf[c] = charges[c].amount
    BY DEF AmountOf
<1>2. CardTotal(b)' = SumOf(AmountOf', ChargesFor(b)')
    <2>1. CardTotal(b)' = SumOf(AmountOf, ChargesFor(b))'
        BY DEF CardTotal, AmountOf, ChargesFor
    <2>2. SumOf(AmountOf, ChargesFor(b))' = SumOf(AmountOf', ChargesFor(b)')
        OBVIOUS
    <2> QED
        BY <2>1, <2>2
<1>3. CASE charges[c].booking = b
    <2>1. ChargesFor(b)' = ChargesFor(b) \union {c} /\ c \notin ChargesFor(b)
        BY <1>3 DEF ChargesFor
    <2>2. SumOf(AmountOf, ChargesFor(b) \union {c}) = SumOf(AmountOf, ChargesFor(b)) + AmountOf[c]
        BY <2>1, FewCharges, SumOfMore
    <2> QED
        BY <1>1, <1>2, <1>3, <2>1, <2>2, CardTotalOfCharges
<1>4. CASE charges[c].booking # b
    <2>1. ChargesFor(b)' = ChargesFor(b)
        BY <1>4 DEF ChargesFor
    <2> QED
        BY <1>1, <1>2, <1>4, <2>1, FewCharges, CardTotalOfCharges
<1> QED
    BY <1>3, <1>4

LEMMA RecordedStep ==
    ASSUME TypeOK, BaseInv, RecordedInv, [Next]_vars
    PROVE  RecordedInv'
<1>1. CASE UNCHANGED recorded
    <2>1. recorded \subseteq Charges
        BY DEF TypeOK, LiqPayTypeOK
    <2> QED
        BY <1>1, <2>1, ChargesLast DEF RecordedInv
<1>2. ASSUME NEW h \in Hooks, CommitSuccess(h) PROVE RecordedInv'
    <2>1. PICK c \in Charges : /\ recorded' = recorded \union {c}
                               /\ charges[c].state # "none" /\ UNCHANGED charges
        BY <1>2, CommitSuccessEffect DEF BaseInv
    <2>2. IsFiniteSet(recorded')
        BY <2>1, FS_AddElement DEF RecordedInv
    <2> QED
        BY <2>1, <2>2 DEF RecordedInv
<1> QED
    BY <1>1, <1>2, WhoBooks

LEMMA RecordedInit == Init => RecordedInv
BY FS_EmptySet DEF Init, LiqPayInit, RecordedInv

\* A step that is no desk's books what it records.
LEMMA BookedIsRecorded ==
    ASSUME TypeOK, TypeOK', BaseInv, RecordedInv, [Next]_vars, UNCHANGED desk, NEW b \in BookingIds
    PROVE  Received(b)' - Received(b) = CardTotal(b)' - CardTotal(b)
<1>1. Received(b) \in Int /\ CardTotal(b) \in Int
    BY FewCharges, ReceivedType DEF TypeOK
<1>2. CASE UNCHANGED recorded /\ Received(b)' = Received(b)
    BY <1>1, <1>2, CardTotalKept
<1>3. CASE UNCHANGED <<payments, recorded>>
    BY <1>2, <1>3 DEF Received
<1>4. ASSUME NEW d \in Desks, CommitAddPayment(d) \/ CommitCancel(d) PROVE FALSE
    <2>1. desk[d].op # "idle" /\ desk'[d] = NoRequest
        BY <1>4, WritersEnd
    <2> QED
        BY <2>1 DEF NoRequest
<1>5. ASSUME NEW c \in Charges, HandleReversal(c), UNCHANGED recorded
      PROVE  Received(b)' - Received(b) = CardTotal(b)' - CardTotal(b)
    BY <1>2, <1>5, HandleReversalRefund
<1>6. ASSUME NEW h \in Hooks, CommitSuccess(h)
      PROVE  Received(b)' - Received(b) = CardTotal(b)' - CardTotal(b)
    <2>1. PICK c \in Charges, x \in BookingIds :
              /\ charges[c].booking = x /\ charges[c].amount \in Nat /\ UNCHANGED charges
              /\ c \notin recorded /\ recorded' = recorded \union {c}
              /\ Received(x)' = Received(x) + charges[c].amount
              /\ \A y \in BookingIds : y # x => Received(y)' = Received(y)
        BY <1>6, CommitSuccessEffect DEF BaseInv
    <2>2. CardTotal(b)' = CardTotal(b) + (IF x = b THEN charges[c].amount ELSE 0)
        BY <2>1, CardTotalGrows
    <2>3. Received(b)' = Received(b) + (IF x = b THEN charges[c].amount ELSE 0)
        <3>1. CASE x = b
            BY <2>1, <3>1
        <3>2. CASE x # b
            BY <1>1, <2>1, <3>2
        <3> QED
            BY <3>1, <3>2
    <2> QED
        BY <1>1, <2>1, <2>2, <2>3
<1> QED
    BY <1>3, <1>4, <1>5, <1>6, WhoBooks

\* However callbacks are delivered again, overlap or run beside desks, the
\* receipts of a booking grow by the charges recorded for it and by nothing
\* else that is not a desk's.
THEOREM ChargesAreBookedOnce == Spec => ChargeBookedOnce
<1> DEFINE Inv == TypeOK /\ BaseInv /\ RecordedInv
<1>1. Init => Inv
    BY InitType, BaseInit, RecordedInit
<1>2. Inv /\ [Next]_vars => Inv'
    BY StepType, BaseStep, RecordedStep
<1>3. Inv /\ [Next]_vars =>
          [desk' = desk => \A b \in BookingIds :
               Received(b)' - Received(b) = CardTotal(b)' - CardTotal(b)]_vars
    BY StepType, BookedIsRecorded
<1> QED
    BY <1>1, <1>2, <1>3, PTL DEF Spec, ChargeBookedOnce

(***************************************************************************)
(* Where only the gateway takes money, the books match it                  *)
(***************************************************************************)

SamePrice(row, other) ==
    /\ row.total = other.total
    /\ row.depositAmount = other.depositAmount
    /\ row.balanceAmount = other.balanceAmount

\* What a booking counts as paid changes by payments alone; besides, its price
\* is set when it is made, and a reversal calls it unpaid.
LEMMA PaidChanges ==
    ASSUME TypeOK, RowsInv, [Next]_vars, NEW b \in BookingIds
    PROVE  \/ /\ TotalPaid(bookings'[b]) = TotalPaid(bookings[b])
              /\ bookings'[b].paymentStatus \in {bookings[b].paymentStatus, "unpaid"}
              /\ \/ SamePrice(bookings'[b], bookings[b])
                 \/ /\ ~BookingExists(b) /\ bookings'[b].paymentStatus = "unpaid"
                    /\ bookings'[b].depositAmount + bookings'[b].balanceAmount = bookings'[b].total
           \/ \E d \in Desks : desk[d].booking = b /\ CommitAddPayment(d)
           \/ \E h \in Hooks : ChargedBooking(h) = b /\ CommitSuccess(h)
<1> DEFINE Quietly ==
               /\ TotalPaid(bookings'[b]) = TotalPaid(bookings[b])
               /\ bookings'[b].paymentStatus \in {bookings[b].paymentStatus, "unpaid"}
               /\ \/ SamePrice(bookings'[b], bookings[b])
                  \/ /\ ~BookingExists(b) /\ bookings'[b].paymentStatus = "unpaid"
                     /\ bookings'[b].depositAmount + bookings'[b].balanceAmount
                            = bookings'[b].total
<1>1. ASSUME bookings'[b] = bookings[b] PROVE Quietly
    BY <1>1 DEF SamePrice
<1>2. ASSUME NEW d \in Desks, NEW t \in Tours, NEW offer \in Offers,
             NEW agent \in EffectiveAgents(d), CreateBooking(d, b, t, offer, agent)
      PROVE  Quietly
    <2>1. ~BookingExists(b) /\ bookings[b] = NoBookingRow
        BY <1>2 DEF CreateBooking, RowsInv
    <2>2. offer.total \in Int /\ offer.deposit \in Int
        BY RequestAssumption
    <2>3. /\ bookings'[b].depositPaid = 0 /\ bookings'[b].balancePaid = 0
          /\ bookings'[b].paymentStatus = "unpaid" /\ bookings'[b].total = offer.total
          /\ bookings'[b].depositAmount = offer.deposit
          /\ bookings'[b].balanceAmount = offer.total - offer.deposit
        BY <1>2 DEF CreateBooking, NoBookingRow, TypeOK, BookingsTypeOK
    <2>4. bookings[b].depositPaid = 0 /\ bookings[b].balancePaid = 0
        BY <2>1 DEF NoBookingRow
    <2>5. bookings'[b].depositAmount + bookings'[b].balanceAmount = bookings'[b].total
        BY <2>2, <2>3
    <2> QED
        BY <2>1, <2>3, <2>4, <2>5 DEF TotalPaid
<1>3. ASSUME /\ bookings'[b].depositPaid = bookings[b].depositPaid
             /\ bookings'[b].balancePaid = bookings[b].balancePaid
             /\ SamePrice(bookings'[b], bookings[b])
             /\ bookings'[b].paymentStatus \in {bookings[b].paymentStatus, "unpaid"}
      PROVE  Quietly
    BY <1>3 DEF TotalPaid
<1>4. ASSUME NEW d \in Desks, desk[d].booking = b, CommitChangeStatus(d) \/ CommitCancel(d)
      PROVE  Quietly
    <2>1. CASE CommitChangeStatus(d)
        BY <1>3, <1>4, <2>1 DEF CommitChangeStatus, SamePrice, TypeOK, BookingsTypeOK, BookingRow
    <2>2. CASE CommitCancel(d)
        BY <1>3, <1>4, <2>2 DEF CommitCancel, SamePrice, TypeOK, BookingsTypeOK, BookingRow
    <2> QED
        BY <1>4, <2>1, <2>2
<1>5. ASSUME NEW c \in Charges, charges[c].booking = b, HandleReversal(c) PROVE Quietly
    BY <1>3, <1>5 DEF HandleReversal, SamePrice, TypeOK, BookingsTypeOK, BookingRow
<1> HIDE DEF Quietly
<1>6. \/ Quietly
      \/ \E d \in Desks : desk[d].booking = b /\ CommitAddPayment(d)
      \/ \E h \in Hooks : ChargedBooking(h) = b /\ CommitSuccess(h)
    BY <1>1, <1>2, <1>4, <1>5, RowChanges
<1> QED
    BY <1>6 DEF Quietly

\* Only what a desk may take is in flight.
LEMMA DeskPaymentsStep ==
    ASSUME TypeOK, DeskPaymentsInv, [Next]_vars
    PROVE  DeskPaymentsInv'
<1> SUFFICES ASSUME NEW d \in Desks, desk'[d].op = "payment"
             PROVE  desk'[d].type \in DeskTypes /\ desk'[d].amount \in Amounts
    BY DEF DeskPaymentsInv
<1>1. desk'[d] # NoRequest
    BY DEF NoRequest
<1> QED
    BY <1>1, DeskChanges DEF DeskPaymentsInv, Starts

LEMMA DeskPaymentsInit == Init => DeskPaymentsInv
BY DEF Init, BookingsInit, NoRequest, DeskPaymentsInv

\* No desk takes a deposit or a balance.
OnlyCards == Amounts = {} \/ DeskTypes \intersect {"deposit", "balance"} = {}

LEMMA BooksMatchStep ==
    ASSUME TypeOK, TypeOK', BaseInv, OrderInv, RecordedInv, DeskPaymentsInv, OnlyCards,
           BooksMatchGateway, [Next]_vars
    PROVE  BooksMatchGateway'
<1> SUFFICES ASSUME NEW b \in BookingIds PROVE TotalPaid(bookings'[b]) = CardTotal(b)'
    BY DEF BooksMatchGateway, CardTotal, TotalPaid
<1>1. TotalPaid(bookings[b]) = CardTotal(b)
    BY DEF BooksMatchGateway
<1>2. ASSUME NEW h \in Hooks, CommitSuccess(h) PROVE TotalPaid(bookings'[b]) = CardTotal(b)'
    <2>1. PICK c \in Charges, x \in BookingIds, seen \in BookingRow :
              /\ x = ChargedBooking(h) /\ seen = hooks[h].seen
              /\ charges[c].booking = x /\ charges[c].amount \in Nat /\ UNCHANGED charges
              /\ c \notin recorded /\ recorded' = recorded \union {c}
              /\ TotalPaid(bookings'[x]) = TotalPaid(seen) + charges[c].amount
              /\ \A y \in BookingIds : y # x => bookings'[y] = bookings[y]
        BY <1>2, CommitSuccessEffect DEF BaseInv
    <2>2. seen = bookings[x]
        BY <1>2, <2>1 DEF CommitSuccess, OrderInv, FreshReads
    <2>3. CardTotal(b)' = CardTotal(b) + (IF x = b THEN charges[c].amount ELSE 0)
        BY <2>1, CardTotalGrows
    <2>4. CardTotal(b) \in Int
        BY FewCharges
    <2>5. CASE x = b
        BY <1>1, <2>1, <2>2, <2>3, <2>5
    <2>6. CASE x # b
        BY <1>1, <2>1, <2>3, <2>4, <2>6
    <2> QED
        BY <2>5, <2>6
<1>3. ASSUME NEW d \in Desks, desk[d].booking = b, CommitAddPayment(d)
      PROVE  TotalPaid(bookings'[b]) = TotalPaid(bookings[b])
    <2>1. PICK x \in BookingIds, seen \in BookingRow, type \in PaymentTypes, amount \in Nat :
              /\ x = desk[d].booking /\ seen = desk[d].seen /\ desk[d].op = "payment"
              /\ type = desk[d].type /\ amount = desk[d].amount
              /\ bookings'[x].depositPaid =
                    IF type = "deposit"
                    THEN Credit(seen.depositPaid, amount, seen.depositAmount)
                    ELSE seen.depositPaid
              /\ bookings'[x].balancePaid =
                    IF type = "balance"
                    THEN Credit(seen.balancePaid, amount, seen.balanceAmount)
                    ELSE seen.balancePaid
        BY <1>3, CommitAddPaymentEffect DEF BaseInv
    <2>2. type \notin {"deposit", "balance"}
        BY <2>1 DEF DeskPaymentsInv, OnlyCards
    <2>3. seen = bookings[b]
        BY <1>3, <2>1 DEF OrderInv, FreshReads
    <2> QED
        BY <1>3, <2>1, <2>2, <2>3 DEF TotalPaid
<1>4. ASSUME UNCHANGED recorded, TotalPaid(bookings'[b]) = TotalPaid(bookings[b])
      PROVE  TotalPaid(bookings'[b]) = CardTotal(b)'
    BY <1>1, <1>4, CardTotalKept
<1>5. CASE UNCHANGED recorded
    <2>1. ASSUME NEW h \in Hooks, CommitSuccess(h) PROVE FALSE
        BY <1>5, <2>1 DEF CommitSuccess, ExternalIdFree
    <2> QED
        BY <1>3, <1>4, <1>5, <2>1, PaidChanges DEF BaseInv
<1> QED
    BY <1>2, <1>5, WhoBooks

LEMMA BooksMatchInit == Init => BooksMatchGateway
<1> SUFFICES ASSUME Init, NEW b \in BookingIds PROVE TotalPaid(bookings[b]) = CardTotal(b)
    BY DEF BooksMatchGateway
<1>1. TotalPaid(bookings[b]) = 0
    BY DEF Init, BookingsInit, NoBookingRow, TotalPaid
<1>2. ChargesFor(b) = {}
    BY DEF Init, LiqPayInit, ChargesFor
<1> QED
    BY <1>1, <1>2, SumOfNone, CardTotalOfCharges

\* Where no two requests work on one booking and no desk takes a deposit or a
\* balance, every charge recorded counts, and nothing else does.
THEOREM BooksMatchTheGateway ==
    ASSUME "booking" \notin Contention,
           Amounts = {} \/ DeskTypes \intersect {"deposit", "balance"} = {}
    PROVE  Spec => []BooksMatchGateway
<1> DEFINE Inv == /\ TypeOK /\ BaseInv /\ OrderInv /\ RecordedInv
                  /\ DeskPaymentsInv /\ BooksMatchGateway
<1>1. Init => Inv
    BY InitType, BaseInit, OrderInit, RecordedInit, DeskPaymentsInit, BooksMatchInit
<1>2. Inv /\ [Next]_vars => Inv'
    BY StepType, BaseStep, OrderStep, RecordedStep, DeskPaymentsStep, BooksMatchStep DEF OnlyCards
<1> QED
    BY <1>1, <1>2, PTL DEF Spec

(***************************************************************************)
(* No more is paid back than was received                                  *)
(***************************************************************************)

\* A cancellation pays back at most what the booking counts as paid.
LEMMA RefundWithinPaid ==
    ASSUME NEW row \in BookingRow, NEW cancelType, NEW policy \in Policies, NEW days \in DaysAhead
    PROVE  RefundAmount(row, cancelType, policy, days) <= Greatest(0, TotalPaid(row))
<1>1. TotalPaid(row) \in Int /\ row.total \in Nat
    BY DEF TotalPaid, BookingRow
<1>2. CASE policy = NoPolicy \/ cancelType = "operator"
    BY <1>1, <1>2 DEF RefundAmount, Greatest
<1>3. CASE policy # NoPolicy /\ cancelType # "operator"
    <2>1. PenaltyPct(policy, days) \in Nat
        BY <1>3, PolicyAssumption, PenaltyPctType
    <2>2. ASSUME NEW pct \in Nat PROVE PenaltyAmount(row.total, pct) \in Nat
        <3>1. row.total * pct \in Nat
            BY <1>1
        <3>2. 2 * row.total * pct + 100 \in Nat
            BY <1>1, <3>1
        <3> QED
            BY <3>2 DEF PenaltyAmount
    <2>3. PenaltyAmount(row.total, PenaltyPct(policy, days)) \in Nat
        BY <2>1, <2>2
    <2> QED
        BY <1>1, <1>3, <2>3 DEF RefundAmount, Greatest
<1> QED
    BY <1>2, <1>3

LEMMA ReceiptsOnlyGrow ==
    ASSUME TypeOK, RequestsInv, [Next]_vars, NEW b \in BookingIds
    PROVE  Received(b)' >= Received(b)
<1>1. Received(b) \in Int
    BY ReceivedType DEF TypeOK
<1>2. CASE Received(b)' = Received(b)
    BY <1>1, <1>2
<1>3. CASE UNCHANGED payments
    BY <1>2, <1>3 DEF Received
<1>4. ASSUME NEW d \in Desks, CommitAddPayment(d) PROVE Received(b)' >= Received(b)
    <2>1. PICK x \in BookingIds, type \in PaymentTypes, amount \in Nat :
              payments' = [payments EXCEPT ![x][type] = @ + amount]
        BY <1>4, CommitAddPaymentEffect
    <2> QED
        BY <2>1 DEF Received, TypeOK, BookingsTypeOK, PaymentTypes
<1>5. ASSUME NEW d \in Desks, CommitCancel(d) PROVE Received(b)' = Received(b)
    BY <1>5, CommitCancelRefund
<1>6. ASSUME NEW c \in Charges, HandleReversal(c) PROVE Received(b)' = Received(b)
    BY <1>6, HandleReversalRefund
<1>7. ASSUME NEW h \in Hooks, CommitSuccess(h) PROVE Received(b)' >= Received(b)
    <2>1. PICK c \in Charges, x \in BookingIds :
              /\ charges[c].amount \in Nat /\ Received(x)' = Received(x) + charges[c].amount
              /\ \A y \in BookingIds : y # x => Received(y)' = Received(y)
        BY <1>7, CommitSuccessEffect
    <2>2. CASE b = x
        BY <1>1, <2>1, <2>2
    <2>3. CASE b # x
        BY <1>1, <2>1, <2>3
    <2> QED
        BY <2>2, <2>3
<1> QED
    BY <1>2, <1>3, <1>4, <1>5, <1>6, <1>7, WhoBooks

\* Refunds are paid by cancellations alone.
LEMMA RefundChanges ==
    ASSUME TypeOK, TypeOK', BaseInv, DeskPaymentsInv, "refund" \notin DeskTypes, [Next]_vars,
           NEW b \in BookingIds
    PROVE  \/ payments'[b]["refund"] <= payments[b]["refund"]
           \/ \E d \in Desks :
                 /\ CommitCancel(d) /\ desk[d].booking = b
                 /\ payments'[b]["refund"] = payments[b]["refund"] + desk[d].refund
<1> USE DEF BaseInv
<1>1. payments[b]["refund"] \in Int /\ payments'[b]["refund"] \in Int
    BY DEF TypeOK, BookingsTypeOK, PaymentTypes
<1>2. CASE payments'[b]["refund"] = payments[b]["refund"]
    BY <1>1, <1>2
<1>3. ASSUME NEW d \in Desks, CommitAddPayment(d)
      PROVE  payments'[b]["refund"] = payments[b]["refund"]
    <2>1. PICK x \in BookingIds, type \in PaymentTypes, amount \in Nat :
              /\ type = desk[d].type /\ desk[d].op = "payment"
              /\ payments' = [payments EXCEPT ![x][type] = @ + amount]
        BY <1>3, CommitAddPaymentEffect
    <2>2. type # "refund"
        BY <2>1 DEF DeskPaymentsInv
    <2> QED
        BY <2>1, <2>2 DEF TypeOK, BookingsTypeOK, PaymentTypes
<1>4. ASSUME NEW d \in Desks, CommitCancel(d)
      PROVE  \/ payments'[b]["refund"] = payments[b]["refund"]
             \/ /\ desk[d].booking = b
                /\ payments'[b]["refund"] = payments[b]["refund"] + desk[d].refund
    BY <1>4, CommitCancelRefund
<1>5. ASSUME NEW c \in Charges, HandleReversal(c)
      PROVE  payments'[b]["refund"] <= payments[b]["refund"]
    <2>1. charges[c].amount \in Nat
        BY DEF TypeOK, LiqPayTypeOK, Charge
    <2> QED
        BY <1>1, <1>5, <2>1, HandleReversalRefund
<1>6. ASSUME NEW h \in Hooks, CommitSuccess(h)
      PROVE  payments'[b]["refund"] = payments[b]["refund"]
    BY <1>6, CommitSuccessEffect
<1> QED
    BY <1>2, <1>3, <1>4, <1>5, <1>6, WhoBooks

\* Seats that have been given back stay given back.
LEMMA ReleasedStays ==
    ASSUME TypeOK, BaseInv, [Next]_vars, NEW b \in BookingIds,
           bookings[b].commission = "cancelled"
    PROVE  bookings'[b].commission = "cancelled"
<1> USE DEF BaseInv
<1>1. BookingExists(b)
    <2>1. NoBookingRow.commission = "none"
        BY DEF NoBookingRow
    <2> QED
        BY <2>1 DEF RowsInv
<1>2. CASE UNCHANGED bookings
    BY <1>2
<1>3. ASSUME NEW d \in Desks, NEW x \in BookingIds, NEW t \in Tours, NEW offer \in Offers,
             NEW agent \in EffectiveAgents(d), CreateBooking(d, x, t, offer, agent)
      PROVE  bookings'[b] = bookings[b]
    BY <1>1, <1>3, CreateBookingEffect
<1>4. ASSUME NEW d \in Desks, CommitCancel(d) PROVE bookings'[b].commission = "cancelled"
    BY <1>4, CommitCancelEffect
<1>5. CASE Quiet
    BY <1>5 DEF Quiet, Kept
<1> QED
    BY <1>2, <1>3, <1>4, <1>5, StepKinds DEF bookingVars

LEMMA RefundsStep ==
    ASSUME TypeOK, TypeOK', BaseInv, OrderInv, MoneyInv, DeskPaymentsInv, RefundsInv,
           "refund" \notin DeskTypes, [Next]_vars
    PROVE  RefundsInv'
<1>1. \A b \in BookingIds : /\ Received(b) \in Int /\ Received(b)' \in Int
                            /\ payments[b]["refund"] \in Int /\ payments'[b]["refund"] \in Int
    BY DEF TypeOK, BookingsTypeOK, PaymentTypes, Received
<1>2. \A b \in BookingIds : Received(b)' >= Received(b)
    BY ReceiptsOnlyGrow DEF BaseInv
<1>3. ASSUME NEW d \in Desks, CommitCancel(d)
      PROVE  /\ bookings[desk[d].booking].commission # "cancelled"
             /\ bookings'[desk[d].booking].commission = "cancelled"
             /\ desk[d].refund \in Int /\ desk[d].refund <= Received(desk[d].booking)
    <2>1. desk[d].op = "cancel" /\ bookings'[desk[d].booking].commission = "cancelled"
        BY <1>3, CommitCancelEffect DEF BaseInv
    <2>2. desk[d].refund \in Int
        BY DEF TypeOK, BookingsTypeOK, DeskRequest
    <2> QED
        BY <1>3, <2>1, <2>2, CancelsHolding DEF Holding, RefundsInv
<1>4. ASSUME NEW b \in BookingIds PROVE payments'[b]["refund"] <= Received(b)'
    <2>1. payments[b]["refund"] <= Received(b)
        BY DEF RefundsInv, RefundsBacked
    <2>2. CASE payments'[b]["refund"] <= payments[b]["refund"]
        BY <1>1, <1>2, <2>1, <2>2
    <2>3. ASSUME NEW d \in Desks, CommitCancel(d), desk[d].booking = b,
                 payments'[b]["refund"] = payments[b]["refund"] + desk[d].refund
          PROVE  payments'[b]["refund"] <= Received(b)'
        <3>1. /\ bookings[b].commission # "cancelled" /\ desk[d].refund \in Int
              /\ desk[d].refund <= Received(b)
            BY <1>3, <2>3
        <3>2. payments[b]["refund"] <= 0
            BY <3>1 DEF RefundsInv
        <3> QED
            BY <1>1, <1>2, <2>3, <3>1, <3>2
    <2> QED
        BY <2>2, <2>3, RefundChanges
<1>5. ASSUME NEW b \in BookingIds, bookings'[b].commission # "cancelled"
      PROVE  payments'[b]["refund"] <= 0
    <2>1. payments[b]["refund"] <= 0
        BY <1>5, ReleasedStays DEF RefundsInv
    <2>2. ~\E d \in Desks : CommitCancel(d) /\ desk[d].booking = b
        BY <1>3, <1>5
    <2> QED
        BY <1>1, <2>1, <2>2, RefundChanges
<1>6. ASSUME NEW d \in Desks, desk'[d].op = "cancel"
      PROVE  desk'[d].refund <= payments'[desk'[d].booking]["deposit"]
                                    + payments'[desk'[d].booking]["balance"]
    <2>1. CASE desk'[d] = desk[d]
        <3>1. PICK b \in BookingIds : b = desk[d].booking /\ desk[d].refund \in Int
            BY DEF TypeOK, BookingsTypeOK, DeskRequest
        <3>2. desk[d].refund <= Received(b)
            BY <1>6, <2>1, <3>1 DEF RefundsInv
        <3>3. desk[d].refund <= Received(b)'
            BY <1>1, <1>2, <3>1, <3>2
        <3> QED
            BY <2>1, <3>1, <3>3 DEF Received
    <2>2. ASSUME NEW b \in BookingIds, Starts(d, b)
          PROVE  desk'[d].refund <= payments'[desk'[d].booking]["deposit"]
                                        + payments'[desk'[d].booking]["balance"]
        <3>1. PICK cancelType \in CancelTypes, policy \in Policies, days \in DaysAhead :
                  desk'[d].refund = RefundAmount(bookings[b], cancelType, policy, days)
            BY <1>6, <2>2 DEF Starts
        <3>2. bookings[b] \in BookingRow
            BY DEF TypeOK, BookingsTypeOK
        <3>3. /\ desk'[d].refund <= Greatest(0, TotalPaid(bookings[b]))
              /\ desk'[d].refund \in Int /\ TotalPaid(bookings[b]) \in Int
            BY <3>1, <3>2, RefundWithinPaid, RefundAmountType, TotalPaidType
        <3>4. TotalPaid(bookings[b]) <= Received(b) /\ 0 <= Received(b)
            BY DEF MoneyInv, PaidIsBacked, ReceiptsNeverNegative, Received,
                   TypeOK, BookingsTypeOK, PaymentTypes
        <3>5. desk'[d].refund <= Received(b)
            BY <1>1, <3>3, <3>4 DEF Greatest
        <3> QED
            BY <2>2, <3>5 DEF Starts, Received
    <2>3. desk'[d] # NoRequest
        BY <1>6 DEF NoRequest
    <2> QED
        BY <2>1, <2>2, <2>3, DeskChanges
<1> QED
    BY <1>4, <1>5, <1>6 DEF RefundsInv, RefundsBacked, Received

LEMMA RefundsInit == Init => RefundsInv
<1> SUFFICES ASSUME Init PROVE RefundsInv
    OBVIOUS
<1>1. \A b \in BookingIds : \A type \in PaymentTypes : payments[b][type] = 0
    BY DEF Init, BookingsInit
<1>2. \A b \in BookingIds : Received(b) = 0 /\ payments[b]["refund"] = 0
    BY <1>1 DEF Received, PaymentTypes
<1>3. \A d \in Desks : desk[d].op = "idle"
    BY DEF Init, BookingsInit, NoRequest
<1> QED
    BY <1>2, <1>3 DEF RefundsInv, RefundsBacked

\* Where no two requests work on one booking and refunds are booked by
\* cancellations and reversals only, no more is paid back than was received.
THEOREM RefundsAreBacked ==
    ASSUME "booking" \notin Contention, "refund" \notin DeskTypes
    PROVE  Spec => []RefundsBacked
<1> DEFINE Inv == TypeOK /\ BaseInv /\ OrderInv /\ MoneyInv /\ DeskPaymentsInv /\ RefundsInv
<1>1. Init => Inv
    BY InitType, BaseInit, OrderInit, MoneyInit, DeskPaymentsInit, RefundsInit
<1>2. Inv /\ [Next]_vars => Inv'
    BY StepType, BaseStep, OrderStep, MoneyStep, DeskPaymentsStep, RefundsStep
<1>3. Inv => RefundsBacked
    BY DEF RefundsInv
<1> QED
    BY <1>1, <1>2, <1>3, PTL DEF Spec

(***************************************************************************)
(* Fully paid means paid                                                   *)
(***************************************************************************)

\* Payments come from the desks alone or from the gateway alone.
OneTill == Hooks = {} \/ Amounts = {}

\* A booking keeps its total, and what is read of it keeps its own.
LEMMA TotalLasts ==
    ASSUME TypeOK, BaseInv, [Next]_vars, NEW b \in BookingIds, BookingExists(b)
    PROVE  bookings'[b].total = bookings[b].total
<1> USE DEF BaseInv
<1>1. CASE UNCHANGED bookings
    BY <1>1
<1>2. ASSUME NEW d \in Desks, NEW x \in BookingIds, NEW t \in Tours, NEW offer \in Offers,
             NEW agent \in EffectiveAgents(d), CreateBooking(d, x, t, offer, agent)
      PROVE  bookings'[b] = bookings[b]
    BY <1>2, CreateBookingEffect
<1>3. ASSUME NEW d \in Desks, CommitCancel(d) PROVE bookings'[b].total = bookings[b].total
    BY <1>3 DEF CommitCancel, TypeOK, BookingsTypeOK, BookingRow
<1>4. CASE Quiet
    BY <1>4 DEF Quiet, Kept
<1> QED
    BY <1>1, <1>2, <1>3, <1>4, StepKinds DEF bookingVars

LEMMA PricesStep ==
    ASSUME TypeOK, BaseInv, PricesInv, [Next]_vars
    PROVE  PricesInv'
<1>1. ASSUME NEW b \in BookingIds PROVE Composed(bookings'[b])
    <2>1. Composed(bookings[b])
        BY DEF PricesInv
    <2>2. CASE SamePrice(bookings'[b], bookings[b])
        BY <2>1, <2>2 DEF Composed, SamePrice
    <2>3. CASE bookings'[b].depositAmount + bookings'[b].balanceAmount = bookings'[b].total
        BY <2>3 DEF Composed
    <2>4. ASSUME NEW d \in Desks, desk[d].booking = b, CommitAddPayment(d)
          PROVE  SamePrice(bookings'[b], bookings[b])
        <3>1. bookings'[b].balanceAmount = bookings[b].balanceAmount
            BY <2>4, CommitAddPaymentEffect DEF BaseInv
        <3>2. Kept(b)
            BY <2>4, CommitAddPaymentKeeps DEF BaseInv
        <3> QED
            BY <3>1, <3>2 DEF SamePrice, Kept
    <2>5. ASSUME NEW h \in Hooks PROVE Composed(bookings'[b])
        BY <2>5 DEF Composed
    <2> QED
        BY <2>2, <2>3, <2>4, <2>5, PaidChanges DEF BaseInv
<1>2. ASSUME NEW d \in Desks, desk'[d].op = "payment"
      PROVE  Composed(desk'[d].seen) /\ desk'[d].seen.total = bookings'[desk'[d].booking].total
    <2>1. CASE desk'[d] = desk[d]
        BY <1>2, <2>1, RequestedExist, TotalLasts DEF PricesInv, BaseInv
    <2>2. ASSUME NEW b \in BookingIds, Starts(d, b)
          PROVE  Composed(desk'[d].seen) /\ desk'[d].seen.total = bookings'[desk'[d].booking].total
        BY <1>2, <2>2 DEF Starts, PricesInv
    <2>3. desk'[d] # NoRequest
        BY <1>2 DEF NoRequest
    <2> QED
        BY <2>1, <2>2, <2>3, DeskChanges
<1>3. ASSUME NEW h \in Hooks, hooks'[h].busy
      PROVE  hooks'[h].seen.total = bookings'[ChargedBooking(h)'].total
    <2>1. CASE hooks'[h] = hooks[h]
        <3>1. ChargedBooking(h)' = ChargedBooking(h) /\ hooks[h].busy
            BY <1>3, <2>1, CallbackKeepsBooking
        <3>2. ChargedBooking(h) \in BookingIds /\ BookingExists(ChargedBooking(h))
            BY <3>1, ChargedExist DEF BaseInv
        <3>3. bookings'[ChargedBooking(h)].total = bookings[ChargedBooking(h)].total
            BY <3>2, TotalLasts
        <3> QED
            BY <2>1, <3>1, <3>3 DEF PricesInv
    <2>2. ASSUME NEW c \in Charges, Fetches(h, c)
          PROVE  hooks'[h].seen.total = bookings'[ChargedBooking(h)'].total
        BY <2>2 DEF Fetches, bookingVars, ChargedBooking
    <2> QED
        BY <1>3, <2>1, <2>2, HookChanges
<1> QED
    BY <1>1, <1>2, <1>3 DEF PricesInv

LEMMA PricesInit == Init => PricesInv
<1> SUFFICES ASSUME Init PROVE PricesInv
    OBVIOUS
<1>1. \A b \in BookingIds : Composed(bookings[b])
    BY DEF Init, BookingsInit, NoBookingRow, Composed
<1>2. \A d \in Desks : desk[d].op = "idle"
    BY DEF Init, BookingsInit, NoRequest
<1>3. \A h \in Hooks : ~hooks[h].busy
    BY DEF Init, LiqPayInit, NoHook
<1> QED
    BY <1>1, <1>2, <1>3 DEF PricesInv

LEMMA FullyPaidStep ==
    ASSUME TypeOK, TypeOK', BaseInv, DeskPaymentsInv, PricesInv, OneTill, FullyPaidMeansPaid,
           [Next]_vars
    PROVE  FullyPaidMeansPaid'
<1> SUFFICES ASSUME NEW b \in BookingIds, bookings'[b].paymentStatus = "fully_paid"
             PROVE  TotalPaid(bookings'[b]) >= bookings'[b].total
    BY DEF FullyPaidMeansPaid, TotalPaid
<1>1. ASSUME NEW d \in Desks, desk[d].booking = b, CommitAddPayment(d)
      PROVE  TotalPaid(bookings'[b]) >= bookings'[b].total
    <2>1. PICK x \in BookingIds, seen \in BookingRow :
              /\ x = desk[d].booking /\ seen = desk[d].seen /\ desk[d].op = "payment"
              /\ BookingExists(x)
              /\ bookings'[x].paymentStatus =
                    ComputePaymentStatus(bookings'[x].depositPaid, seen.depositAmount,
                                         bookings'[x].balancePaid, seen.balanceAmount)
        BY <1>1, CommitAddPaymentEffect DEF BaseInv
    <2>2. Hooks = {}
        BY <2>1 DEF OneTill, DeskPaymentsInv
    <2>3. seen.depositAmount + seen.balanceAmount = seen.total /\ seen.total = bookings[b].total
        BY <1>1, <2>1, <2>2 DEF PricesInv, Composed
    <2>4. bookings'[b].total = bookings[b].total
        BY <1>1, <2>1, TotalLasts
    <2>5. bookings'[b].depositPaid + bookings'[b].balancePaid
              >= seen.depositAmount + seen.balanceAmount
        BY <1>1, <2>1 DEF ComputePaymentStatus
    <2> QED
        BY <2>3, <2>4, <2>5 DEF TotalPaid
<1>2. ASSUME NEW h \in Hooks, ChargedBooking(h) = b, CommitSuccess(h)
      PROVE  TotalPaid(bookings'[b]) >= bookings'[b].total
    <2>1. PICK x \in BookingIds, seen \in BookingRow :
              /\ x = ChargedBooking(h) /\ seen = hooks[h].seen /\ BookingExists(x)
              /\ bookings'[x].paymentStatus =
                     ResolvePaymentStatus(TotalPaid(bookings'[x]), seen.depositAmount, seen.total)
        BY <1>2, CommitSuccessEffect DEF BaseInv
    <2>2. seen.total = bookings[b].total /\ bookings'[b].total = bookings[b].total
        BY <1>2, <2>1, TotalLasts DEF CommitSuccess, PricesInv
    <2>3. TotalPaid(bookings'[b]) >= seen.total
        BY <1>2, <2>1 DEF ResolvePaymentStatus
    <2> QED
        BY <2>2, <2>3
<1>3. ASSUME TotalPaid(bookings'[b]) = TotalPaid(bookings[b]),
             bookings'[b].paymentStatus = bookings[b].paymentStatus,
             SamePrice(bookings'[b], bookings[b])
      PROVE  TotalPaid(bookings'[b]) >= bookings'[b].total
    BY <1>3 DEF FullyPaidMeansPaid, SamePrice
<1> QED
    BY <1>1, <1>2, <1>3, PaidChanges DEF BaseInv

\* However requests interleave, a booking called fully paid has had its total,
\* where its payments come from the desks alone or from the gateway alone.
THEOREM FullyPaidIsPaid ==
    ASSUME Hooks = {} \/ Amounts = {}
    PROVE  Spec => []FullyPaidMeansPaid
<1> DEFINE Inv == TypeOK /\ BaseInv /\ DeskPaymentsInv /\ PricesInv /\ FullyPaidMeansPaid
<1>1. Init => Inv
    <2>1. Init => FullyPaidMeansPaid
        BY DEF Init, BookingsInit, NoBookingRow, FullyPaidMeansPaid
    <2> QED
        BY <2>1, InitType, BaseInit, DeskPaymentsInit, PricesInit
<1>2. Inv /\ [Next]_vars => Inv'
    BY StepType, BaseStep, DeskPaymentsStep, PricesStep, FullyPaidStep DEF OneTill
<1> QED
    BY <1>1, <1>2, PTL DEF Spec

=============================================================================
