----------------------------- MODULE BookingsProofs -----------------------------
(***************************************************************************)
(* The handlers of Bookings keep the tours, the bookings, the payments and *)
(* the requests of the desks well formed, whatever else runs beside them.  *)
(***************************************************************************)
EXTENDS Bookings, SumsProofs

(***************************************************************************)
(* Amounts                                                                 *)
(***************************************************************************)

\* Whatever the policy, a cancellation has a penalty: of the rules that have
\* been reached, finitely or infinitely many, one is the strictest in days.
LEMMA PenaltyPctType ==
    ASSUME NEW policy, policy \subseteq Rule, NEW days \in Nat
    PROVE  PenaltyPct(policy, days) \in Nat
<1> DEFINE reached == {rule \in policy : days >= rule.days_before}
           left    == {days - rule.days_before : rule \in reached}
<1>1. CASE reached = {}
    BY <1>1 DEF PenaltyPct
<1>2. CASE reached # {}
    <2>1. left \subseteq Nat /\ left # {}
        BY <1>2 DEF Rule
    <2>2. PICK least \in left : \A other \in left : least <= other
        BY <2>1, LeastNatural
    <2>3. PICK rule \in reached : least = days - rule.days_before
        BY <2>2
    <2>4. \A other \in reached : rule.days_before >= other.days_before
        <3> SUFFICES ASSUME NEW other \in reached
                     PROVE  rule.days_before >= other.days_before
            OBVIOUS
        <3>1. days - other.days_before \in left
            OBVIOUS
        <3>2. days - rule.days_before <= days - other.days_before
            BY <2>2, <2>3, <3>1
        <3>3. rule.days_before \in Nat /\ other.days_before \in Nat
            BY DEF Rule
        <3> HIDE DEF reached, left
        <3> QED
            BY <3>2, <3>3
    <2>5. \E strictest \in reached :
              \A other \in reached : strictest.days_before >= other.days_before
        BY <2>3, <2>4
    <2>6. (CHOOSE strictest \in reached :
              \A other \in reached : strictest.days_before >= other.days_before) \in Rule
        BY <2>5
    <2> QED
        BY <1>2, <2>6 DEF PenaltyPct, Rule
<1> QED
    BY <1>1, <1>2

\* A cancellation never pays back a negative amount.
LEMMA RefundAmountType ==
    ASSUME NEW row \in BookingRow, NEW cancelType, NEW policy \in Policies \union {NoPolicy},
           NEW days \in DaysAhead
    PROVE  RefundAmount(row, cancelType, policy, days) \in Nat
<1>1. TotalPaid(row) \in Int /\ row.total \in Nat
    BY DEF TotalPaid, BookingRow
<1>2. CASE policy = NoPolicy \/ cancelType = "operator"
    BY <1>1, <1>2 DEF RefundAmount, Greatest
<1>3. CASE policy # NoPolicy /\ cancelType # "operator"
    <2>1. PenaltyPct(policy, days) \in Nat
        BY <1>3, PolicyAssumption, PenaltyPctType
    <2>2. \A pct \in Nat : PenaltyAmount(row.total, pct) \in Int
        <3> SUFFICES ASSUME NEW pct \in Nat PROVE PenaltyAmount(row.total, pct) \in Int
            OBVIOUS
        <3>1. row.total * pct \in Int
            BY <1>1
        <3>2. 2 * row.total * pct + 100 \in Int
            BY <1>1
        <3> QED
            BY <3>2 DEF PenaltyAmount
    <2> HIDE DEF PenaltyAmount
    <2>3. PenaltyAmount(row.total, PenaltyPct(policy, days)) \in Int
        BY <2>1, <2>2
    <2> QED
        BY <1>1, <1>3, <2>3 DEF RefundAmount, Greatest
<1> QED
    BY <1>2, <1>3

LEMMA ComputePaymentStatusType ==
    ASSUME NEW p, NEW q, NEW r, NEW s
    PROVE  ComputePaymentStatus(p, q, r, s) \in PaymentStatuses
BY DEF ComputePaymentStatus, PaymentStatuses

LEMMA StatusAfterPaymentType ==
    ASSUME NEW status \in Statuses \union {"none"}, NEW paymentStatus
    PROVE  StatusAfterPayment(status, paymentStatus) \in Statuses \union {"none"}
BY DEF StatusAfterPayment, Statuses

(***************************************************************************)
(* Rows                                                                    *)
(***************************************************************************)

LEMMA NoPlanType == NoPlan \in Plan
BY ToursAssumption DEF NoPlan, Plan, TourStatuses

LEMMA NoRequestType == NoBookingRow \in BookingRow /\ NoRequest \in DeskRequest
<1>1. NoBookingRow \in BookingRow
    BY ToursAssumption DEF NoBookingRow, BookingRow, PaymentStatuses, CommissionStatuses
<1> QED
    BY <1>1, BookingIdsAssumption DEF NoRequest, DeskRequest, Statuses, PaymentTypes

\* The updates of a row that the handlers make.
LEMMA PaidRow ==
    ASSUME NEW row \in BookingRow, NEW depositPaid \in Nat, NEW balancePaid \in Int,
           NEW paymentStatus \in PaymentStatuses, NEW status \in Statuses \union {"none"}
    PROVE  [row EXCEPT !.depositPaid = depositPaid, !.balancePaid = balancePaid,
                       !.paymentStatus = paymentStatus, !.status = status] \in BookingRow
BY DEF BookingRow

LEMMA CancelledRow ==
    ASSUME NEW row \in BookingRow, NEW status \in Statuses,
           NEW agentCommission \in CommissionStatuses
    PROVE  [row EXCEPT !.status = status, !.commission = "cancelled",
                       !.agentCommission = agentCommission] \in BookingRow
BY DEF BookingRow, CommissionStatuses

LEMMA NewRow ==
    ASSUME NEW t \in Tours, NEW agent \in Agents \union {NoAgent}, NEW persons \in Nat,
           NEW total \in Nat, NEW deposit \in Nat, NEW balance \in Int,
           NEW commission \in CommissionStatuses
    PROVE  [NoBookingRow EXCEPT !.status = "new", !.tour = t, !.agent = agent,
                   !.persons = persons, !.total = total, !.depositAmount = deposit,
                   !.balanceAmount = balance, !.commission = commission,
                   !.agentCommission = commission] \in BookingRow
BY NoRequestType DEF BookingRow, Statuses

(***************************************************************************)
(* Steps                                                                   *)
(***************************************************************************)

\* The desks keep the bookings, the payments and their requests well formed.
LEMMA CreateBookingType ==
    ASSUME ToursTypeOK, BookingsTypeOK, NEW d \in Desks, NEW b \in BookingIds, NEW t \in Tours,
           NEW offer \in Offers, NEW agent \in EffectiveAgents(d),
           CreateBooking(d, b, t, offer, agent), UNCHANGED plans
    PROVE  ToursTypeOK' /\ BookingsTypeOK'
<1>1. /\ offer.persons \in Nat /\ offer.total \in Nat /\ offer.deposit \in Nat
      /\ offer.total - offer.deposit \in Int
    BY RequestAssumption
<1>2. agent \in Agents \union {NoAgent}
    BY AgencyAssumption DEF EffectiveAgents
<1>3. tours' \in [Tours -> Tour]
    BY <1>1 DEF ToursTypeOK, CreateBooking, Claim, Tour
<1> DEFINE commission == IF agent = NoAgent THEN "none" ELSE "pending"
           row == [NoBookingRow EXCEPT !.status = "new", !.tour = t, !.agent = agent,
                   !.persons = offer.persons, !.total = offer.total,
                   !.depositAmount = offer.deposit,
                   !.balanceAmount = offer.total - offer.deposit,
                   !.commission = commission, !.agentCommission = commission]
<1>4. row \in BookingRow
    <2>1. commission \in CommissionStatuses
        BY DEF CommissionStatuses
    <2> HIDE DEF commission
    <2> QED
        BY <1>1, <1>2, <2>1, NewRow
<1>5. bookings' = [bookings EXCEPT ![b] = row] /\ UNCHANGED <<payments, desk>>
    BY DEF CreateBooking
<1> HIDE DEF row
<1>6. BookingsTypeOK'
    BY <1>4, <1>5 DEF BookingsTypeOK
<1> QED
    BY <1>3, <1>6 DEF ToursTypeOK

LEMMA BeginRequestType ==
    ASSUME BookingsTypeOK, NEW d \in Desks, NEW b \in BookingIds,
           \/ \E to \in StatusTargets : BeginChangeStatus(d, b, to)
           \/ \E type \in DeskTypes, amount \in Amounts : BeginAddPayment(d, b, type, amount)
           \/ \E cancelType \in CancelTypes, policy \in Policies \union {NoPolicy},
                 days \in DaysAhead :
                  BeginCancel(d, b, cancelType, policy, days)
    PROVE  BookingsTypeOK'
<1> USE DEF BookingsTypeOK, DeskRequest
<1>1. ASSUME NEW to \in StatusTargets, BeginChangeStatus(d, b, to)
      PROVE  BookingsTypeOK'
    BY <1>1, NoRequestType, RequestAssumption DEF BeginChangeStatus
<1>2. ASSUME NEW type \in DeskTypes, NEW amount \in Amounts, BeginAddPayment(d, b, type, amount)
      PROVE  BookingsTypeOK'
    BY <1>2, NoRequestType, RequestAssumption DEF BeginAddPayment
<1>3. ASSUME NEW cancelType \in CancelTypes, NEW policy \in Policies \union {NoPolicy},
             NEW days \in DaysAhead,
             BeginCancel(d, b, cancelType, policy, days)
      PROVE  BookingsTypeOK'
    <2>1. RefundAmount(bookings[b], cancelType, policy, days) \in Nat
        BY RefundAmountType
    <2>2. CancelledBy(cancelType) \in Statuses
        BY DEF CancelledBy, Statuses
    <2> QED
        BY <1>3, <2>1, <2>2, NoRequestType DEF BeginCancel
<1> QED
    BY <1>1, <1>2, <1>3

LEMMA CommitChangeStatusType ==
    ASSUME BookingsTypeOK, NEW d \in Desks, CommitChangeStatus(d)
    PROVE  BookingsTypeOK'
BY NoRequestType DEF BookingsTypeOK, DeskRequest, CommitChangeStatus, BookingRow

LEMMA CommitAddPaymentType ==
    ASSUME BookingsTypeOK, NEW d \in Desks, CommitAddPayment(d)
    PROVE  BookingsTypeOK'
<1> DEFINE b    == desk[d].booking
           seen == desk[d].seen
           depositPaid ==
               IF desk[d].type = "deposit"
               THEN Credit(seen.depositPaid, desk[d].amount, seen.depositAmount)
               ELSE seen.depositPaid
           balancePaid ==
               IF desk[d].type = "balance"
               THEN Credit(seen.balancePaid, desk[d].amount, seen.balanceAmount)
               ELSE seen.balancePaid
           paymentStatus == ComputePaymentStatus(depositPaid, seen.depositAmount,
                                                 balancePaid, seen.balanceAmount)
           status == StatusAfterPayment(seen.status, paymentStatus)
<1>1. desk[d] \in DeskRequest
    BY DEF BookingsTypeOK
<1>2. b \in BookingIds /\ desk[d].amount \in Nat /\ desk[d].type \in PaymentTypes
    BY <1>1 DEF DeskRequest
<1>3. seen \in BookingRow
    BY <1>1 DEF DeskRequest
<1>4. depositPaid \in Nat
    BY <1>2, <1>3 DEF BookingRow, Credit, Least
<1>5. balancePaid \in Int
    BY <1>2, <1>3 DEF BookingRow, Credit, Least
<1>6. paymentStatus \in PaymentStatuses
    BY ComputePaymentStatusType
<1>7. status \in Statuses \union {"none"}
    BY <1>3, StatusAfterPaymentType DEF BookingRow
<1>8. /\ bookings' = [bookings EXCEPT ![b] =
            [bookings[b] EXCEPT !.depositPaid = depositPaid, !.balancePaid = balancePaid,
                                !.paymentStatus = paymentStatus, !.status = status]]
      /\ payments' = [payments EXCEPT ![b][desk[d].type] = @ + desk[d].amount]
      /\ desk' = [desk EXCEPT ![d] = NoRequest]
    BY DEF CommitAddPayment
<1> HIDE DEF b, seen, depositPaid, balancePaid, paymentStatus, status
<1>9. bookings' \in [BookingIds -> BookingRow]
    <2> DEFINE row == [bookings[b] EXCEPT !.depositPaid = depositPaid,
                           !.balancePaid = balancePaid, !.paymentStatus = paymentStatus,
                           !.status = status]
    <2>1. row \in BookingRow
        BY <1>2, <1>4, <1>5, <1>6, <1>7, PaidRow DEF BookingsTypeOK
    <2>2. bookings' = [bookings EXCEPT ![b] = row]
        BY <1>8
    <2> HIDE DEF row
    <2> QED
        BY <1>2, <2>1, <2>2 DEF BookingsTypeOK
<1>10. payments' \in [BookingIds -> [PaymentTypes -> Int]]
    BY <1>2, <1>8 DEF BookingsTypeOK
<1>11. desk' \in [Desks -> DeskRequest]
    BY <1>8, NoRequestType DEF BookingsTypeOK
<1> QED
    BY <1>9, <1>10, <1>11 DEF BookingsTypeOK

LEMMA CommitCancelType ==
    ASSUME ToursTypeOK, BookingsTypeOK, NEW d \in Desks, CommitCancel(d), UNCHANGED plans
    PROVE  ToursTypeOK' /\ BookingsTypeOK'
<1> DEFINE b == desk[d].booking
           t == bookings[b].tour
           status == desk[d].to
           agentCommission == IF bookings[b].agentCommission = "pending"
                              THEN "cancelled" ELSE bookings[b].agentCommission
<1>1. desk[d] \in DeskRequest
    BY DEF BookingsTypeOK
<1>2. b \in BookingIds /\ status \in Statuses /\ desk[d].refund \in Nat
    BY <1>1 DEF DeskRequest
<1>3. bookings[b] \in BookingRow
    BY <1>2 DEF BookingsTypeOK
<1>4. t \in Tours /\ bookings[b].persons \in Nat /\ agentCommission \in CommissionStatuses
    BY <1>3 DEF BookingRow, CommissionStatuses
<1>5. /\ tours' = [tours EXCEPT ![t].availableSeats = @ + bookings[b].persons]
      /\ payments' = [payments EXCEPT ![b].refund = @ + desk[d].refund]
      /\ desk' = [desk EXCEPT ![d] = NoRequest]
    BY DEF CommitCancel, Release
<1>6. bookings' = [bookings EXCEPT ![b] =
            [bookings[b] EXCEPT !.status = status, !.commission = "cancelled",
                                !.agentCommission = agentCommission]]
    BY DEF CommitCancel
<1> HIDE DEF b, t, status, agentCommission
<1>7. ToursTypeOK'
    BY <1>4, <1>5 DEF ToursTypeOK, Tour
<1>8. bookings' \in [BookingIds -> BookingRow]
    <2> DEFINE row == [bookings[b] EXCEPT !.status = status, !.commission = "cancelled",
                           !.agentCommission = agentCommission]
    <2>1. row \in BookingRow
        BY <1>2, <1>3, <1>4, CancelledRow
    <2>2. bookings' = [bookings EXCEPT ![b] = row]
        BY <1>6
    <2> HIDE DEF row
    <2> QED
        BY <1>2, <2>1, <2>2 DEF BookingsTypeOK
<1>9. payments' \in [BookingIds -> [PaymentTypes -> Int]]
    BY <1>2, <1>5 DEF BookingsTypeOK, PaymentTypes
<1>10. desk' \in [Desks -> DeskRequest]
    BY <1>5, NoRequestType DEF BookingsTypeOK
<1> QED
    BY <1>7, <1>8, <1>9, <1>10 DEF BookingsTypeOK

LEMMA AbandonRequestType ==
    ASSUME BookingsTypeOK, NEW d \in Desks, AbandonRequest(d)
    PROVE  BookingsTypeOK'
BY NoRequestType DEF BookingsTypeOK, AbandonRequest

=============================================================================
