------------------------- MODULE BookingSystemProofs -------------------------
(***************************************************************************)
(* What holds of BookingSystem for every catalogue, every set of desks and *)
(* callbacks, every tariff and every Contention: TypeOK,                   *)
(* SeatsNeverNegative and PaidIsBacked.  Then the seats of a tour: whether *)
(* two requests resize one tour at once decides NoSeatLost; whether two    *)
(* work on one booking decides SeatConservation, NoOverbooking,            *)
(* AvailableWithinTotal, CancelledStaysCancelled, TerminalIsFinal and the  *)
(* refinement of SeatLedger.                                               *)
(***************************************************************************)
EXTENDS BookingProperties, BookingsProofs

(***************************************************************************)
(* Amounts                                                                 *)
(***************************************************************************)

LEMMA ResolvePaymentStatusType ==
    ASSUME NEW p, NEW q, NEW r
    PROVE  ResolvePaymentStatus(p, q, r) \in PaymentStatuses
BY DEF ResolvePaymentStatus, PaymentStatuses

LEMMA ResolveNextStatusType ==
    ASSUME NEW status \in Statuses \union {"none"}, NEW totalPaid, NEW total
    PROVE  ResolveNextStatus(status, totalPaid, total) \in Statuses \union {"none"}
BY DEF ResolveNextStatus, Statuses

(***************************************************************************)
(* Type correctness                                                        *)
(***************************************************************************)

LEMMA NoHookType == NoHook \in Hook /\ NoCharge \in Charge
BY ChargeAssumption, BookingIdsAssumption, NoRequestType DEF NoHook, Hook, NoCharge, Charge

LEMMA InitType == Init => TypeOK
<1> SUFFICES ASSUME Init PROVE TypeOK
    OBVIOUS
<1>1. ToursTypeOK
    BY NoPlanType DEF Init, ToursInit, ToursTypeOK, NoTourRow, Tour
<1>2. BookingsTypeOK
    BY NoRequestType DEF Init, BookingsInit, BookingsTypeOK
<1>3. LiqPayTypeOK
    BY NoHookType DEF Init, LiqPayInit, LiqPayTypeOK
<1> QED
    BY <1>1, <1>2, <1>3 DEF TypeOK

\* The tour office keeps its rows and plans well formed.
LEMMA TourStepType ==
    ASSUME ToursTypeOK, TourStep
    PROVE  ToursTypeOK'
<1> USE DEF ToursTypeOK, Tour
<1>1. ASSUME NEW t \in Tours, NEW seats \in Nat, CreateTour(t, seats)
      PROVE  ToursTypeOK'
    BY <1>1 DEF CreateTour, TourStatuses
<1>2. ASSUME NEW t \in Tours, NEW seats \in Capacities, CreateTour(t, seats)
      PROVE  ToursTypeOK'
    BY <1>1, <1>2, TourRequestAssumption
<1>3. ASSUME NEW source \in Tours, NEW t \in Tours,
             NEW seats \in Capacities \union {tours[source].totalSeats},
             CreateDeparture(source, t, seats)
      PROVE  ToursTypeOK'
    <2>1. seats \in Nat
        BY TourRequestAssumption
    <2> QED
        BY <1>1, <1>3, <2>1 DEF CreateDeparture
<1>4. ASSUME NEW p \in Planners, NEW t \in Tours, NEW seats \in Resizes, BeginResize(p, t, seats)
      PROVE  ToursTypeOK'
    BY <1>4, NoPlanType, TourRequestAssumption DEF BeginResize, Plan
<1>5. ASSUME NEW p \in Planners, NEW t \in Tours, NEW to \in TourTargets,
             BeginTourStatus(p, t, to)
      PROVE  ToursTypeOK'
    BY <1>5, NoPlanType, TourRequestAssumption DEF BeginTourStatus, Plan, TourStatuses
<1>6. ASSUME NEW p \in Planners, NEW t \in Tours, BeginArchive(p, t)
      PROVE  ToursTypeOK'
    BY <1>6, NoPlanType DEF BeginArchive, Plan
<1>7. ASSUME NEW p \in Planners, CommitResize(p)
      PROVE  ToursTypeOK'
    <2>1. /\ plans[p].tour \in Tours
          /\ plans[p].seats \in Nat
          /\ plans[p].seats - plans[p].seen \in Int
        BY DEF Plan
    <2> DEFINE t    == plans[p].tour
               size == plans[p].seats
               free == tours[t].availableSeats + (plans[p].seats - plans[p].seen)
    <2>2. tours' = [tours EXCEPT ![t] =
              [tours[t] EXCEPT !.totalSeats = size, !.availableSeats = free]]
        BY <1>7 DEF CommitResize
    <2>3. t \in Tours /\ size \in Nat /\ free \in Int
        BY <2>1
    <2> HIDE DEF t, size, free
    <2>4. tours' \in [Tours -> Tour]
        BY <2>2, <2>3
    <2>5. plans' \in [Planners -> Plan]
        BY <1>7, NoPlanType DEF CommitResize
    <2> QED
        BY <2>4, <2>5
<1>8. ASSUME NEW p \in Planners, CommitTourStatus(p)
      PROVE  ToursTypeOK'
    BY <1>8, NoPlanType DEF CommitTourStatus, Plan
<1>9. ASSUME NEW p \in Planners, CommitArchive(p)
      PROVE  ToursTypeOK'
    BY <1>9, NoPlanType DEF CommitArchive, Plan
<1>10. ASSUME NEW p \in Planners, AbandonPlan(p)
       PROVE  ToursTypeOK'
    BY <1>10, NoPlanType DEF AbandonPlan
<1> HIDE DEF ToursTypeOK
<1> QED
    BY <1>2, <1>3, <1>4, <1>5, <1>6, <1>7, <1>8, <1>9, <1>10 DEF TourStep

LEMMA ChargedRow ==
    ASSUME NEW row \in BookingRow, NEW depositPaid \in Nat, NEW balancePaid \in Int,
           NEW balanceAmount \in Int, NEW paymentStatus \in PaymentStatuses,
           NEW status \in Statuses \union {"none"}
    PROVE  [row EXCEPT !.depositPaid = depositPaid, !.balancePaid = balancePaid,
                       !.balanceAmount = balanceAmount, !.paymentStatus = paymentStatus,
                       !.status = status] \in BookingRow
BY DEF BookingRow

LEMMA ReversedRow ==
    ASSUME NEW row \in BookingRow
    PROVE  [row EXCEPT !.status = "refund", !.paymentStatus = "unpaid"] \in BookingRow
BY DEF BookingRow, Statuses, PaymentStatuses

LEMMA DeskStepType ==
    ASSUME ToursTypeOK, BookingsTypeOK, DeskStep, UNCHANGED plans
    PROVE  ToursTypeOK' /\ BookingsTypeOK'
<1>1. ASSUME UNCHANGED tours PROVE ToursTypeOK'
    BY <1>1 DEF ToursTypeOK
<1>2. ASSUME NEW d \in Desks, NEW b \in BookingIds,
             \/ \E to \in StatusTargets : BeginChangeStatus(d, b, to)
             \/ \E type \in DeskTypes, amount \in Amounts : BeginAddPayment(d, b, type, amount)
             \/ \E cancelType \in CancelTypes, policy \in Policies, days \in DaysAhead :
                    BeginCancel(d, b, cancelType, policy, days)
      PROVE  ToursTypeOK' /\ BookingsTypeOK'
    <2>1. UNCHANGED tours
        BY <1>2 DEF BeginChangeStatus, BeginAddPayment, BeginCancel
    <2> QED
        BY <1>1, <1>2, <2>1, BeginRequestType
<1>3. ASSUME NEW d \in Desks, CommitChangeStatus(d) \/ CommitAddPayment(d) \/ AbandonRequest(d)
      PROVE  ToursTypeOK' /\ BookingsTypeOK'
    <2>1. UNCHANGED tours
        BY <1>3 DEF CommitChangeStatus, CommitAddPayment, AbandonRequest
    <2> QED
        BY <1>1, <1>3, <2>1, CommitChangeStatusType, CommitAddPaymentType, AbandonRequestType
<1> QED
    BY <1>2, <1>3, CreateBookingType, CommitCancelType DEF DeskStep

\* The callbacks keep the bookings, the payments and their own records well formed.
LEMMA GatewayType ==
    ASSUME BookingsTypeOK, LiqPayTypeOK, UNCHANGED desk, NEW c \in Charges,
           \/ \E b \in BookingIds, amount \in ChargeAmounts, kind \in {"deposit", "final_payment"} :
                  PayAtGateway(c, b, kind, amount)
           \/ ReverseAtGateway(c)
    PROVE  BookingsTypeOK' /\ LiqPayTypeOK'
<1>1. ASSUME NEW b \in BookingIds, NEW amount \in ChargeAmounts,
             NEW kind \in {"deposit", "final_payment"}, PayAtGateway(c, b, kind, amount)
      PROVE  BookingsTypeOK' /\ LiqPayTypeOK'
    BY <1>1, ChargeAssumption DEF PayAtGateway, BookingsTypeOK, LiqPayTypeOK, Charge
<1>2. ASSUME ReverseAtGateway(c) PROVE BookingsTypeOK' /\ LiqPayTypeOK'
    BY <1>2 DEF ReverseAtGateway, BookingsTypeOK, LiqPayTypeOK, Charge
<1> QED
    BY <1>1, <1>2

LEMMA HandleReversalType ==
    ASSUME BookingsTypeOK, LiqPayTypeOK, UNCHANGED desk, NEW c \in Charges, HandleReversal(c)
    PROVE  BookingsTypeOK' /\ LiqPayTypeOK'
<1> DEFINE b   == charges[c].booking
           row == [bookings[b] EXCEPT !.status = "refund", !.paymentStatus = "unpaid"]
<1>1. charges[c].amount \in Nat /\ b \in BookingIds
    BY DEF LiqPayTypeOK, Charge
<1>2. row \in BookingRow
    <2> HIDE DEF b
    <2> QED
        BY <1>1, ReversedRow DEF BookingsTypeOK
<1>3. /\ bookings' = [bookings EXCEPT ![b] = row]
      /\ payments' = [payments EXCEPT ![b].refund = @ - charges[c].amount]
      /\ revRecorded' = revRecorded \union {c}
      /\ UNCHANGED <<charges, hooks, recorded>>
    BY DEF HandleReversal
<1> HIDE DEF b, row
<1>4. BookingsTypeOK'
    BY <1>1, <1>2, <1>3 DEF BookingsTypeOK, PaymentTypes
<1> QED
    BY <1>3, <1>4 DEF LiqPayTypeOK

LEMMA HookType ==
    ASSUME BookingsTypeOK, LiqPayTypeOK, UNCHANGED desk, NEW h \in Hooks,
           (\E c \in Charges : BeginSuccess(h, c)) \/ AbandonHook(h)
    PROVE  BookingsTypeOK' /\ LiqPayTypeOK'
<1>1. ASSUME NEW c \in Charges, BeginSuccess(h, c) PROVE BookingsTypeOK' /\ LiqPayTypeOK'
    <2>1. bookings[charges[c].booking] \in BookingRow
        BY DEF BookingsTypeOK, LiqPayTypeOK, Charge
    <2> QED
        BY <1>1, <2>1 DEF BeginSuccess, BookingsTypeOK, LiqPayTypeOK, Hook
<1>2. ASSUME AbandonHook(h) PROVE BookingsTypeOK' /\ LiqPayTypeOK'
    BY <1>2, NoHookType DEF AbandonHook, BookingsTypeOK, LiqPayTypeOK
<1> QED
    BY <1>1, <1>2

LEMMA CommitSuccessType ==
    ASSUME BookingsTypeOK, LiqPayTypeOK, UNCHANGED desk, NEW h \in Hooks, CommitSuccess(h)
    PROVE  BookingsTypeOK' /\ LiqPayTypeOK'
<1> DEFINE c           == hooks[h].charge
           b           == charges[c].booking
           seen        == hooks[h].seen
           amount      == charges[c].amount
           isDeposit   == IsDepositPayment(charges[c].kind, seen.depositPaid)
           type        == IF isDeposit THEN "deposit" ELSE "balance"
           depositPaid == DepositAfter(seen, isDeposit, amount)
           balancePaid == seen.balancePaid + (IF isDeposit THEN 0 ELSE amount)
           totalPaid   == depositPaid + balancePaid
           balanceAmount == Greatest(0, seen.total - totalPaid)
           paymentStatus == ResolvePaymentStatus(totalPaid, seen.depositAmount, seen.total)
           status        == ResolveNextStatus(seen.status, totalPaid, seen.total)
           row == [bookings[b] EXCEPT !.depositPaid = depositPaid, !.balancePaid = balancePaid,
                       !.balanceAmount = balanceAmount, !.paymentStatus = paymentStatus,
                       !.status = status]
<1>1. c \in Charges /\ seen \in BookingRow
    BY DEF LiqPayTypeOK, Hook
<1>2. b \in BookingIds /\ amount \in Nat
    BY <1>1 DEF LiqPayTypeOK, Charge
<1>3. seen.depositPaid \in Nat /\ seen.balancePaid \in Int /\ seen.total \in Nat
    BY <1>1 DEF BookingRow
<1>4. depositPaid \in Nat
    BY <1>2, <1>3 DEF DepositAfter
<1>5. balancePaid \in Int
    BY <1>2, <1>3
<1>6. balanceAmount \in Int
    BY <1>3, <1>4, <1>5 DEF Greatest
<1>7. paymentStatus \in PaymentStatuses
    BY ResolvePaymentStatusType
<1>8. status \in Statuses \union {"none"}
    BY <1>1, ResolveNextStatusType DEF BookingRow
<1>9. type \in PaymentTypes
    BY DEF PaymentTypes
<1>10. /\ bookings' = [bookings EXCEPT ![b] = row]
       /\ payments' = [payments EXCEPT ![b][type] = @ + amount]
       /\ hooks' = [hooks EXCEPT ![h] = NoHook]
       /\ recorded' = recorded \union {c}
       /\ UNCHANGED <<charges, revRecorded>>
    BY DEF CommitSuccess
<1>11. row \in BookingRow
    <2> HIDE DEF b, depositPaid, balancePaid, balanceAmount, paymentStatus, status
    <2> QED
        BY <1>2, <1>4, <1>5, <1>6, <1>7, <1>8, ChargedRow DEF BookingsTypeOK
<1> HIDE DEF c, b, amount, type, row
<1>12. BookingsTypeOK'
    BY <1>2, <1>9, <1>10, <1>11 DEF BookingsTypeOK
<1>13. LiqPayTypeOK'
    BY <1>1, <1>10, NoHookType DEF LiqPayTypeOK
<1> QED
    BY <1>12, <1>13

LEMMA LiqPayStepType ==
    ASSUME BookingsTypeOK, LiqPayTypeOK, LiqPayStep, UNCHANGED desk
    PROVE  BookingsTypeOK' /\ LiqPayTypeOK'
BY GatewayType, HandleReversalType, HookType, CommitSuccessType DEF LiqPayStep

LEMMA StepType == TypeOK /\ [Next]_vars => TypeOK'
<1> SUFFICES ASSUME TypeOK, [Next]_vars PROVE TypeOK'
    OBVIOUS
<1> USE DEF TypeOK
<1>1. CASE TourStep /\ UNCHANGED <<bookingVars, liqPayVars>>
    <2>1. BookingsTypeOK' /\ LiqPayTypeOK'
        BY <1>1 DEF bookingVars, liqPayVars, BookingsTypeOK, LiqPayTypeOK
    <2> QED
        BY <1>1, <2>1, TourStepType
<1>2. CASE DeskStep /\ UNCHANGED <<plans, liqPayVars>>
    <2>1. LiqPayTypeOK'
        BY <1>2 DEF liqPayVars, LiqPayTypeOK
    <2> QED
        BY <1>2, <2>1, DeskStepType
<1>3. CASE LiqPayStep /\ UNCHANGED <<tourVars, desk>>
    <2>1. ToursTypeOK'
        BY <1>3 DEF tourVars, ToursTypeOK
    <2> QED
        BY <1>3, <2>1, LiqPayStepType
<1>4. CASE UNCHANGED vars
    BY <1>4 DEF vars, tourVars, bookingVars, liqPayVars, ToursTypeOK, BookingsTypeOK, LiqPayTypeOK
<1> QED
    BY <1>1, <1>2, <1>3, <1>4 DEF Next

\* Every row, request and callback has its declared shape: paid deposits and
\* refunds are never negative, whatever is in flight.
THEOREM TypeCorrect == Spec => []TypeOK
BY InitType, StepType, PTL DEF Spec

(***************************************************************************)
(* Seats                                                                   *)
(***************************************************************************)

LEMMA SeatsInit == Init => SeatsNeverNegative
<1> SUFFICES ASSUME Init, NEW t \in Tours PROVE tours[t].availableSeats >= 0
    BY DEF SeatsNeverNegative
<1>1. tours[t] = NoTourRow
    BY DEF Init, ToursInit
<1> QED
    BY <1>1 DEF NoTourRow

\* The tests of claimSeats and updateTour are in the UPDATE itself, so what a
\* request read before does not matter.
LEMMA SeatsStep == TypeOK /\ SeatsNeverNegative /\ [Next]_vars => SeatsNeverNegative'
<1> SUFFICES ASSUME TypeOK, SeatsNeverNegative, [Next]_vars PROVE SeatsNeverNegative'
    OBVIOUS
<1> USE DEF SeatsNeverNegative
<1>1. ASSUME UNCHANGED tours PROVE SeatsNeverNegative'
    BY <1>1
<1>2. ASSUME NEW t \in Tours, NEW seats \in Nat, CreateTour(t, seats)
      PROVE  SeatsNeverNegative'
    BY <1>2 DEF CreateTour, TypeOK, ToursTypeOK
<1>3. CASE TourStep
    <2>1. ASSUME NEW t \in Tours, NEW seats \in Capacities, CreateTour(t, seats)
          PROVE  SeatsNeverNegative'
        BY <1>2, <2>1, TourRequestAssumption
    <2>2. ASSUME NEW source \in Tours, NEW t \in Tours,
                 NEW seats \in Capacities \union {tours[source].totalSeats},
                 CreateDeparture(source, t, seats)
          PROVE  SeatsNeverNegative'
        <3>1. seats \in Nat
            BY TourRequestAssumption DEF TypeOK, ToursTypeOK, Tour
        <3> QED
            BY <1>2, <2>2, <3>1 DEF CreateDeparture
    <2>3. ASSUME NEW p \in Planners, NEW t \in Tours,
                 \/ \E seats \in Resizes : BeginResize(p, t, seats)
                 \/ \E to \in TourTargets : BeginTourStatus(p, t, to)
                 \/ BeginArchive(p, t)
          PROVE  SeatsNeverNegative'
        BY <1>1, <2>3 DEF BeginResize, BeginTourStatus, BeginArchive
    <2>4. ASSUME NEW p \in Planners, CommitResize(p) PROVE SeatsNeverNegative'
        <3> DEFINE t     == plans[p].tour
                   delta == plans[p].seats - plans[p].seen
                   free  == tours[t].availableSeats + delta
        <3>1. t \in Tours /\ delta \in Int /\ tours \in [Tours -> Tour]
            BY DEF TypeOK, ToursTypeOK, Plan
        <3>2. /\ ShrinkFits(t, delta)
              /\ tours' = [tours EXCEPT ![t] =
                     [tours[t] EXCEPT !.totalSeats = plans[p].seats, !.availableSeats = free]]
            BY <2>4 DEF CommitResize
        <3>3. tours[t].availableSeats \in Int
            BY <3>1 DEF Tour
        <3>4. free >= 0
            BY <3>1, <3>2, <3>3 DEF ShrinkFits
        <3> HIDE DEF t, delta, free
        <3> QED
            BY <3>1, <3>2, <3>4 DEF Tour
    <2>5. ASSUME NEW p \in Planners, CommitTourStatus(p) \/ CommitArchive(p) \/ AbandonPlan(p)
          PROVE  SeatsNeverNegative'
        BY <2>5 DEF CommitTourStatus, CommitArchive, AbandonPlan, TypeOK, ToursTypeOK, Plan, Tour
    <2> QED
        BY <1>3, <2>1, <2>2, <2>3, <2>4, <2>5 DEF TourStep
<1>4. CASE DeskStep
    <2>1. ASSUME NEW d \in Desks, NEW b \in BookingIds, NEW t \in Tours, NEW offer \in Offers,
                 NEW agent \in EffectiveAgents(d), CreateBooking(d, b, t, offer, agent)
          PROVE  SeatsNeverNegative'
        <3>1. offer.persons \in Nat
            BY RequestAssumption
        <3> QED
            BY <2>1, <3>1 DEF CreateBooking, CanClaim, Claim, TypeOK, ToursTypeOK, Tour
    <2>2. ASSUME NEW d \in Desks, CommitCancel(d) PROVE SeatsNeverNegative'
        <3> DEFINE t == bookings[desk[d].booking].tour
                   persons == bookings[desk[d].booking].persons
        <3>1. desk[d].booking \in BookingIds
            BY DEF TypeOK, BookingsTypeOK, DeskRequest
        <3>2. t \in Tours /\ persons \in Nat
            BY <3>1 DEF TypeOK, BookingsTypeOK, BookingRow
        <3>3. tours' = [tours EXCEPT ![t].availableSeats = @ + persons]
            BY <2>2 DEF CommitCancel, Release
        <3> HIDE DEF t, persons
        <3> QED
            BY <3>2, <3>3 DEF TypeOK, ToursTypeOK, Tour
    <2>3. ASSUME NEW d \in Desks, NEW b \in BookingIds,
                 \/ \E to \in StatusTargets : BeginChangeStatus(d, b, to)
                 \/ \E type \in DeskTypes, amount \in Amounts : BeginAddPayment(d, b, type, amount)
                 \/ \E cancelType \in CancelTypes, policy \in Policies, days \in DaysAhead :
                        BeginCancel(d, b, cancelType, policy, days)
          PROVE  SeatsNeverNegative'
        BY <1>1, <2>3 DEF BeginChangeStatus, BeginAddPayment, BeginCancel
    <2>4. ASSUME NEW d \in Desks, CommitChangeStatus(d) \/ CommitAddPayment(d) \/ AbandonRequest(d)
          PROVE  SeatsNeverNegative'
        BY <1>1, <2>4 DEF CommitChangeStatus, CommitAddPayment, AbandonRequest
    <2> QED
        BY <1>4, <2>1, <2>2, <2>3, <2>4 DEF DeskStep
<1> QED
    BY <1>1, <1>3, <1>4 DEF Next, vars, tourVars

\* BR-01 for every catalogue and every interleaving: no tour sells a seat it
\* does not have.
THEOREM NoSeatBelowZero == Spec => []SeatsNeverNegative
BY InitType, StepType, SeatsInit, SeatsStep, PTL DEF Spec

(***************************************************************************)
(* Money                                                                   *)
(*                                                                         *)
(* PaidIsBacked alone is not inductive: a commit writes amounts computed   *)
(* from a row read earlier.  What makes it work is that the rows a request *)
(* holds are backed too, and that receipts only grow, so a row that was    *)
(* backed when it was read is backed when it is written.                   *)
(***************************************************************************)

ReceiptsNeverNegative ==
    \A b \in BookingIds : payments[b]["deposit"] >= 0 /\ payments[b]["balance"] >= 0

DeskBacked(d) ==
    desk[d].op = "payment" => TotalPaid(desk[d].seen) <= Received(desk[d].booking)

HookBacked(h) ==
    hooks[h].busy => /\ charges[hooks[h].charge].state # "none"
                     /\ TotalPaid(hooks[h].seen) <= Received(charges[hooks[h].charge].booking)

MoneyInv == /\ ReceiptsNeverNegative
            /\ PaidIsBacked
            /\ \A d \in Desks : DeskBacked(d)
            /\ \A h \in Hooks : HookBacked(h)

\* Receipts only grow.
ReceiptsGrow ==
    \A b \in BookingIds : /\ payments'[b]["deposit"] >= payments[b]["deposit"]
                          /\ payments'[b]["balance"] >= payments[b]["balance"]

\* A charge in the gateway's record keeps its booking.
ChargesKept ==
    \A c \in Charges : charges[c].state # "none" =>
        /\ charges'[c].state # "none"
        /\ charges'[c].booking = charges[c].booking

\* Least never exceeds its arguments: a capped credit is at most the payment.
LEMMA CreditBounds ==
    ASSUME NEW paid \in Int, NEW amount \in Nat, NEW due \in Int
    PROVE  Credit(paid, amount, due) \in Int /\ Credit(paid, amount, due) <= paid + amount
BY DEF Credit, Least

LEMMA ReceivedType ==
    ASSUME BookingsTypeOK, NEW b \in BookingIds
    PROVE  /\ payments[b]["deposit"] \in Int /\ payments[b]["balance"] \in Int
           /\ Received(b) \in Int
BY DEF BookingsTypeOK, Received, PaymentTypes

LEMMA TotalPaidType ==
    ASSUME NEW row \in BookingRow
    PROVE  TotalPaid(row) \in Int
BY DEF TotalPaid, BookingRow

\* While receipts only grow and charges are kept, only what a step writes has
\* to be looked at.
LEMMA MoneyFrame ==
    ASSUME TypeOK, TypeOK', MoneyInv, ReceiptsGrow, ChargesKept,
           \A b \in BookingIds : \/ TotalPaid(bookings'[b]) = TotalPaid(bookings[b])
                                 \/ TotalPaid(bookings'[b]) <= Received(b)',
           \A d \in Desks : desk'[d] = desk[d] \/ DeskBacked(d)',
           \A h \in Hooks : hooks'[h] = hooks[h] \/ HookBacked(h)'
    PROVE  MoneyInv'
<1>1. \A b \in BookingIds :
          /\ payments[b]["deposit"] \in Int /\ payments[b]["balance"] \in Int
          /\ payments'[b]["deposit"] \in Int /\ payments'[b]["balance"] \in Int
    BY DEF TypeOK, BookingsTypeOK, PaymentTypes
<1>2. ReceiptsNeverNegative'
    BY <1>1 DEF MoneyInv, ReceiptsNeverNegative, ReceiptsGrow
<1>3. \A b \in BookingIds : /\ Received(b) \in Int /\ Received(b)' \in Int
                             /\ Received(b) <= Received(b)'
    BY <1>1 DEF Received, ReceiptsGrow
<1>4. ASSUME NEW b \in BookingIds PROVE TotalPaid(bookings'[b]) <= Received(b)'
    <2>1. TotalPaid(bookings[b]) \in Int
        BY TotalPaidType DEF TypeOK, BookingsTypeOK
    <2> QED
        BY <1>3, <2>1 DEF MoneyInv, PaidIsBacked
<1>5. ASSUME NEW d \in Desks, desk'[d] = desk[d], desk[d].op = "payment"
      PROVE  TotalPaid(desk[d].seen) <= payments'[desk[d].booking]["deposit"]
                                            + payments'[desk[d].booking]["balance"]
    <2>1. desk[d].seen \in BookingRow /\ desk[d].booking \in BookingIds
        BY DEF TypeOK, BookingsTypeOK, DeskRequest
    <2>2. TotalPaid(desk[d].seen) \in Int
        BY <2>1, TotalPaidType
    <2>3. TotalPaid(desk[d].seen) <= Received(desk[d].booking)
        BY <1>5 DEF MoneyInv, DeskBacked
    <2> QED
        BY <1>3, <2>1, <2>2, <2>3 DEF Received
<1>6. ASSUME NEW h \in Hooks, hooks'[h] = hooks[h], hooks[h].busy
      PROVE  /\ charges'[hooks[h].charge].state # "none"
             /\ TotalPaid(hooks[h].seen) <=
                    payments'[charges'[hooks[h].charge].booking]["deposit"]
                        + payments'[charges'[hooks[h].charge].booking]["balance"]
    <2>1. hooks[h].seen \in BookingRow /\ hooks[h].charge \in Charges
        BY DEF TypeOK, LiqPayTypeOK, Hook
    <2>2. charges[hooks[h].charge].booking \in BookingIds
        BY <2>1 DEF TypeOK, LiqPayTypeOK, Charge
    <2>3. TotalPaid(hooks[h].seen) \in Int
        BY <2>1, TotalPaidType
    <2>4. /\ charges[hooks[h].charge].state # "none"
          /\ TotalPaid(hooks[h].seen) <= Received(charges[hooks[h].charge].booking)
        BY <1>6 DEF MoneyInv, HookBacked
    <2>5. /\ charges'[hooks[h].charge].state # "none"
          /\ charges'[hooks[h].charge].booking = charges[hooks[h].charge].booking
        BY <2>1, <2>4 DEF ChargesKept
    <2> QED
        BY <1>3, <2>2, <2>3, <2>4, <2>5 DEF Received
<1>7. \A d \in Desks : DeskBacked(d)'
    BY <1>5 DEF DeskBacked, Received
<1>8. \A h \in Hooks : HookBacked(h)'
    BY <1>6 DEF HookBacked, Received
<1>9. PaidIsBacked'
    BY <1>4 DEF PaidIsBacked
<1> QED
    BY <1>2, <1>7, <1>8, <1>9 DEF MoneyInv

LEMMA CreateBookingMoney ==
    ASSUME TypeOK, TypeOK', MoneyInv, UNCHANGED liqPayVars, NEW d \in Desks,
           NEW b \in BookingIds, NEW t \in Tours, NEW offer \in Offers,
           NEW agent \in EffectiveAgents(d), CreateBooking(d, b, t, offer, agent)
    PROVE  MoneyInv'
<1>1. UNCHANGED <<payments, desk, charges, hooks>>
    BY DEF CreateBooking, liqPayVars
<1>2. \A x \in BookingIds : payments[x]["deposit"] \in Int /\ payments[x]["balance"] \in Int
    BY DEF TypeOK, BookingsTypeOK, PaymentTypes
<1>3. ReceiptsGrow /\ ChargesKept
    BY <1>1, <1>2 DEF ReceiptsGrow, ChargesKept
<1>4. bookings'[b].depositPaid = 0 /\ bookings'[b].balancePaid = 0
    BY DEF CreateBooking, NoBookingRow, TypeOK, BookingsTypeOK
<1>5. TotalPaid(bookings'[b]) <= Received(b)'
    BY <1>1, <1>2, <1>4 DEF TotalPaid, Received, MoneyInv, ReceiptsNeverNegative
<1>6. \A x \in BookingIds : x # b => bookings'[x] = bookings[x]
    BY DEF CreateBooking, TypeOK, BookingsTypeOK
<1>7. \A x \in BookingIds : \/ TotalPaid(bookings'[x]) = TotalPaid(bookings[x])
                             \/ TotalPaid(bookings'[x]) <= Received(x)'
    <2> SUFFICES ASSUME NEW x \in BookingIds
                 PROVE  \/ TotalPaid(bookings'[x]) = TotalPaid(bookings[x])
                        \/ TotalPaid(bookings'[x]) <= Received(x)'
        OBVIOUS
    <2>1. CASE x = b
        BY <1>5, <2>1
    <2>2. CASE x # b
        BY <1>6, <2>2
    <2> QED
        BY <2>1, <2>2
<1> QED
    BY <1>1, <1>3, <1>7, MoneyFrame

\* A request that starts, or ends without its write.
LEMMA DeskOnlyMoney ==
    ASSUME TypeOK, TypeOK', MoneyInv, UNCHANGED <<bookings, payments, charges, hooks>>,
           \A d \in Desks : desk'[d] = desk[d] \/ DeskBacked(d)'
    PROVE  MoneyInv'
<1>1. \A x \in BookingIds : payments[x]["deposit"] \in Int /\ payments[x]["balance"] \in Int
    BY DEF TypeOK, BookingsTypeOK, PaymentTypes
<1>2. ReceiptsGrow /\ ChargesKept
    BY <1>1 DEF ReceiptsGrow, ChargesKept
<1> QED
    BY <1>2, MoneyFrame

LEMMA BeginRequestMoney ==
    ASSUME TypeOK, TypeOK', MoneyInv, UNCHANGED liqPayVars,
           NEW d \in Desks, NEW b \in BookingIds,
           \/ \E to \in StatusTargets : BeginChangeStatus(d, b, to)
           \/ \E type \in DeskTypes, amount \in Amounts : BeginAddPayment(d, b, type, amount)
           \/ \E cancelType \in CancelTypes, policy \in Policies, days \in DaysAhead :
                  BeginCancel(d, b, cancelType, policy, days)
    PROVE  MoneyInv'
<1>1. UNCHANGED <<bookings, payments, charges, hooks>>
    BY DEF BeginChangeStatus, BeginAddPayment, BeginCancel, liqPayVars
<1>2. \A x \in Desks : x # d => desk'[x] = desk[x]
    BY DEF BeginChangeStatus, BeginAddPayment, BeginCancel, TypeOK, BookingsTypeOK
<1>3. DeskBacked(d)'
    <2>1. ASSUME NEW to \in StatusTargets, BeginChangeStatus(d, b, to)
          PROVE  DeskBacked(d)'
        BY <2>1 DEF BeginChangeStatus, DeskBacked, NoRequest, TypeOK, BookingsTypeOK
    <2>2. ASSUME NEW type \in DeskTypes, NEW amount \in Amounts, BeginAddPayment(d, b, type, amount)
          PROVE  DeskBacked(d)'
        <3>1. desk'[d].seen = bookings[b] /\ desk'[d].booking = b
            BY <2>2 DEF BeginAddPayment, NoRequest, TypeOK, BookingsTypeOK
        <3>2. TotalPaid(bookings[b]) <= Received(b)
            BY DEF MoneyInv, PaidIsBacked
        <3> QED
            BY <1>1, <3>1, <3>2 DEF DeskBacked, Received
    <2>3. ASSUME NEW cancelType \in CancelTypes, NEW policy \in Policies, NEW days \in DaysAhead,
                 BeginCancel(d, b, cancelType, policy, days)
          PROVE  DeskBacked(d)'
        BY <2>3 DEF BeginCancel, DeskBacked, NoRequest, TypeOK, BookingsTypeOK
    <2> QED
        BY <2>1, <2>2, <2>3
<1> QED
    BY <1>1, <1>2, <1>3, DeskOnlyMoney

\* The status is not money.
LEMMA CommitChangeStatusMoney ==
    ASSUME TypeOK, TypeOK', MoneyInv, UNCHANGED liqPayVars, NEW d \in Desks, CommitChangeStatus(d)
    PROVE  MoneyInv'
<1>1. \A x \in BookingIds : /\ bookings'[x].depositPaid = bookings[x].depositPaid
                             /\ bookings'[x].balancePaid = bookings[x].balancePaid
    BY DEF CommitChangeStatus, TypeOK, BookingsTypeOK, BookingRow
<1>2. \A x \in BookingIds : TotalPaid(bookings'[x]) = TotalPaid(bookings[x])
    BY <1>1 DEF TotalPaid
<1>3. UNCHANGED <<payments, charges, hooks>>
    BY DEF CommitChangeStatus, liqPayVars
<1>4. \A x \in BookingIds : payments[x]["deposit"] \in Int /\ payments[x]["balance"] \in Int
    BY DEF TypeOK, BookingsTypeOK, PaymentTypes
<1>5. ReceiptsGrow /\ ChargesKept
    BY <1>3, <1>4 DEF ReceiptsGrow, ChargesKept
<1>6. \A x \in Desks : desk'[x] = desk[x] \/ DeskBacked(x)'
    BY DEF CommitChangeStatus, DeskBacked, NoRequest, TypeOK, BookingsTypeOK
<1> QED
    BY <1>2, <1>3, <1>5, <1>6, MoneyFrame

LEMMA AbandonRequestMoney ==
    ASSUME TypeOK, TypeOK', MoneyInv, UNCHANGED liqPayVars, NEW d \in Desks, AbandonRequest(d)
    PROVE  MoneyInv'
<1>1. UNCHANGED <<bookings, payments, charges, hooks>>
    BY DEF AbandonRequest, liqPayVars
<1>2. \A x \in Desks : desk'[x] = desk[x] \/ DeskBacked(x)'
    BY DEF AbandonRequest, DeskBacked, NoRequest, TypeOK, BookingsTypeOK
<1> QED
    BY <1>1, <1>2, DeskOnlyMoney

\* A cancellation adds to the refunds and leaves the paid amounts alone.
LEMMA CommitCancelMoney ==
    ASSUME TypeOK, TypeOK', MoneyInv, UNCHANGED liqPayVars, NEW d \in Desks, CommitCancel(d)
    PROVE  MoneyInv'
<1> DEFINE b == desk[d].booking
<1>1. \A x \in BookingIds : /\ bookings'[x].depositPaid = bookings[x].depositPaid
                             /\ bookings'[x].balancePaid = bookings[x].balancePaid
    BY DEF CommitCancel, TypeOK, BookingsTypeOK, BookingRow
<1>2. \A x \in BookingIds : TotalPaid(bookings'[x]) = TotalPaid(bookings[x])
    BY <1>1 DEF TotalPaid
<1>3. UNCHANGED <<charges, hooks>>
    BY DEF liqPayVars
<1>4. \A x \in BookingIds : payments[x]["deposit"] \in Int /\ payments[x]["balance"] \in Int
    BY DEF TypeOK, BookingsTypeOK, PaymentTypes
<1>5. \A x \in BookingIds : /\ payments'[x]["deposit"] = payments[x]["deposit"]
                             /\ payments'[x]["balance"] = payments[x]["balance"]
    BY DEF CommitCancel, TypeOK, BookingsTypeOK, PaymentTypes
<1>6. ReceiptsGrow /\ ChargesKept
    BY <1>3, <1>4, <1>5 DEF ReceiptsGrow, ChargesKept
<1>7. \A x \in Desks : desk'[x] = desk[x] \/ DeskBacked(x)'
    BY DEF CommitCancel, DeskBacked, NoRequest, TypeOK, BookingsTypeOK
<1> QED
    BY <1>2, <1>3, <1>6, <1>7, MoneyFrame

\* The amount goes to the receipts in full and to the booking at most in full,
\* on top of a row that was backed when it was read.
LEMMA CommitAddPaymentMoney ==
    ASSUME TypeOK, TypeOK', MoneyInv, UNCHANGED liqPayVars, NEW d \in Desks, CommitAddPayment(d)
    PROVE  MoneyInv'
<1> DEFINE b      == desk[d].booking
           seen   == desk[d].seen
           type   == desk[d].type
           amount == desk[d].amount
           depositPaid ==
               IF type = "deposit"
               THEN Credit(seen.depositPaid, amount, seen.depositAmount)
               ELSE seen.depositPaid
           balancePaid ==
               IF type = "balance"
               THEN Credit(seen.balancePaid, amount, seen.balanceAmount)
               ELSE seen.balancePaid
<1>1. b \in BookingIds /\ amount \in Nat /\ type \in PaymentTypes /\ seen \in BookingRow
    BY DEF TypeOK, BookingsTypeOK, DeskRequest
<1>2. desk[d].op = "payment"
    BY DEF CommitAddPayment
<1>3. /\ seen.depositPaid \in Int /\ seen.depositAmount \in Int
      /\ seen.balancePaid \in Int /\ seen.balanceAmount \in Int
    BY <1>1 DEF BookingRow
<1>4. seen.depositPaid + seen.balancePaid <= payments[b]["deposit"] + payments[b]["balance"]
    BY <1>2 DEF MoneyInv, DeskBacked, TotalPaid, Received
<1>5. \A x \in BookingIds : payments[x]["deposit"] \in Int /\ payments[x]["balance"] \in Int
    BY DEF TypeOK, BookingsTypeOK, PaymentTypes
<1>6. bookings'[b].depositPaid = depositPaid /\ bookings'[b].balancePaid = balancePaid
    <2>1. bookings[b] \in BookingRow /\ b \in DOMAIN bookings
        BY <1>1 DEF TypeOK, BookingsTypeOK
    <2> QED
        BY <2>1 DEF CommitAddPayment, BookingRow
<1>7. payments' = [payments EXCEPT ![b][type] = @ + amount]
    BY DEF CommitAddPayment
<1>8. \A x \in BookingIds : x # b => bookings'[x] = bookings[x]
    BY DEF CommitAddPayment, TypeOK, BookingsTypeOK
<1>9. UNCHANGED <<charges, hooks>>
    BY DEF liqPayVars
<1>10. \A x \in Desks : desk'[x] = desk[x] \/ DeskBacked(x)'
    BY DEF CommitAddPayment, DeskBacked, NoRequest, TypeOK, BookingsTypeOK
<1>11. depositPaid + balancePaid <= seen.depositPaid + seen.balancePaid
              + (IF type \in {"deposit", "balance"} THEN amount ELSE 0)
    <2>1. /\ Credit(seen.depositPaid, amount, seen.depositAmount) \in Int
          /\ Credit(seen.depositPaid, amount, seen.depositAmount) <= seen.depositPaid + amount
          /\ Credit(seen.balancePaid, amount, seen.balanceAmount) \in Int
          /\ Credit(seen.balancePaid, amount, seen.balanceAmount) <= seen.balancePaid + amount
        BY <1>1, <1>3, CreditBounds
    <2> HIDE DEF type, amount, seen
    <2>2. CASE type = "deposit"
        BY <1>1, <1>3, <2>1, <2>2
    <2>3. CASE type = "balance"
        BY <1>1, <1>3, <2>1, <2>3
    <2>4. CASE type \notin {"deposit", "balance"}
        BY <1>1, <1>3, <2>4
    <2> QED
        BY <2>2, <2>3, <2>4
<1>12. depositPaid \in Int /\ balancePaid \in Int
    BY <1>1, <1>3, CreditBounds
<1> HIDE DEF b, type, amount, depositPaid, balancePaid
<1>13. payments'[b]["deposit"] + payments'[b]["balance"] =
           payments[b]["deposit"] + payments[b]["balance"]
              + (IF type \in {"deposit", "balance"} THEN amount ELSE 0)
    BY <1>1, <1>5, <1>7 DEF TypeOK, BookingsTypeOK, PaymentTypes
<1>14. depositPaid + balancePaid <= payments'[b]["deposit"] + payments'[b]["balance"]
    BY <1>1, <1>3, <1>4, <1>5, <1>11, <1>12, <1>13
<1>15. TotalPaid(bookings'[b]) <= payments'[b]["deposit"] + payments'[b]["balance"]
    BY <1>6, <1>14 DEF TotalPaid
<1>16. ReceiptsGrow
    BY <1>1, <1>5, <1>7 DEF ReceiptsGrow, TypeOK, BookingsTypeOK, PaymentTypes
<1>17. ChargesKept
    BY <1>9 DEF ChargesKept
<1>18. \A x \in BookingIds : \/ TotalPaid(bookings'[x]) = TotalPaid(bookings[x])
                              \/ TotalPaid(bookings'[x]) <= Received(x)'
    BY <1>8, <1>15 DEF Received
<1> QED
    BY <1>9, <1>10, <1>16, <1>17, <1>18, MoneyFrame

LEMMA DeskStepMoney ==
    ASSUME TypeOK, TypeOK', MoneyInv, DeskStep, UNCHANGED liqPayVars
    PROVE  MoneyInv'
BY CreateBookingMoney, BeginRequestMoney, CommitChangeStatusMoney, CommitAddPaymentMoney,
   CommitCancelMoney, AbandonRequestMoney DEF DeskStep

\* A charge keeps its booking from the moment it is paid.
LEMMA GatewayMoney ==
    ASSUME TypeOK, TypeOK', MoneyInv, UNCHANGED desk, NEW c \in Charges,
           \/ \E b \in BookingIds, amount \in ChargeAmounts, kind \in {"deposit", "final_payment"} :
                  PayAtGateway(c, b, kind, amount)
           \/ ReverseAtGateway(c)
    PROVE  MoneyInv'
<1>1. UNCHANGED <<bookings, payments, hooks>>
    BY DEF PayAtGateway, ReverseAtGateway
<1>2. \A x \in BookingIds : payments[x]["deposit"] \in Int /\ payments[x]["balance"] \in Int
    BY DEF TypeOK, BookingsTypeOK, PaymentTypes
<1>3. ReceiptsGrow
    BY <1>1, <1>2 DEF ReceiptsGrow
<1>4. ChargesKept
    <2>1. ASSUME NEW b \in BookingIds, NEW amount \in ChargeAmounts,
                 NEW kind \in {"deposit", "final_payment"}, PayAtGateway(c, b, kind, amount)
          PROVE  ChargesKept
        BY <2>1 DEF PayAtGateway, ChargesKept, TypeOK, LiqPayTypeOK
    <2>2. ASSUME ReverseAtGateway(c) PROVE ChargesKept
        BY <2>2 DEF ReverseAtGateway, ChargesKept, TypeOK, LiqPayTypeOK, Charge
    <2> QED
        BY <2>1, <2>2
<1> QED
    BY <1>1, <1>3, <1>4, MoneyFrame

LEMMA HandleReversalMoney ==
    ASSUME TypeOK, TypeOK', MoneyInv, UNCHANGED desk, NEW c \in Charges, HandleReversal(c)
    PROVE  MoneyInv'
<1>1. \A x \in BookingIds : /\ bookings'[x].depositPaid = bookings[x].depositPaid
                             /\ bookings'[x].balancePaid = bookings[x].balancePaid
    BY DEF HandleReversal, TypeOK, BookingsTypeOK, BookingRow
<1>2. \A x \in BookingIds : TotalPaid(bookings'[x]) = TotalPaid(bookings[x])
    BY <1>1 DEF TotalPaid
<1>3. \A x \in BookingIds : payments[x]["deposit"] \in Int /\ payments[x]["balance"] \in Int
    BY DEF TypeOK, BookingsTypeOK, PaymentTypes
<1>4. \A x \in BookingIds : /\ payments'[x]["deposit"] = payments[x]["deposit"]
                             /\ payments'[x]["balance"] = payments[x]["balance"]
    BY DEF HandleReversal, TypeOK, BookingsTypeOK, PaymentTypes
<1>5. UNCHANGED <<charges, hooks>>
    BY DEF HandleReversal
<1>6. ReceiptsGrow /\ ChargesKept
    BY <1>3, <1>4, <1>5 DEF ReceiptsGrow, ChargesKept
<1> QED
    BY <1>2, <1>5, <1>6, MoneyFrame

LEMMA HookMoney ==
    ASSUME TypeOK, TypeOK', MoneyInv, UNCHANGED desk, NEW h \in Hooks,
           (\E c \in Charges : BeginSuccess(h, c)) \/ AbandonHook(h)
    PROVE  MoneyInv'
<1>1. UNCHANGED <<bookings, payments, charges>>
    BY DEF BeginSuccess, AbandonHook
<1>2. \A x \in BookingIds : payments[x]["deposit"] \in Int /\ payments[x]["balance"] \in Int
    BY DEF TypeOK, BookingsTypeOK, PaymentTypes
<1>3. ReceiptsGrow /\ ChargesKept
    BY <1>1, <1>2 DEF ReceiptsGrow, ChargesKept
<1>4. \A x \in Hooks : x # h => hooks'[x] = hooks[x]
    BY DEF BeginSuccess, AbandonHook, TypeOK, LiqPayTypeOK
<1>5. HookBacked(h)'
    <2>1. ASSUME NEW c \in Charges, BeginSuccess(h, c) PROVE HookBacked(h)'
        <3>1. hooks'[h].charge = c /\ hooks'[h].seen = bookings[charges[c].booking]
            BY <2>1 DEF BeginSuccess, TypeOK, LiqPayTypeOK
        <3>2. charges[c].state # "none" /\ charges[c].booking \in BookingIds
            BY <2>1 DEF BeginSuccess, TypeOK, LiqPayTypeOK, Charge
        <3>3. TotalPaid(bookings[charges[c].booking]) <= Received(charges[c].booking)
            BY <3>2 DEF MoneyInv, PaidIsBacked
        <3> QED
            BY <1>1, <3>1, <3>2, <3>3 DEF HookBacked, Received
    <2>2. ASSUME AbandonHook(h) PROVE HookBacked(h)'
        BY <2>2 DEF AbandonHook, HookBacked, NoHook, TypeOK, LiqPayTypeOK
    <2> QED
        BY <2>1, <2>2
<1> QED
    BY <1>1, <1>3, <1>4, <1>5, MoneyFrame

LEMMA CommitSuccessMoney ==
    ASSUME TypeOK, TypeOK', MoneyInv, UNCHANGED desk, NEW h \in Hooks, CommitSuccess(h)
    PROVE  MoneyInv'
<1> DEFINE c           == hooks[h].charge
           b           == charges[c].booking
           seen        == hooks[h].seen
           amount      == charges[c].amount
           isDeposit   == IsDepositPayment(charges[c].kind, seen.depositPaid)
           type        == IF isDeposit THEN "deposit" ELSE "balance"
           depositPaid == DepositAfter(seen, isDeposit, amount)
           balancePaid == seen.balancePaid + (IF isDeposit THEN 0 ELSE amount)
<1>1. c \in Charges /\ seen \in BookingRow
    BY DEF TypeOK, LiqPayTypeOK, Hook
<1>2. b \in BookingIds /\ amount \in Nat
    BY <1>1 DEF TypeOK, LiqPayTypeOK, Charge
<1>3. seen.depositPaid \in Int /\ seen.balancePaid \in Int
    BY <1>1 DEF BookingRow
<1>4. seen.depositPaid + seen.balancePaid <= payments[b]["deposit"] + payments[b]["balance"]
    BY DEF CommitSuccess, MoneyInv, HookBacked, TotalPaid, Received
<1>5. \A x \in BookingIds : payments[x]["deposit"] \in Int /\ payments[x]["balance"] \in Int
    BY DEF TypeOK, BookingsTypeOK, PaymentTypes
<1>6. depositPaid + balancePaid = seen.depositPaid + seen.balancePaid + amount
    BY <1>2, <1>3 DEF DepositAfter
<1>7. bookings'[b].depositPaid = depositPaid /\ bookings'[b].balancePaid = balancePaid
    <2>1. bookings[b] \in BookingRow /\ b \in DOMAIN bookings
        BY <1>2 DEF TypeOK, BookingsTypeOK
    <2> QED
        BY <2>1 DEF CommitSuccess, BookingRow
<1>8. payments' = [payments EXCEPT ![b][type] = @ + amount]
    BY DEF CommitSuccess
<1>9. \A x \in BookingIds : x # b => bookings'[x] = bookings[x]
    BY DEF CommitSuccess, TypeOK, BookingsTypeOK
<1>10. UNCHANGED charges
    BY DEF CommitSuccess
<1>11. \A x \in Hooks : hooks'[x] = hooks[x] \/ HookBacked(x)'
    BY DEF CommitSuccess, HookBacked, NoHook, TypeOK, LiqPayTypeOK
<1>12. type \in {"deposit", "balance"}
    OBVIOUS
<1> HIDE DEF c, b, amount, type, depositPaid, balancePaid
<1>13. payments'[b]["deposit"] + payments'[b]["balance"] =
           payments[b]["deposit"] + payments[b]["balance"] + amount
    BY <1>2, <1>5, <1>8, <1>12 DEF TypeOK, BookingsTypeOK, PaymentTypes
<1>14. TotalPaid(bookings'[b]) <= payments'[b]["deposit"] + payments'[b]["balance"]
    BY <1>2, <1>3, <1>4, <1>5, <1>6, <1>7, <1>13 DEF TotalPaid
<1>15. ReceiptsGrow
    BY <1>2, <1>5, <1>8, <1>12 DEF ReceiptsGrow, TypeOK, BookingsTypeOK, PaymentTypes
<1>16. ChargesKept
    BY <1>10 DEF ChargesKept
<1>17. \A x \in BookingIds : \/ TotalPaid(bookings'[x]) = TotalPaid(bookings[x])
                              \/ TotalPaid(bookings'[x]) <= Received(x)'
    BY <1>9, <1>14 DEF Received
<1> QED
    BY <1>11, <1>15, <1>16, <1>17, MoneyFrame

LEMMA LiqPayStepMoney ==
    ASSUME TypeOK, TypeOK', MoneyInv, LiqPayStep, UNCHANGED desk
    PROVE  MoneyInv'
BY GatewayMoney, HandleReversalMoney, HookMoney, CommitSuccessMoney DEF LiqPayStep

LEMMA MoneyInit == Init => MoneyInv
<1> SUFFICES ASSUME Init PROVE MoneyInv
    OBVIOUS
<1>1. \A b \in BookingIds : payments[b]["deposit"] = 0 /\ payments[b]["balance"] = 0
    BY DEF Init, BookingsInit, PaymentTypes
<1>2. \A b \in BookingIds : bookings[b].depositPaid = 0 /\ bookings[b].balancePaid = 0
    BY DEF Init, BookingsInit, NoBookingRow
<1>3. \A d \in Desks : DeskBacked(d)
    BY DEF Init, BookingsInit, NoRequest, DeskBacked
<1>4. \A h \in Hooks : HookBacked(h)
    BY DEF Init, LiqPayInit, NoHook, HookBacked
<1> QED
    BY <1>1, <1>2, <1>3, <1>4
    DEF MoneyInv, ReceiptsNeverNegative, PaidIsBacked, TotalPaid, Received

LEMMA MoneyStep == TypeOK /\ TypeOK' /\ MoneyInv /\ [Next]_vars => MoneyInv'
<1> SUFFICES ASSUME TypeOK, TypeOK', MoneyInv, [Next]_vars PROVE MoneyInv'
    OBVIOUS
<1>1. CASE DeskStep /\ UNCHANGED <<plans, liqPayVars>>
    BY <1>1, DeskStepMoney
<1>2. CASE LiqPayStep /\ UNCHANGED <<tourVars, desk>>
    BY <1>2, LiqPayStepMoney
<1>3. CASE UNCHANGED <<bookingVars, liqPayVars>>
    BY <1>3, DeskOnlyMoney DEF bookingVars, liqPayVars
<1> QED
    BY <1>1, <1>2, <1>3 DEF Next, vars

\* However desks, callbacks and their stale reads interleave, no booking
\* counts as paid what was not received for it.
THEOREM PaidAmountsAreBacked == Spec => []PaidIsBacked
<1>1. MoneyInv => PaidIsBacked
    BY DEF MoneyInv
<1> QED
    BY <1>1, InitType, StepType, MoneyInit, MoneyStep, PTL DEF Spec

(***************************************************************************)
(* What every Contention keeps                                             *)
(***************************************************************************)

Used == {b \in BookingIds : BookingExists(b)}

\* A tour has the seats some request gave it, a free id none; a plan in flight
\* is about a tour that exists.
ToursInv ==
    /\ \A t \in Tours :
          /\ TourExists(t) => tours[t].totalSeats \in Capacities \union Resizes
          /\ ~TourExists(t) => tours[t].totalSeats = 0 /\ tours[t].availableSeats = 0
    /\ \A p \in Planners :
          /\ plans[p].op # "idle" => TourExists(plans[p].tour)
          /\ plans[p].op = "resize" => plans[p].seats \in Resizes

\* Finitely many ids are in use, for somebody and on a tour that exists; the
\* others have never been written.
RowsInv ==
    /\ IsFiniteSet(Used)
    /\ \A b \in BookingIds :
          /\ BookingExists(b) => bookings[b].persons >= 1 /\ TourExists(bookings[b].tour)
          /\ ~BookingExists(b) => bookings[b] = NoBookingRow

\* A request or a callback in flight is about a booking that exists, and what
\* it has read is a row of one.
RequestsInv ==
    /\ \A d \in Desks :
          /\ desk[d].op # "idle" => BookingExists(desk[d].booking)
          /\ desk[d].op = "payment" => desk[d].seen.status # "none"
    /\ \A h \in Hooks : hooks[h].busy =>
          /\ charges[hooks[h].charge].state # "none"
          /\ BookingExists(charges[hooks[h].charge].booking)
          /\ hooks[h].seen.status # "none"

BaseInv == ToursInv /\ RowsInv /\ RequestsInv

(***************************************************************************)
(* One plan at a tour                                                      *)
(***************************************************************************)

OnePlanPerTour == "tour" \notin Contention \/ \A p, q \in Planners : p = q

FreshPlans ==
    /\ \A p, q \in Planners :
          plans[p].op # "idle" /\ plans[q].op # "idle" /\ plans[p].tour = plans[q].tour => p = q
    /\ \A p \in Planners :
          plans[p].op = "resize" => plans[p].seen = tours[plans[p].tour].totalSeats

(***************************************************************************)
(* One request at a booking                                                *)
(***************************************************************************)

ChargedBooking(h) == charges[hooks[h].charge].booking

\* No two requests or callbacks in flight are about one booking.
Apart ==
    /\ \A d, e \in Desks :
          desk[d].op # "idle" /\ desk[e].op # "idle" /\ desk[d].booking = desk[e].booking => d = e
    /\ \A d \in Desks, h \in Hooks :
          desk[d].op # "idle" /\ hooks[h].busy => desk[d].booking # ChargedBooking(h)
    /\ \A h, k \in Hooks :
          hooks[h].busy /\ hooks[k].busy /\ ChargedBooking(h) = ChargedBooking(k) => h = k

\* What a request has checked and read still stands when it writes.
FreshReads ==
    /\ \A d \in Desks :
          LET row == bookings[desk[d].booking]
          IN  /\ desk[d].op \in {"status", "cancel"} => IsValidStatusTransition(row.status, desk[d].to)
              /\ desk[d].op = "cancel" => desk[d].to \in {"cancelled_client", "cancelled_operator"}
              /\ desk[d].op = "payment" =>
                    /\ desk[d].seen = row
                    /\ ~IsTerminalStatus(row.status) \/ row.status = "completed"
    /\ \A h \in Hooks : hooks[h].busy => hooks[h].seen = bookings[ChargedBooking(h)]

\* Seats that have been given back belong to a cancelled booking.
ReleasedAreCancelled ==
    \A b \in BookingIds : bookings[b].commission = "cancelled" =>
        bookings[b].status \in CancelledStatuses

OrderInv == Apart /\ FreshReads /\ ReleasedAreCancelled

(***************************************************************************)
(* The steps, by what they do to the seats                                 *)
(***************************************************************************)

\* The booking keeps its tour, its persons, its price and its seats.
Kept(b) ==
    /\ bookings'[b].tour = bookings[b].tour
    /\ bookings'[b].persons = bookings[b].persons
    /\ bookings'[b].total = bookings[b].total
    /\ bookings'[b].depositAmount = bookings[b].depositAmount
    /\ bookings'[b].commission = bookings[b].commission
    /\ IF BookingExists(b) THEN bookings'[b].status # "none" ELSE bookings'[b] = bookings[b]

LEMMA UnchangedIsKept ==
    ASSUME NEW b, bookings'[b] = bookings[b]
    PROVE  Kept(b)
BY DEF Kept, BookingExists

LEMMA RequestedExist ==
    ASSUME TypeOK, RequestsInv, NEW d \in Desks, desk[d].op # "idle"
    PROVE  /\ desk[d].booking \in BookingIds /\ BookingExists(desk[d].booking)
           /\ bookings[desk[d].booking] \in BookingRow
<1>1. desk[d].booking \in BookingIds
    BY DEF TypeOK, BookingsTypeOK, DeskRequest
<1> QED
    BY <1>1 DEF RequestsInv, TypeOK, BookingsTypeOK

LEMMA ChargedExist ==
    ASSUME TypeOK, RequestsInv, NEW h \in Hooks, hooks[h].busy
    PROVE  /\ hooks[h].charge \in Charges
           /\ ChargedBooking(h) \in BookingIds /\ BookingExists(ChargedBooking(h))
           /\ bookings[ChargedBooking(h)] \in BookingRow
<1>1. hooks[h].charge \in Charges
    BY DEF TypeOK, LiqPayTypeOK, Hook
<1>2. ChargedBooking(h) \in BookingIds
    BY <1>1 DEF TypeOK, LiqPayTypeOK, Charge, ChargedBooking
<1> QED
    BY <1>1, <1>2 DEF RequestsInv, TypeOK, BookingsTypeOK, ChargedBooking

LEMMA CommitChangeStatusKeeps ==
    ASSUME TypeOK, RequestsInv, NEW d \in Desks, CommitChangeStatus(d)
    PROVE  \A b \in BookingIds : Kept(b)
<1>1. /\ desk[d].booking \in BookingIds /\ BookingExists(desk[d].booking)
      /\ bookings[desk[d].booking] \in BookingRow
    BY RequestedExist DEF CommitChangeStatus
<1>2. desk[d].to # "none"
    BY DEF TypeOK, BookingsTypeOK, DeskRequest, Statuses
<1>3. bookings' = [bookings EXCEPT ![desk[d].booking] =
                      [bookings[desk[d].booking] EXCEPT !.status = desk[d].to]]
    BY DEF CommitChangeStatus
<1>4. Kept(desk[d].booking)
    BY <1>1, <1>2, <1>3 DEF Kept, BookingRow, TypeOK, BookingsTypeOK
<1>5. \A b \in BookingIds : b # desk[d].booking => bookings'[b] = bookings[b]
    BY <1>3 DEF TypeOK, BookingsTypeOK
<1> QED
    BY <1>4, <1>5, UnchangedIsKept

LEMMA StatusAfterPaymentExists ==
    ASSUME NEW status, status # "none", NEW paymentStatus
    PROVE  StatusAfterPayment(status, paymentStatus) # "none"
BY DEF StatusAfterPayment

LEMMA ResolveNextStatusExists ==
    ASSUME NEW status, status # "none", NEW totalPaid, NEW total
    PROVE  ResolveNextStatus(status, totalPaid, total) # "none"
BY DEF ResolveNextStatus

LEMMA CommitAddPaymentKeeps ==
    ASSUME TypeOK, RequestsInv, NEW d \in Desks, CommitAddPayment(d)
    PROVE  \A b \in BookingIds : Kept(b)
<1>1. /\ desk[d].booking \in BookingIds /\ BookingExists(desk[d].booking)
      /\ bookings[desk[d].booking] \in BookingRow
    BY RequestedExist DEF CommitAddPayment
<1>2. PICK depositPaid, balancePaid, paymentStatus, status :
          /\ bookings' = [bookings EXCEPT ![desk[d].booking] =
                 [bookings[desk[d].booking] EXCEPT !.depositPaid = depositPaid,
                      !.balancePaid = balancePaid, !.paymentStatus = paymentStatus,
                      !.status = status]]
          /\ status = StatusAfterPayment(desk[d].seen.status, paymentStatus)
    BY DEF CommitAddPayment
<1>3. status # "none"
    BY <1>2, StatusAfterPaymentExists DEF RequestsInv, CommitAddPayment
<1>4. Kept(desk[d].booking)
    BY <1>1, <1>2, <1>3 DEF Kept, BookingRow, TypeOK, BookingsTypeOK
<1>5. \A b \in BookingIds : b # desk[d].booking => bookings'[b] = bookings[b]
    BY <1>2 DEF TypeOK, BookingsTypeOK
<1> QED
    BY <1>4, <1>5, UnchangedIsKept

LEMMA CommitSuccessKeeps ==
    ASSUME TypeOK, RequestsInv, NEW h \in Hooks, CommitSuccess(h)
    PROVE  \A b \in BookingIds : Kept(b)
<1>1. /\ ChargedBooking(h) \in BookingIds /\ BookingExists(ChargedBooking(h))
      /\ bookings[ChargedBooking(h)] \in BookingRow
    BY ChargedExist DEF CommitSuccess
<1> DEFINE c           == hooks[h].charge
           seen        == hooks[h].seen
           isDeposit   == IsDepositPayment(charges[c].kind, seen.depositPaid)
           depositPaid == DepositAfter(seen, isDeposit, charges[c].amount)
           balancePaid == seen.balancePaid + (IF isDeposit THEN 0 ELSE charges[c].amount)
           totalPaid   == depositPaid + balancePaid
           balanceAmount == Greatest(0, seen.total - totalPaid)
           paymentStatus == ResolvePaymentStatus(totalPaid, seen.depositAmount, seen.total)
           status      == ResolveNextStatus(seen.status, totalPaid, seen.total)
<1>2. bookings' = [bookings EXCEPT ![ChargedBooking(h)] =
          [bookings[ChargedBooking(h)] EXCEPT !.depositPaid = depositPaid,
               !.balancePaid = balancePaid, !.balanceAmount = balanceAmount,
               !.paymentStatus = paymentStatus, !.status = status]]
    BY DEF CommitSuccess, ChargedBooking
<1>3. status # "none"
    BY ResolveNextStatusExists DEF RequestsInv, CommitSuccess
<1> HIDE DEF depositPaid, balancePaid, balanceAmount, paymentStatus, status
<1>4. Kept(ChargedBooking(h))
    BY <1>1, <1>2, <1>3 DEF Kept, BookingRow, TypeOK, BookingsTypeOK
<1>5. \A b \in BookingIds : b # ChargedBooking(h) => bookings'[b] = bookings[b]
    BY <1>2 DEF TypeOK, BookingsTypeOK
<1> QED
    BY <1>4, <1>5, UnchangedIsKept

LEMMA HandleReversalKeeps ==
    ASSUME TypeOK, NEW c \in Charges, HandleReversal(c)
    PROVE  \A b \in BookingIds : Kept(b)
<1> DEFINE b == charges[c].booking
<1>1. b \in BookingIds /\ bookings[b] \in BookingRow
    BY DEF TypeOK, LiqPayTypeOK, Charge, BookingsTypeOK
<1>2. /\ bookings' = [bookings EXCEPT ![b] =
              [bookings[b] EXCEPT !.status = "refund", !.paymentStatus = "unpaid"]]
      /\ BookingExists(b)
    BY DEF HandleReversal
<1> HIDE DEF b
<1>3. Kept(b)
    BY <1>1, <1>2 DEF Kept, BookingRow, TypeOK, BookingsTypeOK
<1>4. \A x \in BookingIds : x # b => bookings'[x] = bookings[x]
    BY <1>2 DEF TypeOK, BookingsTypeOK
<1> QED
    BY <1>3, <1>4, UnchangedIsKept

\* Whatever a desk or a callback does besides creating and cancelling, it
\* leaves the seats and who holds them alone.
Quiet == UNCHANGED tours /\ \A b \in BookingIds : Kept(b)

LEMMA DeskStepKinds ==
    ASSUME TypeOK, RequestsInv, DeskStep
    PROVE  \/ \E d \in Desks, b \in BookingIds, t \in Tours, offer \in Offers :
                 \E agent \in EffectiveAgents(d) : CreateBooking(d, b, t, offer, agent)
           \/ \E d \in Desks : CommitCancel(d)
           \/ Quiet
<1>1. ASSUME NEW d \in Desks, CommitChangeStatus(d) PROVE Quiet
    BY <1>1, CommitChangeStatusKeeps DEF CommitChangeStatus, Quiet
<1>2. ASSUME NEW d \in Desks, CommitAddPayment(d) PROVE Quiet
    BY <1>2, CommitAddPaymentKeeps DEF CommitAddPayment, Quiet
<1>3. ASSUME UNCHANGED <<tours, bookings>> PROVE Quiet
    BY <1>3, UnchangedIsKept DEF Quiet
<1>4. ASSUME NEW d \in Desks, AbandonRequest(d) PROVE Quiet
    BY <1>3, <1>4 DEF AbandonRequest
<1>5. ASSUME NEW d \in Desks, NEW b \in BookingIds,
             \/ \E to \in StatusTargets : BeginChangeStatus(d, b, to)
             \/ \E type \in DeskTypes, amount \in Amounts : BeginAddPayment(d, b, type, amount)
             \/ \E cancelType \in CancelTypes, policy \in Policies, days \in DaysAhead :
                    BeginCancel(d, b, cancelType, policy, days)
      PROVE  Quiet
    BY <1>3, <1>5 DEF BeginChangeStatus, BeginAddPayment, BeginCancel
<1> QED
    BY <1>1, <1>2, <1>4, <1>5 DEF DeskStep

LEMMA LiqPayStepIsQuiet ==
    ASSUME TypeOK, RequestsInv, LiqPayStep, UNCHANGED tours
    PROVE  Quiet
<1>1. ASSUME UNCHANGED bookings PROVE Quiet
    BY <1>1, UnchangedIsKept DEF Quiet
<1>2. ASSUME NEW c \in Charges,
             \/ \E b \in BookingIds, amount \in ChargeAmounts, kind \in {"deposit", "final_payment"} :
                    PayAtGateway(c, b, kind, amount)
             \/ ReverseAtGateway(c)
      PROVE  Quiet
    BY <1>1, <1>2 DEF PayAtGateway, ReverseAtGateway
<1>3. ASSUME NEW h \in Hooks, (\E c \in Charges : BeginSuccess(h, c)) \/ AbandonHook(h) PROVE Quiet
    BY <1>1, <1>3 DEF BeginSuccess, AbandonHook
<1>4. ASSUME NEW h \in Hooks, CommitSuccess(h) PROVE Quiet
    BY <1>4, CommitSuccessKeeps DEF Quiet
<1>5. ASSUME NEW c \in Charges, HandleReversal(c) PROVE Quiet
    BY <1>5, HandleReversalKeeps DEF Quiet
<1> QED
    BY <1>2, <1>3, <1>4, <1>5 DEF LiqPayStep

LEMMA StepKinds ==
    ASSUME TypeOK, RequestsInv, [Next]_vars
    PROVE  \/ TourStep /\ UNCHANGED <<bookingVars, liqPayVars>>
           \/ /\ UNCHANGED <<plans, liqPayVars>>
              /\ \/ \E d \in Desks, b \in BookingIds, t \in Tours, offer \in Offers :
                       \E agent \in EffectiveAgents(d) : CreateBooking(d, b, t, offer, agent)
                 \/ \E d \in Desks : CommitCancel(d)
           \/ Quiet /\ UNCHANGED plans
<1>1. CASE UNCHANGED vars
    BY <1>1, UnchangedIsKept DEF Quiet, vars, tourVars, bookingVars
<1>2. CASE DeskStep /\ UNCHANGED <<plans, liqPayVars>>
    BY <1>2, DeskStepKinds
<1>3. CASE LiqPayStep /\ UNCHANGED <<tourVars, desk>>
    BY <1>3, LiqPayStepIsQuiet DEF tourVars
<1> QED
    BY <1>1, <1>2, <1>3 DEF Next

(***************************************************************************)
(* The effects of the two steps that move seats                            *)
(***************************************************************************)

LEMMA CreateBookingEffect ==
    ASSUME TypeOK, NEW d \in Desks, NEW b \in BookingIds, NEW t \in Tours, NEW offer \in Offers,
           NEW agent \in EffectiveAgents(d), CreateBooking(d, b, t, offer, agent)
    PROVE  /\ ~BookingExists(b)
           /\ bookings'[b].status = "new" /\ bookings'[b].tour = t
           /\ bookings'[b].persons = offer.persons /\ offer.persons \in Nat \ {0}
           /\ bookings'[b].commission # "cancelled"
           /\ \A x \in BookingIds : x # b => bookings'[x] = bookings[x]
           /\ CanClaim(t, offer.persons) /\ Claim(t, offer.persons)
           /\ UNCHANGED <<payments, desk>>
<1>1. offer.persons \in Nat \ {0}
    BY RequestAssumption
<1>2. PICK commission, total, deposit, balance :
          /\ commission # "cancelled"
          /\ bookings' = [bookings EXCEPT ![b] =
                 [NoBookingRow EXCEPT !.status = "new", !.tour = t, !.agent = agent,
                     !.persons = offer.persons, !.total = total, !.depositAmount = deposit,
                     !.balanceAmount = balance, !.commission = commission,
                     !.agentCommission = commission]]
    BY DEF CreateBooking
<1>3. /\ bookings'[b].status = "new" /\ bookings'[b].tour = t
      /\ bookings'[b].persons = offer.persons
      /\ bookings'[b].commission # "cancelled"
    BY <1>2 DEF TypeOK, BookingsTypeOK, NoBookingRow
<1>4. \A x \in BookingIds : x # b => bookings'[x] = bookings[x]
    BY <1>2 DEF TypeOK, BookingsTypeOK
<1>5. ~BookingExists(b) /\ CanClaim(t, offer.persons) /\ Claim(t, offer.persons)
      /\ UNCHANGED <<payments, desk>>
    BY DEF CreateBooking
<1> QED
    BY <1>1, <1>3, <1>4, <1>5

LEMMA CommitCancelEffect ==
    ASSUME TypeOK, RequestsInv, NEW d \in Desks, CommitCancel(d)
    PROVE  LET b == desk[d].booking
           IN  /\ b \in BookingIds /\ BookingExists(b) /\ bookings[b].tour \in Tours
               /\ bookings[b].persons \in Nat
               /\ bookings'[b].status = desk[d].to /\ desk[d].to \in Statuses
               /\ bookings'[b].tour = bookings[b].tour
               /\ bookings'[b].persons = bookings[b].persons
               /\ bookings'[b].commission = "cancelled"
               /\ \A x \in BookingIds : x # b => bookings'[x] = bookings[x]
               /\ Release(bookings[b].tour, bookings[b].persons)
               /\ desk[d].op = "cancel" /\ desk' = [desk EXCEPT ![d] = NoRequest]
<1> DEFINE b == desk[d].booking
<1>1. b \in BookingIds /\ BookingExists(b) /\ bookings[b] \in BookingRow
    BY RequestedExist DEF CommitCancel
<1>2. bookings[b].tour \in Tours /\ bookings[b].persons \in Nat
    BY <1>1 DEF BookingRow
<1>3. desk[d].to \in Statuses
    BY DEF TypeOK, BookingsTypeOK, DeskRequest
<1>4. PICK agentCommission :
          bookings' = [bookings EXCEPT ![b] =
              [bookings[b] EXCEPT !.status = desk[d].to, !.commission = "cancelled",
                                  !.agentCommission = agentCommission]]
    BY DEF CommitCancel
<1>5. /\ Release(bookings[b].tour, bookings[b].persons)
      /\ desk[d].op = "cancel" /\ desk' = [desk EXCEPT ![d] = NoRequest]
    BY DEF CommitCancel
<1> HIDE DEF b
<1>6. /\ bookings'[b].status = desk[d].to
      /\ bookings'[b].tour = bookings[b].tour
      /\ bookings'[b].persons = bookings[b].persons
      /\ bookings'[b].commission = "cancelled"
    BY <1>1, <1>4 DEF TypeOK, BookingsTypeOK, BookingRow
<1>7. \A x \in BookingIds : x # b => bookings'[x] = bookings[x]
    BY <1>4 DEF TypeOK, BookingsTypeOK
<1> USE DEF b
<1> QED
    BY <1>1, <1>2, <1>3, <1>5, <1>6, <1>7

\* A booking, once made, is never unmade.
LEMMA BookingsLast ==
    ASSUME TypeOK, RequestsInv, [Next]_vars, NEW b \in BookingIds, BookingExists(b)
    PROVE  BookingExists(b)'
<1>1. CASE UNCHANGED bookings
    BY <1>1 DEF BookingExists
<1>2. ASSUME NEW d \in Desks, NEW x \in BookingIds, NEW t \in Tours, NEW offer \in Offers,
             NEW agent \in EffectiveAgents(d), CreateBooking(d, x, t, offer, agent)
      PROVE  BookingExists(b)'
    BY <1>2, CreateBookingEffect DEF BookingExists
<1>3. ASSUME NEW d \in Desks, CommitCancel(d) PROVE BookingExists(b)'
    <2>1. "none" \notin Statuses
        BY DEF Statuses
    <2> QED
        BY <1>3, <2>1, CommitCancelEffect DEF BookingExists
<1>4. CASE Quiet
    BY <1>4 DEF Quiet, Kept, BookingExists
<1> QED
    BY <1>1, <1>2, <1>3, <1>4, StepKinds DEF bookingVars

(***************************************************************************)
(* BaseInv is kept                                                         *)
(***************************************************************************)

\* The tour office never unmakes a tour and makes it only with seats that
\* somebody asked for.
LEMMA TourStepTours ==
    ASSUME TypeOK, ToursInv, TourStep
    PROVE  ToursInv' /\ \A t \in Tours : TourExists(t) => TourExists(t)'
<1> USE DEF TourExists
<1> DEFINE Goal == ToursInv' /\ \A t \in Tours : TourExists(t) => TourExists(t)'
<1>1. ASSUME NEW t \in Tours, NEW seats \in Capacities \union Resizes, CreateTour(t, seats)
      PROVE  Goal
    <2>1. /\ tours'[t].status = "draft" /\ tours'[t].totalSeats = seats
          /\ \A x \in Tours : x # t => tours'[x] = tours[x]
          /\ UNCHANGED plans /\ ~TourExists(t)
        BY <1>1 DEF CreateTour, TypeOK, ToursTypeOK
    <2>2. \A p \in Planners : plans[p].tour \in Tours
        BY DEF TypeOK, ToursTypeOK, Plan
    <2> QED
        BY <2>1, <2>2 DEF ToursInv
<1>2. ASSUME NEW source \in Tours, NEW t \in Tours,
             NEW seats \in Capacities \union {tours[source].totalSeats},
             CreateDeparture(source, t, seats)
      PROVE  Goal
    <2>1. seats \in Capacities \union Resizes
        BY <1>2 DEF ToursInv, CreateDeparture, Listed
    <2> QED
        BY <1>1, <1>2, <2>1 DEF CreateDeparture
<1>3. ASSUME NEW p \in Planners, NEW t \in Tours, UNCHANGED tours, TourExists(t),
             NEW plan, plans' = [plans EXCEPT ![p] = plan], plan.tour = t,
             plan.op = "resize" => plan.seats \in Resizes
      PROVE  Goal
    BY <1>3 DEF ToursInv, TypeOK, ToursTypeOK
<1>4. ASSUME NEW p \in Planners, NEW t \in Tours, NEW seats \in Resizes, BeginResize(p, t, seats)
      PROVE  Goal
    <2> DEFINE plan == [NoPlan EXCEPT !.op = "resize", !.tour = t,
                                      !.seen = tours[t].totalSeats, !.seats = seats]
    <2>1. plan.tour = t /\ plan.seats = seats
        BY DEF NoPlan
    <2>2. plans' = [plans EXCEPT ![p] = plan] /\ UNCHANGED tours /\ TourExists(t)
        BY <1>4 DEF BeginResize, Listed
    <2> HIDE DEF plan
    <2> QED
        BY <1>3, <2>1, <2>2
<1>5. ASSUME NEW p \in Planners, NEW t \in Tours, NEW to \in TourTargets,
             BeginTourStatus(p, t, to)
      PROVE  Goal
    <2> DEFINE plan == [NoPlan EXCEPT !.op = "status", !.tour = t, !.to = to]
    <2>1. plan.tour = t /\ plan.op = "status"
        BY DEF NoPlan
    <2>2. plans' = [plans EXCEPT ![p] = plan] /\ UNCHANGED tours /\ TourExists(t)
        BY <1>5 DEF BeginTourStatus, Listed
    <2> HIDE DEF plan
    <2> QED
        BY <1>3, <2>1, <2>2
<1>6. ASSUME NEW p \in Planners, NEW t \in Tours, BeginArchive(p, t) PROVE Goal
    <2> DEFINE plan == [NoPlan EXCEPT !.op = "archive", !.tour = t]
    <2>1. plan.tour = t /\ plan.op = "archive"
        BY DEF NoPlan
    <2>2. plans' = [plans EXCEPT ![p] = plan] /\ UNCHANGED tours /\ TourExists(t)
        BY <1>6 DEF BeginArchive, Listed
    <2> HIDE DEF plan
    <2> QED
        BY <1>3, <2>1, <2>2
<1>7. ASSUME NEW p \in Planners, plans[p].op # "idle", plans' = [plans EXCEPT ![p] = NoPlan],
             NEW row, tours' = [tours EXCEPT ![plans[p].tour] = row], row.status # "none",
             row.totalSeats \in Capacities \union Resizes
      PROVE  Goal
    <2>1. plans[p].tour \in Tours /\ TourExists(plans[p].tour)
        BY <1>7 DEF ToursInv, TypeOK, ToursTypeOK, Plan
    <2>2. \A q \in Planners : plans'[q] = plans[q] \/ plans'[q].op = "idle"
        BY <1>7 DEF NoPlan, TypeOK, ToursTypeOK
    <2>3. \A x \in Tours : x # plans[p].tour => tours'[x] = tours[x]
        BY <1>7 DEF TypeOK, ToursTypeOK
    <2>4. tours'[plans[p].tour] = row
        BY <1>7, <2>1 DEF TypeOK, ToursTypeOK
    <2>5. \A q \in Planners : plans'[q].op = "resize" => plans'[q] = plans[q]
        BY <2>2
    <2>6. \A t \in Tours : TourExists(t) => TourExists(t)'
        BY <1>7, <2>3, <2>4
    <2>7. \A q \in Planners : plans[q].tour \in Tours
        BY DEF TypeOK, ToursTypeOK, Plan
    <2> QED
        BY <1>7, <2>1, <2>2, <2>3, <2>4, <2>5, <2>6, <2>7 DEF ToursInv
<1>8. ASSUME NEW p \in Planners, CommitResize(p) PROVE Goal
    <2> DEFINE t    == plans[p].tour
               free == tours[t].availableSeats + (plans[p].seats - plans[p].seen)
               row  == [tours[t] EXCEPT !.totalSeats = plans[p].seats, !.availableSeats = free]
    <2>1. /\ tours' = [tours EXCEPT ![t] = row]
          /\ plans' = [plans EXCEPT ![p] = NoPlan] /\ plans[p].op = "resize"
        BY <1>8 DEF CommitResize
    <2>2. /\ t \in Tours /\ tours[t].status # "none" /\ tours[t] \in Tour
          /\ plans[p].seats \in Resizes
        BY <2>1 DEF ToursInv, TypeOK, ToursTypeOK, Plan
    <2>3. row.status # "none" /\ row.totalSeats = plans[p].seats
        <3> HIDE DEF t, free
        <3> QED
            BY <2>2 DEF Tour
    <2> HIDE DEF row
    <2> QED
        BY <1>7, <2>1, <2>2, <2>3
<1>9. ASSUME NEW p \in Planners, CommitTourStatus(p) PROVE Goal
    <2> DEFINE t   == plans[p].tour
               row == [tours[t] EXCEPT !.status = plans[p].to]
    <2>1. /\ tours' = [tours EXCEPT ![t] = row]
          /\ plans' = [plans EXCEPT ![p] = NoPlan] /\ plans[p].op = "status"
        BY <1>9 DEF CommitTourStatus
    <2>2. /\ t \in Tours /\ tours[t].status # "none" /\ tours[t] \in Tour
          /\ plans[p].to # "none"
        BY <2>1 DEF ToursInv, TypeOK, ToursTypeOK, Plan, TourStatuses
    <2>3. row.status # "none" /\ row.totalSeats = tours[t].totalSeats
        <3> HIDE DEF t
        <3> QED
            BY <2>2 DEF Tour
    <2>4. tours[t].totalSeats \in Capacities \union Resizes
        BY <2>2 DEF ToursInv
    <2> HIDE DEF row
    <2> QED
        BY <1>7, <2>1, <2>3, <2>4
<1>10. ASSUME NEW p \in Planners, CommitArchive(p) PROVE Goal
    <2> DEFINE t   == plans[p].tour
               row == [tours[t] EXCEPT !.archived = TRUE]
    <2>1. /\ tours' = [tours EXCEPT ![t] = row]
          /\ plans' = [plans EXCEPT ![p] = NoPlan] /\ plans[p].op = "archive"
        BY <1>10 DEF CommitArchive
    <2>2. t \in Tours /\ tours[t].status # "none" /\ tours[t] \in Tour
        BY <2>1 DEF ToursInv, TypeOK, ToursTypeOK, Plan
    <2>3. row.status # "none" /\ row.totalSeats = tours[t].totalSeats
        <3> HIDE DEF t
        <3> QED
            BY <2>2 DEF Tour
    <2>4. tours[t].totalSeats \in Capacities \union Resizes
        BY <2>2 DEF ToursInv
    <2> HIDE DEF row
    <2> QED
        BY <1>7, <2>1, <2>3, <2>4
<1>11. ASSUME NEW p \in Planners, AbandonPlan(p) PROVE Goal
    BY <1>11 DEF AbandonPlan, NoPlan, ToursInv, TypeOK, ToursTypeOK
<1>12. ASSUME NEW t \in Tours, NEW seats \in Capacities, CreateTour(t, seats) PROVE Goal
    BY <1>1, <1>12
<1> HIDE DEF Goal
<1>13. Goal
    BY <1>2, <1>4, <1>5, <1>6, <1>8, <1>9, <1>10, <1>11, <1>12 DEF TourStep
<1> USE DEF Goal
<1> QED
    BY <1>13

\* Claiming and releasing seats changes no tour but one that exists, and of it
\* only the free seats.
LEMMA SeatsMoveTours ==
    ASSUME TypeOK, ToursInv, UNCHANGED plans, NEW t \in Tours, TourExists(t), NEW seats,
           Claim(t, seats) \/ Release(t, seats)
    PROVE  ToursInv' /\ \A x \in Tours : TourExists(x)' = TourExists(x)
<1>1. /\ tours'[t].status = tours[t].status /\ tours'[t].totalSeats = tours[t].totalSeats
      /\ \A x \in Tours : x # t => tours'[x] = tours[x]
    BY DEF Claim, Release, TypeOK, ToursTypeOK, Tour
<1>2. \A x \in Tours : TourExists(x)' = TourExists(x)
    BY <1>1 DEF TourExists
<1>3. \A p \in Planners : plans[p].tour \in Tours
    BY DEF TypeOK, ToursTypeOK, Plan
<1>4. \A x \in Tours : tours'[x].totalSeats = tours[x].totalSeats
    BY <1>1
<1>5. \A x \in Tours : ~TourExists(x) => tours'[x].availableSeats = tours[x].availableSeats
    BY <1>1
<1> QED
    BY <1>2, <1>3, <1>4, <1>5 DEF ToursInv

LEMMA ToursStep ==
    ASSUME TypeOK, BaseInv, [Next]_vars
    PROVE  ToursInv' /\ \A t \in Tours : TourExists(t) => TourExists(t)'
<1> USE DEF BaseInv
<1>1. CASE TourStep
    BY <1>1, TourStepTours
<1>2. ASSUME NEW d \in Desks, NEW b \in BookingIds, NEW t \in Tours, NEW offer \in Offers,
             NEW agent \in EffectiveAgents(d), CreateBooking(d, b, t, offer, agent),
             UNCHANGED plans
      PROVE  ToursInv' /\ \A x \in Tours : TourExists(x) => TourExists(x)'
    BY <1>2, SeatsMoveTours DEF CreateBooking, CanClaim, Listed
<1>3. ASSUME NEW d \in Desks, CommitCancel(d), UNCHANGED plans
      PROVE  ToursInv' /\ \A t \in Tours : TourExists(t) => TourExists(t)'
    <2>1. PICK b \in BookingIds : /\ BookingExists(b) /\ bookings[b].tour \in Tours
                                  /\ Release(bookings[b].tour, bookings[b].persons)
        BY <1>3, CommitCancelEffect
    <2>2. TourExists(bookings[b].tour)
        BY <2>1 DEF RowsInv
    <2> QED
        BY <1>3, <2>1, <2>2, SeatsMoveTours
<1>4. CASE UNCHANGED <<tours, plans>>
    BY <1>4 DEF ToursInv, TourExists
<1> QED
    BY <1>1, <1>2, <1>3, <1>4, StepKinds DEF Quiet

\* Ids come into use one at a time.
LEMMA RowsStep ==
    ASSUME TypeOK, BaseInv, [Next]_vars
    PROVE  RowsInv'
<1> USE DEF BaseInv, TourExists
<1>1. \A t \in Tours : TourExists(t) => TourExists(t)'
    BY ToursStep
<1>2. \A b \in BookingIds : bookings[b].tour \in Tours
    BY DEF TypeOK, BookingsTypeOK, BookingRow
<1>3. ASSUME \A b \in BookingIds : Kept(b) PROVE RowsInv'
    <2>1. \A b \in BookingIds : BookingExists(b)' = BookingExists(b)
        BY <1>3 DEF Kept, BookingExists
    <2>2. Used' = Used
        BY <2>1 DEF Used
    <2> QED
        BY <1>1, <1>2, <1>3, <2>1, <2>2 DEF RowsInv, Kept
<1>4. CASE UNCHANGED bookings
    BY <1>3, <1>4, UnchangedIsKept
<1>5. ASSUME NEW d \in Desks, NEW b \in BookingIds, NEW t \in Tours, NEW offer \in Offers,
             NEW agent \in EffectiveAgents(d), CreateBooking(d, b, t, offer, agent)
      PROVE  RowsInv'
    <2>1. /\ bookings'[b].status = "new" /\ bookings'[b].tour = t
          /\ bookings'[b].persons \in Nat \ {0}
          /\ \A x \in BookingIds : x # b => bookings'[x] = bookings[x]
          /\ TourExists(t)
        BY <1>5, CreateBookingEffect DEF CanClaim, Listed
    <2>2. Used' = Used \union {b}
        BY <2>1 DEF Used, BookingExists
    <2>3. IsFiniteSet(Used')
        BY <2>2, FS_AddElement DEF RowsInv
    <2>4. bookings'[b].persons >= 1 /\ TourExists(bookings[b].tour)' /\ BookingExists(b)'
        BY <1>1, <2>1 DEF BookingExists
    <2>5. \A x \in BookingIds : x # b =>
              /\ BookingExists(x)' => bookings'[x].persons >= 1 /\ TourExists(bookings[x].tour)'
              /\ ~BookingExists(x)' => bookings'[x] = NoBookingRow
        <3> SUFFICES ASSUME NEW x \in BookingIds, x # b
                     PROVE  /\ BookingExists(x)' => /\ bookings'[x].persons >= 1
                                                    /\ TourExists(bookings[x].tour)'
                            /\ ~BookingExists(x)' => bookings'[x] = NoBookingRow
            OBVIOUS
        <3>1. bookings'[x] = bookings[x] /\ BookingExists(x)' = BookingExists(x)
            BY <2>1 DEF BookingExists
        <3>2. bookings[x].tour \in Tours
            BY <1>2
        <3> QED
            BY <1>1, <3>1, <3>2 DEF RowsInv
    <2> QED
        BY <2>3, <2>4, <2>5 DEF RowsInv
<1>6. ASSUME NEW d \in Desks, CommitCancel(d) PROVE RowsInv'
    <2>1. PICK b \in BookingIds :
              /\ BookingExists(b) /\ bookings[b].tour \in Tours
              /\ bookings'[b].status \in Statuses /\ bookings'[b].tour = bookings[b].tour
              /\ bookings'[b].persons = bookings[b].persons
              /\ \A x \in BookingIds : x # b => bookings'[x] = bookings[x]
        BY <1>6, CommitCancelEffect
    <2>2. BookingExists(b)'
        BY <2>1 DEF BookingExists, Statuses
    <2>3. \A x \in BookingIds : BookingExists(x)' = BookingExists(x)
        BY <2>1, <2>2 DEF BookingExists
    <2>4. Used' = Used
        BY <2>3 DEF Used
    <2>5. \A x \in BookingIds : BookingExists(x) =>
              bookings'[x].persons >= 1 /\ TourExists(bookings[x].tour)'
        <3> SUFFICES ASSUME NEW x \in BookingIds, BookingExists(x)
                     PROVE  bookings'[x].persons >= 1 /\ TourExists(bookings[x].tour)'
            OBVIOUS
        <3>1. bookings'[x].persons = bookings[x].persons /\ bookings'[x].tour = bookings[x].tour
            BY <2>1
        <3>2. bookings[x].tour \in Tours
            BY <1>2
        <3> QED
            BY <1>1, <3>1, <3>2 DEF RowsInv
    <2>6. \A x \in BookingIds : ~BookingExists(x) => bookings'[x] = NoBookingRow
        BY <2>1 DEF RowsInv
    <2> QED
        BY <2>3, <2>4, <2>5, <2>6 DEF RowsInv
<1> QED
    BY <1>3, <1>4, <1>5, <1>6, StepKinds DEF Quiet, bookingVars

(***************************************************************************)
(* The steps, by what they do to the requests in flight                    *)
(***************************************************************************)

\* The request of d starts to work on b: what it checks and what it reads.
Starts(d, b) ==
    /\ BookingFree(b) /\ BookingExists(b) /\ desk[d].op = "idle"
    /\ UNCHANGED <<tourVars, bookings, payments, liqPayVars>>
    /\ \A e \in Desks : e # d => desk'[e] = desk[e]
    /\ desk'[d].booking = b
    /\ \/ /\ desk'[d].op = "status"
          /\ IsValidStatusTransition(bookings[b].status, desk'[d].to)
       \/ /\ desk'[d].op = "payment"
          /\ desk'[d].type \in DeskTypes /\ desk'[d].amount \in Amounts
          /\ desk'[d].seen = bookings[b]
          /\ ~IsTerminalStatus(bookings[b].status) \/ bookings[b].status = "completed"
       \/ /\ desk'[d].op = "cancel"
          /\ desk'[d].to \in {"cancelled_client", "cancelled_operator"}
          /\ IsValidStatusTransition(bookings[b].status, desk'[d].to)
          /\ \E cancelType \in CancelTypes, policy \in Policies, days \in DaysAhead :
                desk'[d].refund = RefundAmount(bookings[b], cancelType, policy, days)

\* The callback h starts to work on the charge c.
Fetches(h, c) ==
    /\ BookingFree(charges[c].booking) /\ BookingExists(charges[c].booking)
    /\ charges[c].state # "none" /\ c \notin recorded /\ ~hooks[h].busy
    /\ UNCHANGED <<tourVars, bookingVars, charges, recorded, revRecorded>>
    /\ \A k \in Hooks : k # h => hooks'[k] = hooks[k]
    /\ hooks'[h] = [busy |-> TRUE, charge |-> c, seen |-> bookings[charges[c].booking]]

LEMMA BeginRequestStarts ==
    ASSUME TypeOK, UNCHANGED <<plans, liqPayVars>>, NEW d \in Desks, NEW b \in BookingIds,
           BookingFree(b),
           \/ \E to \in StatusTargets : BeginChangeStatus(d, b, to)
           \/ \E type \in DeskTypes, amount \in Amounts : BeginAddPayment(d, b, type, amount)
           \/ \E cancelType \in CancelTypes, policy \in Policies, days \in DaysAhead :
                  BeginCancel(d, b, cancelType, policy, days)
    PROVE  Starts(d, b)
<1> USE DEF Starts, tourVars, TypeOK, BookingsTypeOK, NoRequest
<1>1. ASSUME NEW to \in StatusTargets, BeginChangeStatus(d, b, to) PROVE Starts(d, b)
    BY <1>1 DEF BeginChangeStatus
<1>2. ASSUME NEW type \in DeskTypes, NEW amount \in Amounts, BeginAddPayment(d, b, type, amount)
      PROVE  Starts(d, b)
    BY <1>2 DEF BeginAddPayment
<1>3. ASSUME NEW cancelType \in CancelTypes, NEW policy \in Policies, NEW days \in DaysAhead,
             BeginCancel(d, b, cancelType, policy, days)
      PROVE  Starts(d, b)
    <2>1. CancelledBy(cancelType) \in {"cancelled_client", "cancelled_operator"}
        BY DEF CancelledBy
    <2> QED
        BY <1>3, <2>1 DEF BeginCancel
<1> QED
    BY <1>1, <1>2, <1>3

LEMMA BeginSuccessFetches ==
    ASSUME TypeOK, UNCHANGED <<tourVars, desk>>, NEW h \in Hooks, NEW c \in Charges,
           BookingFree(charges[c].booking), BeginSuccess(h, c)
    PROVE  Fetches(h, c)
BY DEF BeginSuccess, Fetches, TypeOK, LiqPayTypeOK, bookingVars

\* A request is where it was, has ended, or starts.
LEMMA DeskChanges ==
    ASSUME TypeOK, [Next]_vars, NEW d \in Desks
    PROVE  \/ desk'[d] = desk[d]
           \/ desk'[d] = NoRequest
           \/ \E b \in BookingIds : Starts(d, b)
<1>1. CASE UNCHANGED desk
    BY <1>1
<1>2. ASSUME NEW e \in Desks, desk' = [desk EXCEPT ![e] = NoRequest]
      PROVE  desk'[d] = desk[d] \/ desk'[d] = NoRequest
    BY <1>2 DEF TypeOK, BookingsTypeOK
<1>3. ASSUME NEW e \in Desks,
             CommitChangeStatus(e) \/ CommitAddPayment(e) \/ CommitCancel(e) \/ AbandonRequest(e)
      PROVE  desk'[d] = desk[d] \/ desk'[d] = NoRequest
    <2>1. desk' = [desk EXCEPT ![e] = NoRequest]
        BY <1>3 DEF CommitChangeStatus, CommitAddPayment, CommitCancel, AbandonRequest
    <2> QED
        BY <1>2, <2>1
<1>4. ASSUME NEW e \in Desks, NEW b \in BookingIds, Starts(e, b)
      PROVE  desk'[d] = desk[d] \/ \E x \in BookingIds : Starts(d, x)
    BY <1>4 DEF Starts
<1>5. ASSUME NEW e \in Desks, NEW b \in BookingIds, BookingFree(b),
             UNCHANGED <<plans, liqPayVars>>,
             \/ \E to \in StatusTargets : BeginChangeStatus(e, b, to)
             \/ \E type \in DeskTypes, amount \in Amounts : BeginAddPayment(e, b, type, amount)
             \/ \E cancelType \in CancelTypes, policy \in Policies, days \in DaysAhead :
                    BeginCancel(e, b, cancelType, policy, days)
      PROVE  desk'[d] = desk[d] \/ \E x \in BookingIds : Starts(d, x)
    BY <1>4, <1>5, BeginRequestStarts
<1>6. ASSUME NEW e \in Desks, NEW b \in BookingIds, NEW t \in Tours, NEW offer \in Offers,
             NEW agent \in EffectiveAgents(e), CreateBooking(e, b, t, offer, agent)
      PROVE  UNCHANGED desk
    BY <1>6 DEF CreateBooking
<1>7. CASE DeskStep /\ UNCHANGED <<plans, liqPayVars>>
    BY <1>1, <1>3, <1>5, <1>6, <1>7 DEF DeskStep
<1> QED
    BY <1>1, <1>7 DEF Next, vars, bookingVars

LEMMA HookChanges ==
    ASSUME TypeOK, [Next]_vars, NEW h \in Hooks
    PROVE  \/ hooks'[h] = hooks[h]
           \/ ~hooks'[h].busy
           \/ \E c \in Charges : Fetches(h, c)
<1>1. CASE UNCHANGED hooks
    BY <1>1
<1>2. ASSUME NEW k \in Hooks, CommitSuccess(k) \/ AbandonHook(k)
      PROVE  hooks'[h] = hooks[h] \/ ~hooks'[h].busy
    BY <1>2 DEF CommitSuccess, AbandonHook, NoHook, TypeOK, LiqPayTypeOK
<1>3. ASSUME NEW k \in Hooks, NEW c \in Charges, Fetches(k, c)
      PROVE  hooks'[h] = hooks[h] \/ \E x \in Charges : Fetches(h, x)
    BY <1>3 DEF Fetches
<1>4. ASSUME NEW k \in Hooks, NEW c \in Charges, BookingFree(charges[c].booking),
             BeginSuccess(k, c), UNCHANGED <<tourVars, desk>>
      PROVE  hooks'[h] = hooks[h] \/ \E x \in Charges : Fetches(h, x)
    BY <1>3, <1>4, BeginSuccessFetches
<1>5. ASSUME NEW c \in Charges,
             \/ \E b \in BookingIds, amount \in ChargeAmounts, kind \in {"deposit", "final_payment"} :
                    PayAtGateway(c, b, kind, amount)
             \/ ReverseAtGateway(c)
             \/ HandleReversal(c)
      PROVE  UNCHANGED hooks
    BY <1>5 DEF PayAtGateway, ReverseAtGateway, HandleReversal
<1>6. CASE LiqPayStep /\ UNCHANGED <<tourVars, desk>>
    BY <1>1, <1>2, <1>4, <1>5, <1>6 DEF LiqPayStep
<1> QED
    BY <1>1, <1>6 DEF Next, vars, liqPayVars

\* The gateway's record of a charge keeps its booking, its kind and its amount.
LEMMA ChargesLast ==
    ASSUME TypeOK, [Next]_vars, NEW c \in Charges, charges[c].state # "none"
    PROVE  /\ charges'[c].state # "none"
           /\ charges'[c].booking = charges[c].booking
           /\ charges'[c].kind = charges[c].kind
           /\ charges'[c].amount = charges[c].amount
<1>1. CASE UNCHANGED charges
    BY <1>1
<1>2. ASSUME NEW x \in Charges, NEW b \in BookingIds, NEW amount \in ChargeAmounts,
             NEW kind \in {"deposit", "final_payment"}, PayAtGateway(x, b, kind, amount)
      PROVE  charges'[c] = charges[c]
    BY <1>2 DEF PayAtGateway, TypeOK, LiqPayTypeOK
<1>3. ASSUME NEW x \in Charges, ReverseAtGateway(x)
      PROVE  /\ charges'[c].state # "none"
             /\ charges'[c].booking = charges[c].booking
             /\ charges'[c].kind = charges[c].kind
             /\ charges'[c].amount = charges[c].amount
    BY <1>3 DEF ReverseAtGateway, TypeOK, LiqPayTypeOK, Charge
<1>4. ASSUME \/ \E x \in Charges : HandleReversal(x)
             \/ \E h \in Hooks : \/ \E x \in Charges : BeginSuccess(h, x)
                                 \/ CommitSuccess(h) \/ AbandonHook(h)
      PROVE  UNCHANGED charges
    BY <1>4 DEF HandleReversal, BeginSuccess, CommitSuccess, AbandonHook
<1>5. CASE LiqPayStep
    BY <1>1, <1>2, <1>3, <1>4, <1>5 DEF LiqPayStep
<1> QED
    BY <1>1, <1>5 DEF Next, vars, liqPayVars

LEMMA RequestsStep ==
    ASSUME TypeOK, BaseInv, [Next]_vars
    PROVE  RequestsInv'
<1>1. \A b \in BookingIds : BookingExists(b) => BookingExists(b)'
    BY BookingsLast DEF BaseInv
<1>2. ASSUME NEW d \in Desks
      PROVE  /\ desk'[d].op # "idle" => BookingExists(desk[d].booking)'
             /\ desk'[d].op = "payment" => desk'[d].seen.status # "none"
    <2>1. CASE desk'[d] = desk[d]
        <3>1. desk[d].booking \in BookingIds
            BY DEF TypeOK, BookingsTypeOK, DeskRequest
        <3> QED
            BY <1>1, <2>1, <3>1 DEF BaseInv, RequestsInv, BookingExists
    <2>2. CASE desk'[d] = NoRequest
        BY <2>2 DEF NoRequest
    <2>3. ASSUME NEW b \in BookingIds, Starts(d, b)
          PROVE  /\ desk'[d].op # "idle" => BookingExists(desk[d].booking)'
                 /\ desk'[d].op = "payment" => desk'[d].seen.status # "none"
        BY <2>3 DEF Starts, BookingExists
    <2> QED
        BY <2>1, <2>2, <2>3, DeskChanges
<1>3. ASSUME NEW h \in Hooks, hooks'[h].busy
      PROVE  /\ charges'[hooks'[h].charge].state # "none"
             /\ BookingExists(charges[hooks[h].charge].booking)'
             /\ hooks'[h].seen.status # "none"
    <2>1. CASE hooks'[h] = hooks[h]
        <3>1. /\ hooks[h].charge \in Charges /\ ChargedBooking(h) \in BookingIds
              /\ BookingExists(ChargedBooking(h))
            BY <1>3, <2>1, ChargedExist DEF BaseInv
        <3>2. charges[hooks[h].charge].state # "none" /\ hooks[h].seen.status # "none"
            BY <1>3, <2>1 DEF BaseInv, RequestsInv
        <3>3. /\ charges'[hooks[h].charge].state # "none"
              /\ charges'[hooks[h].charge].booking = charges[hooks[h].charge].booking
            BY <3>1, <3>2, ChargesLast
        <3> QED
            BY <1>1, <2>1, <3>1, <3>2, <3>3 DEF ChargedBooking, BookingExists
    <2>2. ASSUME NEW c \in Charges, Fetches(h, c)
          PROVE  /\ charges'[hooks'[h].charge].state # "none"
                 /\ BookingExists(charges[hooks[h].charge].booking)'
                 /\ hooks'[h].seen.status # "none"
        BY <2>2 DEF Fetches, BookingExists, bookingVars
    <2> QED
        BY <1>3, <2>1, <2>2, HookChanges
<1> QED
    BY <1>2, <1>3 DEF RequestsInv

LEMMA BaseInit == Init => BaseInv
<1> SUFFICES ASSUME Init PROVE BaseInv
    OBVIOUS
<1>1. ToursInv
    BY DEF Init, ToursInit, NoTourRow, NoPlan, ToursInv, TourExists
<1>2. \A b \in BookingIds : bookings[b] = NoBookingRow /\ ~BookingExists(b)
    BY DEF Init, BookingsInit, BookingExists, NoBookingRow
<1>3. Used = {}
    BY <1>2 DEF Used
<1>4. RowsInv
    BY <1>2, <1>3, FS_EmptySet DEF RowsInv
<1>5. RequestsInv
    BY DEF Init, BookingsInit, LiqPayInit, NoRequest, NoHook, RequestsInv
<1> QED
    BY <1>1, <1>4, <1>5 DEF BaseInv

LEMMA BaseStep == TypeOK /\ BaseInv /\ [Next]_vars => BaseInv'
BY ToursStep, RowsStep, RequestsStep DEF BaseInv

(***************************************************************************)
(* No seat is lost                                                         *)
(***************************************************************************)

Persons == [b \in BookingIds |-> bookings[b].persons]

Holders(t) == {b \in BookingIds : Holding(b) /\ bookings[b].tour = t}

LEMMA PersonsOfHolders == \A t \in Tours : PersonsOf(t, Holding) = SumOf(Persons, Holders(t))
BY DEF PersonsOf, Persons, Holders

LEMMA PersonsType ==
    ASSUME TypeOK, NEW b \in BookingIds
    PROVE  Persons[b] \in Nat /\ Persons[b] = bookings[b].persons
BY DEF Persons, TypeOK, BookingsTypeOK, BookingRow

LEMMA FewHolders ==
    ASSUME TypeOK, RowsInv, NEW t \in Tours
    PROVE  /\ IsFiniteSet(Holders(t))
           /\ SumOf(Persons, Holders(t)) \in Nat
<1>1. Holders(t) \subseteq Used /\ IsFiniteSet(Used)
    BY DEF Holders, Used, Holding, RowsInv
<1>2. IsFiniteSet(Holders(t))
    BY <1>1, FS_Subset
<1>3. \A b \in Holders(t) : Persons[b] \in Nat
    BY PersonsType DEF Holders
<1> QED
    BY <1>2, <1>3, SumOfNat

\* A step that changes one booking moves the seats of that booking.
LEMMA HoldersChange ==
    ASSUME TypeOK, TypeOK', RowsInv, NEW b \in BookingIds,
           \A x \in BookingIds : x # b => bookings'[x] = bookings[x], NEW t \in Tours
    PROVE  SumOf(Persons, Holders(t))' =
               SumOf(Persons, Holders(t))
                   - (IF Holding(b) /\ bookings[b].tour = t THEN bookings[b].persons ELSE 0)
                   + (IF Holding(b)' /\ bookings'[b].tour = t THEN bookings'[b].persons ELSE 0)
<1>1. /\ \A x \in BookingIds : Persons[x] \in Nat /\ Persons[x] = bookings[x].persons
      /\ \A x \in BookingIds : Persons'[x] \in Nat /\ Persons'[x] = bookings'[x].persons
    BY PersonsType DEF Persons, TypeOK, BookingsTypeOK, BookingRow
<1>2. Holders(t) \ {b} = Holders(t)' \ {b}
    BY DEF Holders, Holding, BookingExists
<1>3. /\ b \in Holders(t) <=> Holding(b) /\ bookings[b].tour = t
      /\ b \in Holders(t)' <=> Holding(b)' /\ bookings'[b].tour = t
    BY DEF Holders
<1>4. \A x \in Holders(t) \ {b} : Persons[x] = Persons'[x]
    BY <1>1 DEF Holders
<1>5. IsFiniteSet(Holders(t))
    BY FewHolders
<1>6. Holders(t) \subseteq BookingIds /\ Holders(t)' \subseteq BookingIds
    BY DEF Holders
<1>7. SumOf(Persons', Holders(t)') =
          SumOf(Persons, Holders(t)) - (IF b \in Holders(t) THEN Persons[b] ELSE 0)
                                     + (IF b \in Holders(t)' THEN Persons'[b] ELSE 0)
    BY <1>1, <1>2, <1>4, <1>5, <1>6, SumOfChange
<1>8. SumOf(Persons, Holders(t))' = SumOf(Persons', Holders(t)')
    OBVIOUS
<1> QED
    BY <1>1, <1>3, <1>7, <1>8

LEMMA HoldersKept ==
    ASSUME TypeOK, TypeOK', RowsInv, \A b \in BookingIds : Kept(b), NEW t \in Tours
    PROVE  SumOf(Persons, Holders(t))' = SumOf(Persons, Holders(t))
<1>1. Holders(t)' = Holders(t)
    BY DEF Holders, Holding, BookingExists, Kept
<1>2. \A b \in BookingIds : Persons'[b] = Persons[b]
    BY DEF Persons, Kept
<1>3. SumOf(Persons', Holders(t)) = SumOf(Persons, Holders(t))
    BY <1>2, FewHolders, SumOfSame DEF Holders
<1>4. SumOf(Persons, Holders(t))' = SumOf(Persons', Holders(t)')
    OBVIOUS
<1> QED
    BY <1>1, <1>3, <1>4

\* Where no two plans work on one tour, a capacity that was read is still the
\* capacity when it is overwritten.
LEMMA FreshPlansTourStep ==
    ASSUME OnePlanPerTour, TypeOK, ToursInv, FreshPlans, TourStep
    PROVE  FreshPlans'
<1>1. \A p \in Planners : plans[p].tour \in Tours /\ plans[p] \in Plan
    BY DEF TypeOK, ToursTypeOK, Plan
<1>2. ASSUME NEW t \in Tours, NEW seats, CreateTour(t, seats) PROVE FreshPlans'
    <2>1. \A x \in Tours : TourExists(x) => tours'[x] = tours[x]
        BY <1>2 DEF CreateTour, TypeOK, ToursTypeOK
    <2>2. UNCHANGED plans
        BY <1>2 DEF CreateTour
    <2>3. \A p \in Planners : plans[p].op = "resize" =>
              tours'[plans[p].tour] = tours[plans[p].tour]
        BY <1>1, <2>1 DEF ToursInv
    <2> QED
        BY <2>2, <2>3 DEF FreshPlans
<1>3. ASSUME NEW source \in Tours, NEW t \in Tours, NEW seats, CreateDeparture(source, t, seats)
      PROVE  FreshPlans'
    BY <1>2, <1>3 DEF CreateDeparture
<1>4. ASSUME NEW p \in Planners, NEW t \in Tours, TourFree(t), UNCHANGED tours,
             plans[p].op = "idle", NEW plan, plans' = [plans EXCEPT ![p] = plan], plan.tour = t,
             plan.op = "resize" => plan.seen = tours[t].totalSeats
      PROVE  FreshPlans'
    <2>1. plans'[p] = plan /\ \A q \in Planners : q # p => plans'[q] = plans[q]
        BY <1>4 DEF TypeOK, ToursTypeOK
    <2>2. \A q \in Planners : q # p /\ plans[q].op # "idle" => plans[q].tour # t
        BY <1>4 DEF TourFree, TourInFlight, OnePlanPerTour
    <2> QED
        BY <1>4, <2>1, <2>2 DEF FreshPlans
<1>5. ASSUME NEW p \in Planners, NEW t \in Tours, NEW seats \in Resizes, TourFree(t),
             BeginResize(p, t, seats)
      PROVE  FreshPlans'
    <2> DEFINE plan == [NoPlan EXCEPT !.op = "resize", !.tour = t,
                                      !.seen = tours[t].totalSeats, !.seats = seats]
    <2>1. plan.tour = t /\ plan.seen = tours[t].totalSeats
        BY DEF NoPlan
    <2>2. plans' = [plans EXCEPT ![p] = plan] /\ UNCHANGED tours /\ plans[p].op = "idle"
        BY <1>5 DEF BeginResize
    <2> HIDE DEF plan
    <2> QED
        BY <1>4, <1>5, <2>1, <2>2
<1>6. ASSUME NEW p \in Planners, NEW t \in Tours, NEW to \in TourTargets, TourFree(t),
             BeginTourStatus(p, t, to)
      PROVE  FreshPlans'
    <2> DEFINE plan == [NoPlan EXCEPT !.op = "status", !.tour = t, !.to = to]
    <2>1. plan.tour = t /\ plan.op = "status"
        BY DEF NoPlan
    <2>2. plans' = [plans EXCEPT ![p] = plan] /\ UNCHANGED tours /\ plans[p].op = "idle"
        BY <1>6 DEF BeginTourStatus
    <2> HIDE DEF plan
    <2> QED
        BY <1>4, <1>6, <2>1, <2>2
<1>7. ASSUME NEW p \in Planners, NEW t \in Tours, TourFree(t), BeginArchive(p, t)
      PROVE  FreshPlans'
    <2> DEFINE plan == [NoPlan EXCEPT !.op = "archive", !.tour = t]
    <2>1. plan.tour = t /\ plan.op = "archive"
        BY DEF NoPlan
    <2>2. plans' = [plans EXCEPT ![p] = plan] /\ UNCHANGED tours /\ plans[p].op = "idle"
        BY <1>7 DEF BeginArchive
    <2> HIDE DEF plan
    <2> QED
        BY <1>4, <1>7, <2>1, <2>2
<1>8. ASSUME NEW p \in Planners, plans[p].op # "idle", plans' = [plans EXCEPT ![p] = NoPlan],
             \A t \in Tours : t # plans[p].tour => tours'[t] = tours[t]
      PROVE  FreshPlans'
    <2>1. \A q \in Planners : plans'[q].op # "idle" => q # p /\ plans'[q] = plans[q]
        BY <1>8 DEF NoPlan, TypeOK, ToursTypeOK
    <2>2. \A q \in Planners : q # p /\ plans[q].op # "idle" => plans[q].tour # plans[p].tour
        BY <1>8 DEF FreshPlans
    <2>3. \A q \in Planners : q # p /\ plans[q].op # "idle" =>
              tours'[plans[q].tour] = tours[plans[q].tour]
        BY <1>1, <1>8, <2>2
    <2> QED
        BY <2>1, <2>3 DEF FreshPlans
<1>9. ASSUME NEW p \in Planners,
             CommitResize(p) \/ CommitTourStatus(p) \/ CommitArchive(p) \/ AbandonPlan(p)
      PROVE  FreshPlans'
    <2>1. plans[p].op # "idle" /\ plans' = [plans EXCEPT ![p] = NoPlan]
        BY <1>9 DEF CommitResize, CommitTourStatus, CommitArchive, AbandonPlan
    <2>2. \A t \in Tours : t # plans[p].tour => tours'[t] = tours[t]
        BY <1>9 DEF CommitResize, CommitTourStatus, CommitArchive, AbandonPlan, TypeOK, ToursTypeOK
    <2> QED
        BY <1>8, <2>1, <2>2
<1> QED
    BY <1>2, <1>3, <1>5, <1>6, <1>7, <1>9 DEF TourStep

\* Bookings leave the capacity of a tour alone.
LEMMA CapacityKept ==
    ASSUME TypeOK, RequestsInv, [Next]_vars, ~TourStep, NEW t \in Tours
    PROVE  UNCHANGED plans /\ tours'[t].totalSeats = tours[t].totalSeats
<1>1. UNCHANGED plans
    BY DEF Next, vars, tourVars
<1>2. ASSUME NEW x \in Tours, NEW seats, Claim(x, seats) \/ Release(x, seats)
      PROVE  tours'[t].totalSeats = tours[t].totalSeats
    BY <1>2 DEF Claim, Release, TypeOK, ToursTypeOK, Tour
<1>3. ASSUME NEW d \in Desks, NEW b \in BookingIds, NEW x \in Tours, NEW offer \in Offers,
             NEW agent \in EffectiveAgents(d), CreateBooking(d, b, x, offer, agent)
      PROVE  tours'[t].totalSeats = tours[t].totalSeats
    BY <1>2, <1>3, CreateBookingEffect
<1>4. ASSUME NEW d \in Desks, CommitCancel(d)
      PROVE  tours'[t].totalSeats = tours[t].totalSeats
    BY <1>2, <1>4, CommitCancelEffect
<1> QED
    BY <1>1, <1>3, <1>4, StepKinds DEF Quiet

LEMMA FreshPlansStep ==
    ASSUME OnePlanPerTour, TypeOK, BaseInv, FreshPlans, [Next]_vars
    PROVE  FreshPlans'
<1>1. CASE TourStep
    BY <1>1, FreshPlansTourStep DEF BaseInv
<1>2. CASE ~TourStep
    <2>1. UNCHANGED plans /\ \A t \in Tours : tours'[t].totalSeats = tours[t].totalSeats
        BY <1>2, ToursAssumption, CapacityKept DEF BaseInv
    <2>2. \A p \in Planners : plans[p].tour \in Tours
        BY DEF TypeOK, ToursTypeOK, Plan
    <2> QED
        BY <2>1, <2>2 DEF FreshPlans
<1> QED
    BY <1>1, <1>2

LEMMA FreshPlansInit == Init => FreshPlans
<1> SUFFICES ASSUME Init PROVE FreshPlans
    OBVIOUS
<1>1. \A p \in Planners : plans[p].op = "idle"
    BY DEF Init, ToursInit, NoPlan
<1> QED
    BY <1>1 DEF FreshPlans

\* The seats that are not free, and the seats that bookings hold.
Sold(t) == tours[t].totalSeats - tours[t].availableSeats
Held(t) == SumOf(Persons, Holders(t))

SeatsCount == \A t \in Tours : Held(t) \in Nat

LEMMA HeldType == TypeOK /\ RowsInv => SeatsCount
<1> SUFFICES ASSUME TypeOK, RowsInv, NEW t \in Tours PROVE Held(t) \in Nat
    BY DEF SeatsCount
<1> QED
    BY FewHolders DEF Held

LEMMA SoldType ==
    ASSUME TypeOK, NEW t \in Tours
    PROVE  Sold(t) \in Int /\ tours[t].totalSeats \in Int /\ tours[t].availableSeats \in Int
BY DEF Sold, TypeOK, ToursTypeOK, Tour

\* The tour office sells nothing and takes nothing back: a change of capacity
\* shifts the free seats by as much.
LEMMA TourStepSold ==
    ASSUME TypeOK, TypeOK', ToursInv, FreshPlans, TourStep, NEW t \in Tours
    PROVE  Sold(t)' = Sold(t)
<1>1. ASSUME UNCHANGED tours PROVE Sold(t)' = Sold(t)
    BY <1>1 DEF Sold
<1>2. ASSUME NEW x \in Tours, NEW seats \in Nat, CreateTour(x, seats) PROVE Sold(t)' = Sold(t)
    <2>1. CASE t = x
        <3>1. tours[t].totalSeats = 0 /\ tours[t].availableSeats = 0
            BY <1>2, <2>1 DEF CreateTour, ToursInv
        <3>2. tours'[t].totalSeats = seats /\ tours'[t].availableSeats = seats
            BY <1>2, <2>1 DEF CreateTour, TypeOK, ToursTypeOK
        <3> QED
            BY <3>1, <3>2 DEF Sold
    <2>2. CASE t # x
        BY <1>2, <2>2 DEF CreateTour, TypeOK, ToursTypeOK, Sold
    <2> QED
        BY <2>1, <2>2
<1>3. ASSUME NEW x \in Tours, NEW seats \in Capacities, CreateTour(x, seats)
      PROVE  Sold(t)' = Sold(t)
    BY <1>2, <1>3, TourRequestAssumption
<1>4. ASSUME NEW source \in Tours, NEW x \in Tours,
             NEW seats \in Capacities \union {tours[source].totalSeats},
             CreateDeparture(source, x, seats)
      PROVE  Sold(t)' = Sold(t)
    <2>1. seats \in Nat
        BY TourRequestAssumption DEF TypeOK, ToursTypeOK, Tour
    <2> QED
        BY <1>2, <1>4, <2>1 DEF CreateDeparture
<1>5. ASSUME NEW p \in Planners, CommitResize(p) PROVE Sold(t)' = Sold(t)
    <2> DEFINE x    == plans[p].tour
               size == plans[p].seats
               free == tours[x].availableSeats + (plans[p].seats - plans[p].seen)
    <2>1. /\ tours' = [tours EXCEPT ![x] =
                 [tours[x] EXCEPT !.totalSeats = size, !.availableSeats = free]]
          /\ plans[p].op = "resize"
        BY <1>5 DEF CommitResize
    <2>2. plans[p].seen = tours[x].totalSeats
        BY <2>1 DEF FreshPlans
    <2>3. /\ x \in Tours /\ size \in Nat /\ plans[p].seen \in Nat
          /\ tours[x].availableSeats \in Int /\ tours[x] \in Tour
        BY DEF TypeOK, ToursTypeOK, Plan, Tour
    <2>4. size - free = tours[x].totalSeats - tours[x].availableSeats
        BY <2>2, <2>3
    <2> HIDE DEF x, size, free
    <2>5. /\ tours'[x].totalSeats = size /\ tours'[x].availableSeats = free
          /\ \A y \in Tours : y # x => tours'[y] = tours[y]
        BY <2>1, <2>3 DEF TypeOK, ToursTypeOK, Tour
    <2> QED
        BY <2>4, <2>5 DEF Sold
<1>6. ASSUME NEW p \in Planners, CommitTourStatus(p) \/ CommitArchive(p)
      PROVE  Sold(t)' = Sold(t)
    BY <1>6 DEF CommitTourStatus, CommitArchive, TypeOK, ToursTypeOK, Tour, Sold
<1>7. ASSUME \/ \E p \in Planners, x \in Tours :
                   \/ \E seats \in Resizes : BeginResize(p, x, seats)
                   \/ \E to \in TourTargets : BeginTourStatus(p, x, to)
                   \/ BeginArchive(p, x)
             \/ \E p \in Planners : AbandonPlan(p)
      PROVE  UNCHANGED tours
    BY <1>7 DEF BeginResize, BeginTourStatus, BeginArchive, AbandonPlan
<1> QED
    BY <1>1, <1>3, <1>4, <1>5, <1>6, <1>7 DEF TourStep

\* A booking that is made takes its seats from the free ones.
LEMMA CreateBookingSold ==
    ASSUME TypeOK, TypeOK', RowsInv, NEW d \in Desks, NEW b \in BookingIds, NEW t \in Tours,
           NEW offer \in Offers, NEW agent \in EffectiveAgents(d),
           CreateBooking(d, b, t, offer, agent), NEW x \in Tours
    PROVE  Sold(x)' - Sold(x) = Held(x)' - Held(x)
<1> DEFINE n == offer.persons
<1>1. /\ ~BookingExists(b) /\ bookings'[b].status = "new" /\ bookings'[b].tour = t
      /\ bookings'[b].persons = n /\ n \in Nat /\ bookings'[b].commission # "cancelled"
      /\ \A y \in BookingIds : y # b => bookings'[y] = bookings[y]
      /\ Claim(t, n)
    BY CreateBookingEffect
<1> HIDE DEF n
<1>2. Held(x)' = Held(x) - (IF Holding(b) /\ bookings[b].tour = x
                            THEN bookings[b].persons ELSE 0)
                         + (IF Holding(b)' /\ bookings'[b].tour = x
                            THEN bookings'[b].persons ELSE 0)
    BY <1>1, HoldersChange DEF Held
<1>3. Held(x)' = Held(x) + (IF t = x THEN n ELSE 0)
    <2>1. ~Holding(b) /\ Holding(b)'
        BY <1>1 DEF Holding, BookingExists
    <2>2. Held(x) \in Int
        BY FewHolders DEF Held
    <2> QED
        BY <1>1, <1>2, <2>1, <2>2
<1>4. Sold(x)' = Sold(x) + (IF t = x THEN n ELSE 0)
    BY <1>1 DEF Sold, Claim, TypeOK, ToursTypeOK, Tour
<1>5. Held(x) \in Int /\ Sold(x) \in Int
    BY FewHolders, SoldType DEF Held
<1> QED
    BY <1>1, <1>3, <1>4, <1>5

\* A booking that is cancelled frees its seats, whether it holds them or not.
LEMMA CommitCancelSold ==
    ASSUME TypeOK, TypeOK', RowsInv, RequestsInv, NEW d \in Desks, CommitCancel(d), NEW x \in Tours
    PROVE  \/ Sold(x)' - Sold(x) = Held(x)' - Held(x)
           \/ ~Holding(desk[d].booking) /\ Sold(x)' <= Sold(x) /\ Held(x)' = Held(x)
<1>1. PICK b \in BookingIds, t \in Tours, n \in Nat :
          /\ b = desk[d].booking /\ t = bookings[b].tour /\ n = bookings[b].persons
          /\ BookingExists(b) /\ bookings'[b].commission = "cancelled"
          /\ \A y \in BookingIds : y # b => bookings'[y] = bookings[y]
          /\ Release(t, n)
    BY CommitCancelEffect
<1>2. Held(x)' = Held(x) - (IF Holding(b) /\ t = x THEN n ELSE 0)
                         + (IF Holding(b)' /\ bookings'[b].tour = x
                            THEN bookings'[b].persons ELSE 0)
    BY <1>1, HoldersChange DEF Held
<1>3. ~Holding(b)'
    BY <1>1 DEF Holding
<1>4. Sold(x)' = Sold(x) - (IF t = x THEN n ELSE 0)
    <2>1. Release(t, n)
        BY <1>1
    <2> QED
        BY <2>1 DEF Sold, Release, TypeOK, ToursTypeOK, Tour
<1>5. Held(x) \in Int /\ Sold(x) \in Int
    BY FewHolders, SoldType DEF Held
<1>6. Held(x)' = Held(x) - (IF Holding(b) /\ t = x THEN n ELSE 0)
    BY <1>1, <1>2, <1>3, <1>5
<1>7. \/ Sold(x)' - Sold(x) = Held(x)' - Held(x)
      \/ ~Holding(b) /\ Sold(x)' <= Sold(x) /\ Held(x)' = Held(x)
    <2>1. CASE Holding(b)
        BY <1>1, <1>4, <1>5, <1>6, <2>1
    <2>2. CASE ~Holding(b)
        BY <1>1, <1>4, <1>5, <1>6, <2>2
    <2> QED
        BY <2>1, <2>2
<1> QED
    BY <1>1, <1>7

LEMMA SeatsMove ==
    ASSUME TypeOK, TypeOK', BaseInv, FreshPlans, [Next]_vars, NEW t \in Tours
    PROVE  \/ Sold(t)' - Sold(t) = Held(t)' - Held(t)
           \/ \E d \in Desks : /\ CommitCancel(d) /\ ~Holding(desk[d].booking)
                               /\ Sold(t)' <= Sold(t) /\ Held(t)' = Held(t)
<1> USE DEF BaseInv
<1>1. Sold(t) \in Int /\ Held(t) \in Int
    BY SoldType, FewHolders DEF Held
<1>2. CASE Quiet
    <2>1. Held(t)' = Held(t)
        BY <1>2, HoldersKept DEF Held, Quiet
    <2>2. Sold(t)' = Sold(t)
        BY <1>2 DEF Sold, Quiet
    <2> QED
        BY <1>1, <2>1, <2>2
<1>3. CASE TourStep /\ UNCHANGED bookings
    <2>1. Held(t)' = Held(t)
        BY <1>3, UnchangedIsKept, HoldersKept DEF Held
    <2>2. Sold(t)' = Sold(t)
        BY <1>3, TourStepSold
    <2> QED
        BY <1>1, <2>1, <2>2
<1> QED
    BY <1>2, <1>3, CreateBookingSold, CommitCancelSold, StepKinds DEF bookingVars

LEMMA NoSeatLostStep ==
    ASSUME TypeOK, TypeOK', BaseInv, BaseInv', FreshPlans, NoSeatLost, [Next]_vars
    PROVE  NoSeatLost'
<1> SUFFICES ASSUME NEW t \in Tours PROVE Sold(t)' <= Held(t)'
    BY PersonsOfHolders DEF NoSeatLost, Sold, Held, PersonsOf, Persons, Holders
<1>1. Sold(t) <= Held(t)
    BY PersonsOfHolders DEF NoSeatLost, Sold, Held
<1>2. /\ Sold(t) \in Int /\ Held(t) \in Int
      /\ Sold(t)' \in Int /\ Held(t)' \in Int
    <2>1. Sold(t)' \in Int
        BY DEF Sold, TypeOK, ToursTypeOK, Tour
    <2>2. RowsInv /\ RowsInv'
        BY DEF BaseInv
    <2>3. SeatsCount /\ SeatsCount'
        BY <2>2, HeldType, PTL
    <2> QED
        BY <2>1, <2>3, SoldType DEF SeatsCount
<1> QED
    BY <1>1, <1>2, SeatsMove

LEMMA NoSeatLostInit == Init => NoSeatLost
<1> SUFFICES ASSUME Init, NEW t \in Tours PROVE Sold(t) <= Held(t)
    BY PersonsOfHolders DEF NoSeatLost, Sold, Held
<1>1. Sold(t) = 0
    BY DEF Init, ToursInit, NoTourRow, Sold
<1>2. Held(t) \in Nat
    BY InitType, BaseInit, HeldType DEF BaseInv, SeatsCount
<1> QED
    BY <1>1, <1>2

\* However requests interleave on bookings, no seat is lost, if no two of the
\* tour office work on one tour.
THEOREM SeatsAreNotLost ==
    ASSUME "tour" \notin Contention \/ \A p, q \in Planners : p = q
    PROVE  Spec => []NoSeatLost
<1> DEFINE Inv == TypeOK /\ BaseInv /\ FreshPlans /\ NoSeatLost
<1>1. Init => Inv
    BY InitType, BaseInit, FreshPlansInit, NoSeatLostInit
<1>2. Inv /\ [Next]_vars => Inv'
    <2> SUFFICES ASSUME Inv, [Next]_vars PROVE Inv'
        OBVIOUS
    <2>1. TypeOK' /\ BaseInv'
        BY StepType, BaseStep
    <2>2. FreshPlans'
        BY FreshPlansStep DEF OnePlanPerTour
    <2> QED
        BY <2>1, <2>2, NoSeatLostStep
<1> QED
    BY <1>1, <1>2, PTL DEF Spec

(***************************************************************************)
(* One request at a booking at a time                                      *)
(***************************************************************************)

\* Who writes the row of a booking.
LEMMA RowChanges ==
    ASSUME TypeOK, [Next]_vars, NEW b \in BookingIds
    PROVE  \/ bookings'[b] = bookings[b]
           \/ \E d \in Desks, t \in Tours, offer \in Offers :
                 \E agent \in EffectiveAgents(d) : CreateBooking(d, b, t, offer, agent)
           \/ \E d \in Desks :
                 /\ desk[d].booking = b
                 /\ CommitChangeStatus(d) \/ CommitAddPayment(d) \/ CommitCancel(d)
           \/ \E h \in Hooks : ChargedBooking(h) = b /\ CommitSuccess(h)
           \/ \E c \in Charges : charges[c].booking = b /\ BookingFree(b) /\ HandleReversal(c)
<1>1. CASE UNCHANGED bookings
    BY <1>1
<1>2. ASSUME NEW x, NEW row, bookings' = [bookings EXCEPT ![x] = row]
      PROVE  x = b \/ bookings'[b] = bookings[b]
    BY <1>2 DEF TypeOK, BookingsTypeOK
<1>3. ASSUME NEW d \in Desks, NEW x \in BookingIds, NEW t \in Tours, NEW offer \in Offers,
             NEW agent \in EffectiveAgents(d), CreateBooking(d, x, t, offer, agent)
      PROVE  x = b \/ bookings'[b] = bookings[b]
    BY <1>3, CreateBookingEffect
<1>4. ASSUME NEW d \in Desks, CommitChangeStatus(d) \/ CommitAddPayment(d) \/ CommitCancel(d)
      PROVE  desk[d].booking = b \/ bookings'[b] = bookings[b]
    <2>1. CASE CommitChangeStatus(d)
        BY <1>2, <2>1 DEF CommitChangeStatus
    <2>2. CASE CommitAddPayment(d)
        BY <1>2, <2>2 DEF CommitAddPayment
    <2>3. CASE CommitCancel(d)
        BY <1>2, <2>3 DEF CommitCancel
    <2> QED
        BY <1>4, <2>1, <2>2, <2>3
<1>5. ASSUME NEW h \in Hooks, CommitSuccess(h)
      PROVE  ChargedBooking(h) = b \/ bookings'[b] = bookings[b]
    BY <1>2, <1>5 DEF CommitSuccess, ChargedBooking
<1>6. ASSUME NEW c \in Charges, HandleReversal(c)
      PROVE  charges[c].booking = b \/ bookings'[b] = bookings[b]
    BY <1>2, <1>6 DEF HandleReversal
<1>7. ASSUME \E d \in Desks :
                \/ AbandonRequest(d)
                \/ \E x \in BookingIds :
                     \/ \E to \in StatusTargets : BeginChangeStatus(d, x, to)
                     \/ \E type \in DeskTypes, amount \in Amounts :
                           BeginAddPayment(d, x, type, amount)
                     \/ \E cancelType \in CancelTypes, policy \in Policies, days \in DaysAhead :
                           BeginCancel(d, x, cancelType, policy, days)
      PROVE  UNCHANGED bookings
    BY <1>7 DEF AbandonRequest, BeginChangeStatus, BeginAddPayment, BeginCancel
<1>8. CASE DeskStep
    BY <1>1, <1>3, <1>4, <1>7, <1>8 DEF DeskStep
<1>9. ASSUME \/ \E c \in Charges :
                   \/ \E x \in BookingIds, amount \in ChargeAmounts,
                         kind \in {"deposit", "final_payment"} : PayAtGateway(c, x, kind, amount)
                   \/ ReverseAtGateway(c)
             \/ \E h \in Hooks : (\E c \in Charges : BeginSuccess(h, c)) \/ AbandonHook(h)
      PROVE  UNCHANGED bookings
    BY <1>9 DEF PayAtGateway, ReverseAtGateway, BeginSuccess, AbandonHook
<1>10. CASE LiqPayStep
    BY <1>1, <1>5, <1>6, <1>9, <1>10 DEF LiqPayStep
<1> QED
    BY <1>1, <1>8, <1>10 DEF Next, vars, bookingVars

\* A request that writes a booking is over, and so is a callback.
LEMMA WritersEnd ==
    ASSUME TypeOK
    PROVE  /\ \A d \in Desks :
                 CommitChangeStatus(d) \/ CommitAddPayment(d) \/ CommitCancel(d) =>
                     desk[d].op # "idle" /\ desk'[d] = NoRequest
           /\ \A h \in Hooks : CommitSuccess(h) => hooks[h].busy /\ ~hooks'[h].busy
<1>1. \A d \in Desks : desk' = [desk EXCEPT ![d] = NoRequest] => desk'[d] = NoRequest
    BY DEF TypeOK, BookingsTypeOK
<1>2. \A h \in Hooks : hooks' = [hooks EXCEPT ![h] = NoHook] => ~hooks'[h].busy
    BY DEF TypeOK, LiqPayTypeOK, NoHook
<1> QED
    BY <1>1, <1>2 DEF CommitChangeStatus, CommitAddPayment, CommitCancel, CommitSuccess

\* The booking of a request that goes on is nobody else's to write.
LEMMA RowUnderRequest ==
    ASSUME TypeOK, BaseInv, "booking" \notin Contention, Apart, [Next]_vars,
           NEW d \in Desks, desk[d].op # "idle", desk'[d] = desk[d]
    PROVE  bookings'[desk[d].booking] = bookings[desk[d].booking]
<1>1. PICK b \in BookingIds : b = desk[d].booking /\ BookingExists(b)
    BY RequestedExist DEF BaseInv
<1>2. ASSUME NEW e \in Desks, NEW t \in Tours, NEW offer \in Offers,
             NEW agent \in EffectiveAgents(e), CreateBooking(e, b, t, offer, agent)
      PROVE  FALSE
    BY <1>1, <1>2 DEF CreateBooking
<1>3. ASSUME NEW e \in Desks, desk[e].booking = b,
             CommitChangeStatus(e) \/ CommitAddPayment(e) \/ CommitCancel(e)
      PROVE  FALSE
    <2>1. desk[e].op # "idle" /\ desk'[e] = NoRequest
        BY <1>3, WritersEnd
    <2>2. e = d
        BY <1>1, <1>3, <2>1 DEF Apart
    <2> QED
        BY <2>1, <2>2 DEF NoRequest
<1>4. ASSUME NEW h \in Hooks, ChargedBooking(h) = b, CommitSuccess(h) PROVE FALSE
    BY <1>1, <1>4, WritersEnd DEF Apart
<1>5. ASSUME BookingFree(b) PROVE FALSE
    BY <1>1, <1>5 DEF BookingFree, BookingInFlight
<1> QED
    BY <1>1, <1>2, <1>3, <1>4, <1>5, RowChanges

LEMMA RowUnderCallback ==
    ASSUME TypeOK, BaseInv, "booking" \notin Contention, Apart, [Next]_vars,
           NEW h \in Hooks, hooks[h].busy, hooks'[h] = hooks[h]
    PROVE  bookings'[ChargedBooking(h)] = bookings[ChargedBooking(h)]
<1>1. PICK b \in BookingIds : b = ChargedBooking(h) /\ BookingExists(b)
    BY ChargedExist DEF BaseInv
<1>2. ASSUME NEW e \in Desks, NEW t \in Tours, NEW offer \in Offers,
             NEW agent \in EffectiveAgents(e), CreateBooking(e, b, t, offer, agent)
      PROVE  FALSE
    BY <1>1, <1>2 DEF CreateBooking
<1>3. ASSUME NEW e \in Desks, desk[e].booking = b,
             CommitChangeStatus(e) \/ CommitAddPayment(e) \/ CommitCancel(e)
      PROVE  FALSE
    BY <1>1, <1>3, WritersEnd DEF Apart
<1>4. ASSUME NEW k \in Hooks, ChargedBooking(k) = b, CommitSuccess(k) PROVE FALSE
    <2>1. hooks[k].busy /\ ~hooks'[k].busy
        BY <1>4, WritersEnd
    <2>2. k = h
        BY <1>1, <1>4, <2>1 DEF Apart
    <2> QED
        BY <2>1, <2>2
<1>5. ASSUME BookingFree(b) PROVE FALSE
    BY <1>1, <1>5 DEF BookingFree, BookingInFlight, ChargedBooking
<1> QED
    BY <1>1, <1>2, <1>3, <1>4, <1>5, RowChanges

\* The booking of a callback that goes on is the one it was.
LEMMA CallbackKeepsBooking ==
    ASSUME TypeOK, BaseInv, [Next]_vars, NEW h \in Hooks, hooks[h].busy, hooks'[h] = hooks[h]
    PROVE  ChargedBooking(h)' = ChargedBooking(h)
<1>1. hooks[h].charge \in Charges /\ charges[hooks[h].charge].state # "none"
    BY ChargedExist DEF BaseInv, RequestsInv
<1> QED
    BY <1>1, ChargesLast DEF ChargedBooking

LEMMA ApartStep ==
    ASSUME TypeOK, BaseInv, "booking" \notin Contention, Apart, [Next]_vars
    PROVE  Apart'
<1>1. CASE \E d \in Desks, b \in BookingIds : Starts(d, b)
    <2>1. PICK d \in Desks, b \in BookingIds : Starts(d, b)
        BY <1>1
    <2>2. /\ \A e \in Desks : e # d => desk'[e] = desk[e]
          /\ desk'[d].booking = b /\ UNCHANGED <<hooks, charges>>
          /\ ~BookingInFlight(b)
        BY <2>1 DEF Starts, liqPayVars, BookingFree
    <2>3. /\ \A e \in Desks : desk[e].op # "idle" => desk[e].booking # b
          /\ \A h \in Hooks : hooks[h].busy => ChargedBooking(h) # b
        BY <2>2 DEF BookingInFlight, ChargedBooking
    <2>4. \A h \in Hooks : ChargedBooking(h)' = ChargedBooking(h) /\ hooks'[h] = hooks[h]
        BY <2>2 DEF ChargedBooking
    <2> QED
        BY <2>2, <2>3, <2>4 DEF Apart
<1>2. CASE \E h \in Hooks, c \in Charges : Fetches(h, c)
    <2>1. PICK h \in Hooks, c \in Charges : Fetches(h, c)
        BY <1>2
    <2>2. /\ \A k \in Hooks : k # h => hooks'[k] = hooks[k]
          /\ hooks'[h].charge = c /\ UNCHANGED <<desk, charges>>
          /\ ~BookingInFlight(charges[c].booking)
        BY <2>1 DEF Fetches, bookingVars, BookingFree
    <2>3. /\ \A e \in Desks : desk[e].op # "idle" => desk[e].booking # charges[c].booking
          /\ \A k \in Hooks : hooks[k].busy => ChargedBooking(k) # charges[c].booking
        BY <2>2 DEF BookingInFlight, ChargedBooking
    <2>4. /\ ChargedBooking(h)' = charges[c].booking
          /\ \A k \in Hooks : k # h => ChargedBooking(k)' = ChargedBooking(k)
        BY <2>2 DEF ChargedBooking
    <2> QED
        BY <2>2, <2>3, <2>4 DEF Apart
<1>3. CASE /\ ~\E d \in Desks, b \in BookingIds : Starts(d, b)
           /\ ~\E h \in Hooks, c \in Charges : Fetches(h, c)
    <2>1. \A d \in Desks : desk'[d].op # "idle" => desk'[d] = desk[d]
        <3>1. NoRequest.op = "idle"
            BY DEF NoRequest
        <3> QED
            BY <1>3, <3>1, DeskChanges
    <2>2. \A h \in Hooks : hooks'[h].busy => hooks'[h] = hooks[h]
        BY <1>3, HookChanges
    <2>3. \A h \in Hooks : hooks'[h].busy => ChargedBooking(h)' = ChargedBooking(h)
        BY <2>2, CallbackKeepsBooking
    <2> QED
        BY <2>1, <2>2, <2>3 DEF Apart
<1> QED
    BY <1>1, <1>2, <1>3

LEMMA FreshReadsStep ==
    ASSUME TypeOK, BaseInv, "booking" \notin Contention, Apart, FreshReads, [Next]_vars
    PROVE  FreshReads'
<1>1. ASSUME NEW d \in Desks
      PROVE  LET row == bookings'[desk'[d].booking]
             IN  /\ desk'[d].op \in {"status", "cancel"} =>
                       IsValidStatusTransition(row.status, desk'[d].to)
                 /\ desk'[d].op = "cancel" =>
                       desk'[d].to \in {"cancelled_client", "cancelled_operator"}
                 /\ desk'[d].op = "payment" =>
                       /\ desk'[d].seen = row
                       /\ ~IsTerminalStatus(row.status) \/ row.status = "completed"
    <2>1. CASE desk'[d] = desk[d] /\ desk[d].op # "idle"
        <3>1. bookings'[desk[d].booking] = bookings[desk[d].booking]
            BY <2>1, RowUnderRequest
        <3> QED
            BY <2>1, <3>1 DEF FreshReads
    <2>2. CASE desk'[d].op = "idle"
        BY <2>2
    <2>3. ASSUME NEW b \in BookingIds, Starts(d, b)
          PROVE  LET row == bookings'[desk'[d].booking]
                 IN  /\ desk'[d].op \in {"status", "cancel"} =>
                           IsValidStatusTransition(row.status, desk'[d].to)
                     /\ desk'[d].op = "cancel" =>
                           desk'[d].to \in {"cancelled_client", "cancelled_operator"}
                     /\ desk'[d].op = "payment" =>
                           /\ desk'[d].seen = row
                           /\ ~IsTerminalStatus(row.status) \/ row.status = "completed"
        BY <2>3 DEF Starts
    <2>4. NoRequest.op = "idle"
        BY DEF NoRequest
    <2> QED
        BY <2>1, <2>2, <2>3, <2>4, DeskChanges
<1>2. ASSUME NEW h \in Hooks, hooks'[h].busy
      PROVE  hooks'[h].seen = bookings'[ChargedBooking(h)']
    <2>1. CASE hooks'[h] = hooks[h]
        <3>1. /\ bookings'[ChargedBooking(h)] = bookings[ChargedBooking(h)]
              /\ ChargedBooking(h)' = ChargedBooking(h)
            BY <1>2, <2>1, RowUnderCallback, CallbackKeepsBooking
        <3> QED
            BY <1>2, <2>1, <3>1 DEF FreshReads
    <2>2. ASSUME NEW c \in Charges, Fetches(h, c)
          PROVE  hooks'[h].seen = bookings'[ChargedBooking(h)']
        BY <2>2 DEF Fetches, bookingVars, ChargedBooking
    <2> QED
        BY <1>2, <2>1, <2>2, HookChanges
<1> QED
    BY <1>1, <1>2 DEF FreshReads

(***************************************************************************)
(* Cancelled stays cancelled, and final stays final                        *)
(***************************************************************************)

\* Neither a payment nor a callback moves a booking out of these.
Settled == CancelledStatuses \union {"completed", "no_show"}

LEMMA StatusMachine ==
    ASSUME NEW from \in Statuses, NEW to
    PROVE  /\ IsTerminalStatus(from) <=> from \in {"completed", "no_show", "refund"}
           /\ IsTerminalStatus(from) => ~IsValidStatusTransition(from, to)
           /\ from \in CancelledStatuses /\ IsValidStatusTransition(from, to) => to = "refund"
           /\ from \in Settled => ~IsValidStatusTransition(from, "confirmed")
<1>1. BOOKING_STATUS_TRANSITIONS["cancelled_client"] = {"refund"}
    BY DEF BOOKING_STATUS_TRANSITIONS, Statuses
<1>2. BOOKING_STATUS_TRANSITIONS["cancelled_operator"] = {"refund"}
    BY DEF BOOKING_STATUS_TRANSITIONS, Statuses
<1>3. \A s \in {"completed", "no_show", "refund"} : BOOKING_STATUS_TRANSITIONS[s] = {}
    BY DEF BOOKING_STATUS_TRANSITIONS, Statuses
<1>4. \A s \in Statuses \ {"completed", "no_show", "refund"} : BOOKING_STATUS_TRANSITIONS[s] # {}
    BY DEF BOOKING_STATUS_TRANSITIONS, Statuses
<1> QED
    BY <1>1, <1>2, <1>3, <1>4
    DEF IsTerminalStatus, IsValidStatusTransition, Settled, CancelledStatuses

LEMMA StatusAfterPaymentSettled ==
    ASSUME NEW status \in Settled, NEW paymentStatus
    PROVE  StatusAfterPayment(status, paymentStatus) = status
<1>1. status \in Statuses /\ status # "awaiting_payment"
    BY DEF Settled, CancelledStatuses, Statuses
<1> QED
    BY <1>1, StatusMachine DEF StatusAfterPayment

LEMMA ResolveNextStatusSettled ==
    ASSUME NEW status \in Settled, NEW totalPaid, NEW total
    PROVE  ResolveNextStatus(status, totalPaid, total) = status
BY DEF ResolveNextStatus, Settled, CancelledStatuses

\* The status a step may give a booking that is settled.
LEMMA SettledMoves ==
    ASSUME TypeOK, BaseInv, FreshReads, [Next]_vars,
           NEW b \in BookingIds, bookings[b].status \in Settled
    PROVE  \/ bookings'[b].status = bookings[b].status
           \/ IsValidStatusTransition(bookings[b].status, bookings'[b].status)
           \/ /\ bookings'[b].status = "refund"
              /\ \E c \in revRecorded' \ revRecorded : charges[c].booking = b
<1>1. BookingExists(b) /\ bookings[b] \in BookingRow /\ bookings[b].status \in Statuses
    BY DEF BookingExists, Settled, CancelledStatuses, TypeOK, BookingsTypeOK, BookingRow, Statuses
<1>2. ASSUME NEW d \in Desks, NEW t \in Tours, NEW offer \in Offers,
             NEW agent \in EffectiveAgents(d), CreateBooking(d, b, t, offer, agent)
      PROVE  FALSE
    BY <1>1, <1>2 DEF CreateBooking
<1>3. ASSUME NEW d \in Desks, desk[d].booking = b, CommitChangeStatus(d)
      PROVE  IsValidStatusTransition(bookings[b].status, bookings'[b].status)
    <2>1. bookings'[b].status = desk[d].to
        BY <1>1, <1>3 DEF CommitChangeStatus, TypeOK, BookingsTypeOK, BookingRow
    <2>2. desk[d].op = "status"
        BY <1>3 DEF CommitChangeStatus
    <2> QED
        BY <1>3, <2>1, <2>2 DEF FreshReads
<1>4. ASSUME NEW d \in Desks, desk[d].booking = b, CommitCancel(d)
      PROVE  IsValidStatusTransition(bookings[b].status, bookings'[b].status)
    <2>1. bookings'[b].status = desk[d].to /\ desk[d].op = "cancel"
        BY <1>4, CommitCancelEffect DEF BaseInv
    <2> QED
        BY <1>4, <2>1 DEF FreshReads
<1>5. ASSUME NEW d \in Desks, desk[d].booking = b, CommitAddPayment(d)
      PROVE  bookings'[b].status = bookings[b].status
    <2>1. PICK depositPaid, balancePaid, paymentStatus, status :
              /\ bookings' = [bookings EXCEPT ![desk[d].booking] =
                     [bookings[desk[d].booking] EXCEPT !.depositPaid = depositPaid,
                          !.balancePaid = balancePaid, !.paymentStatus = paymentStatus,
                          !.status = status]]
              /\ status = StatusAfterPayment(desk[d].seen.status, paymentStatus)
        BY <1>5 DEF CommitAddPayment
    <2>2. desk[d].seen = bookings[b]
        BY <1>5 DEF FreshReads, CommitAddPayment
    <2>3. bookings'[b].status = status
        BY <1>1, <1>5, <2>1 DEF TypeOK, BookingsTypeOK, BookingRow
    <2> QED
        BY <2>1, <2>2, <2>3, StatusAfterPaymentSettled
<1>6. ASSUME NEW h \in Hooks, ChargedBooking(h) = b, CommitSuccess(h)
      PROVE  bookings'[b].status = bookings[b].status
    <2> DEFINE c           == hooks[h].charge
               seen        == hooks[h].seen
               isDeposit   == IsDepositPayment(charges[c].kind, seen.depositPaid)
               depositPaid == DepositAfter(seen, isDeposit, charges[c].amount)
               balancePaid == seen.balancePaid + (IF isDeposit THEN 0 ELSE charges[c].amount)
               totalPaid   == depositPaid + balancePaid
               balanceAmount == Greatest(0, seen.total - totalPaid)
               paymentStatus == ResolvePaymentStatus(totalPaid, seen.depositAmount, seen.total)
               status      == ResolveNextStatus(seen.status, totalPaid, seen.total)
    <2>1. bookings' = [bookings EXCEPT ![b] =
              [bookings[b] EXCEPT !.depositPaid = depositPaid,
                   !.balancePaid = balancePaid, !.balanceAmount = balanceAmount,
                   !.paymentStatus = paymentStatus, !.status = status]]
        BY <1>6 DEF CommitSuccess, ChargedBooking
    <2>2. hooks[h].seen = bookings[b]
        BY <1>6 DEF FreshReads, CommitSuccess
    <2>3. status = bookings[b].status
        BY <2>2, ResolveNextStatusSettled
    <2> HIDE DEF depositPaid, balancePaid, balanceAmount, paymentStatus, status
    <2>4. bookings'[b].status = status
        BY <1>1, <2>1 DEF TypeOK, BookingsTypeOK, BookingRow
    <2> QED
        BY <2>3, <2>4
<1>7. ASSUME NEW c \in Charges, charges[c].booking = b, HandleReversal(c)
      PROVE  /\ bookings'[b].status = "refund"
             /\ \E x \in revRecorded' \ revRecorded : charges[x].booking = b
    <2>1. c \in revRecorded' \ revRecorded
        BY <1>7 DEF HandleReversal
    <2>2. bookings'[b].status = "refund"
        BY <1>1, <1>7 DEF HandleReversal, TypeOK, BookingsTypeOK, BookingRow
    <2> QED
        BY <1>7, <2>1, <2>2
<1> QED
    BY <1>2, <1>3, <1>4, <1>5, <1>6, <1>7, RowChanges

\* A booking whose seats are given back in a step is cancelled by it.
LEMMA ReleasedStep ==
    ASSUME TypeOK, BaseInv, FreshReads, ReleasedAreCancelled, [Next]_vars
    PROVE  ReleasedAreCancelled'
<1> SUFFICES ASSUME NEW b \in BookingIds, bookings'[b].commission = "cancelled"
             PROVE  bookings'[b].status \in CancelledStatuses
    BY DEF ReleasedAreCancelled
<1>1. CASE bookings[b].commission = "cancelled"
    <2>1. bookings[b].status \in CancelledStatuses /\ bookings[b].status \in Settled
        BY <1>1 DEF ReleasedAreCancelled, Settled
    <2>2. bookings[b].status \in Statuses
        BY <2>1 DEF CancelledStatuses, Statuses
    <2> QED
        BY <2>1, <2>2, SettledMoves, StatusMachine DEF CancelledStatuses
<1>2. CASE bookings[b].commission # "cancelled"
    <2>1. ASSUME NEW d \in Desks, CommitCancel(d)
          PROVE  bookings'[b].status \in CancelledStatuses
        <3>1. CASE b = desk[d].booking
            BY <2>1, <3>1, CommitCancelEffect DEF BaseInv, FreshReads, CancelledStatuses
        <3>2. CASE b # desk[d].booking
            BY <1>2, <2>1, <3>2, CommitCancelEffect DEF BaseInv
        <3> QED
            BY <3>1, <3>2
    <2>2. ASSUME NEW d \in Desks, NEW x \in BookingIds, NEW t \in Tours, NEW offer \in Offers,
                 NEW agent \in EffectiveAgents(d), CreateBooking(d, x, t, offer, agent)
          PROVE  FALSE
        <3>1. CASE b = x
            BY <2>2, <3>1, CreateBookingEffect
        <3>2. CASE b # x
            BY <1>2, <2>2, <3>2, CreateBookingEffect
        <3> QED
            BY <3>1, <3>2
    <2>3. ASSUME Kept(b) PROVE FALSE
        BY <1>2, <2>3 DEF Kept
    <2>4. CASE UNCHANGED bookings
        BY <1>2, <2>4
    <2> QED
        BY <2>1, <2>2, <2>3, <2>4, StepKinds DEF BaseInv, Quiet, bookingVars
<1> QED
    BY <1>1, <1>2

LEMMA OrderInit == Init => OrderInv
<1> SUFFICES ASSUME Init PROVE OrderInv
    OBVIOUS
<1>1. /\ \A d \in Desks : desk[d].op = "idle"
      /\ \A h \in Hooks : ~hooks[h].busy
      /\ \A b \in BookingIds : bookings[b].commission = "none"
    BY DEF Init, BookingsInit, LiqPayInit, NoRequest, NoHook, NoBookingRow
<1>2. Apart
    BY <1>1 DEF Apart
<1>3. FreshReads
    BY <1>1 DEF FreshReads
<1>4. ReleasedAreCancelled
    BY <1>1 DEF ReleasedAreCancelled
<1> QED
    BY <1>2, <1>3, <1>4 DEF OrderInv

LEMMA OrderStep ==
    ASSUME "booking" \notin Contention, TypeOK, BaseInv, OrderInv, [Next]_vars
    PROVE  OrderInv'
BY ApartStep, FreshReadsStep, ReleasedStep DEF OrderInv

\* Where no two requests work on one booking, a booking whose seats have been
\* given back never travels.
THEOREM CancelledForGood ==
    ASSUME "booking" \notin Contention
    PROVE  Spec => CancelledStaysCancelled
<1> DEFINE Inv == TypeOK /\ BaseInv /\ OrderInv
<1>1. Init => Inv
    BY InitType, BaseInit, OrderInit
<1>2. Inv /\ [Next]_vars => Inv'
    BY StepType, BaseStep, OrderStep
<1>3. Inv /\ [Next]_vars =>
          [\A b \in BookingIds : bookings[b].commission = "cancelled" =>
               bookings'[b].status \in CancelledStatuses]_vars
    <2> SUFFICES ASSUME Inv, [Next]_vars, NEW b \in BookingIds,
                        bookings[b].commission = "cancelled"
                 PROVE  bookings'[b].status \in CancelledStatuses
        OBVIOUS
    <2>1. bookings[b].status \in CancelledStatuses /\ bookings[b].status \in Settled
        BY DEF OrderInv, ReleasedAreCancelled, Settled
    <2>2. bookings[b].status \in Statuses
        BY <2>1 DEF CancelledStatuses, Statuses
    <2> QED
        BY <2>1, <2>2, SettledMoves, StatusMachine DEF OrderInv, CancelledStatuses
<1> QED
    BY <1>1, <1>2, <1>3, PTL DEF Spec, CancelledStaysCancelled

\* Where no two requests work on one booking, only the reversal of a charge
\* moves a booking that is completed, no-show or refunded.
THEOREM FinalForGood ==
    ASSUME "booking" \notin Contention
    PROVE  Spec => TerminalIsFinal
<1> DEFINE Inv == TypeOK /\ BaseInv /\ OrderInv
           Final(b) ==
               BookingExists(b) /\ IsTerminalStatus(bookings[b].status) =>
                   \/ bookings'[b].status = bookings[b].status
                   \/ /\ bookings'[b].status = "refund"
                      /\ \E c \in revRecorded' \ revRecorded : charges[c].booking = b
<1>1. Init => Inv
    BY InitType, BaseInit, OrderInit
<1>2. Inv /\ [Next]_vars => Inv'
    BY StepType, BaseStep, OrderStep
<1>3. Inv /\ [Next]_vars => [\A b \in BookingIds : Final(b)]_vars
    <2> SUFFICES ASSUME Inv, [Next]_vars, NEW b \in BookingIds, BookingExists(b),
                        IsTerminalStatus(bookings[b].status)
                 PROVE  \/ bookings'[b].status = bookings[b].status
                        \/ /\ bookings'[b].status = "refund"
                           /\ \E c \in revRecorded' \ revRecorded : charges[c].booking = b
        OBVIOUS
    <2>1. bookings[b].status \in Statuses
        BY DEF TypeOK, BookingsTypeOK, BookingRow, BookingExists
    <2>2. bookings[b].status \in Settled
        BY <2>1, StatusMachine DEF Settled, CancelledStatuses
    <2> QED
        BY <2>1, <2>2, SettledMoves, StatusMachine DEF OrderInv
<1> QED
    BY <1>1, <1>2, <1>3, PTL DEF Spec, TerminalIsFinal

(***************************************************************************)
(* The seats sold are the seats held                                       *)
(***************************************************************************)

SeatsInv == TypeOK /\ SeatsNeverNegative /\ BaseInv /\ FreshPlans /\ OrderInv /\ SeatConservation

\* What is cancelled has its seats until then.
LEMMA CancelsHolding ==
    ASSUME TypeOK, BaseInv, OrderInv, NEW d \in Desks, CommitCancel(d)
    PROVE  Holding(desk[d].booking)
<1>1. desk[d].booking \in BookingIds /\ BookingExists(desk[d].booking)
    BY CommitCancelEffect DEF BaseInv
<1>2. SUFFICES ASSUME bookings[desk[d].booking].commission = "cancelled" PROVE FALSE
    BY <1>1 DEF Holding
<1>3. bookings[desk[d].booking].status \in CancelledStatuses
    BY <1>1, <1>2 DEF OrderInv, ReleasedAreCancelled
<1>4. /\ IsValidStatusTransition(bookings[desk[d].booking].status, desk[d].to)
      /\ desk[d].to \in {"cancelled_client", "cancelled_operator"}
    BY DEF OrderInv, FreshReads, CommitCancel
<1>5. bookings[desk[d].booking].status \in Statuses
    BY <1>3 DEF CancelledStatuses, Statuses
<1> QED
    BY <1>3, <1>4, <1>5, StatusMachine

LEMMA SeatConservationStep ==
    ASSUME SeatsInv, TypeOK', [Next]_vars
    PROVE  SeatConservation'
<1> USE DEF SeatsInv
<1> SUFFICES ASSUME NEW t \in Tours PROVE Sold(t)' = Held(t)'
    BY PersonsOfHolders DEF SeatConservation, Sold, Held, PersonsOf, Persons, Holders
<1>1. Sold(t) = Held(t)
    BY PersonsOfHolders DEF SeatConservation, Sold, Held
<1>2. BaseInv'
    BY BaseStep
<1>3. /\ Sold(t) \in Int /\ Held(t) \in Int
      /\ Sold(t)' \in Int /\ Held(t)' \in Int
    <2>1. Sold(t)' \in Int
        BY DEF Sold, TypeOK, ToursTypeOK, Tour
    <2>2. RowsInv /\ RowsInv'
        BY <1>2 DEF BaseInv
    <2>3. SeatsCount /\ SeatsCount'
        BY <2>2, HeldType, PTL
    <2> QED
        BY <2>1, <2>3, SoldType DEF SeatsCount
<1>4. Sold(t)' - Sold(t) = Held(t)' - Held(t)
    BY SeatsMove, CancelsHolding
<1> QED
    BY <1>1, <1>3, <1>4

LEMMA SeatsInvInit == Init => SeatsInv
<1> SUFFICES ASSUME Init PROVE SeatConservation
    BY InitType, SeatsInit, BaseInit, FreshPlansInit, OrderInit DEF SeatsInv
<1> SUFFICES ASSUME NEW t \in Tours PROVE Sold(t) = Held(t)
    BY PersonsOfHolders DEF SeatConservation, Sold, Held
<1>1. Sold(t) = 0
    BY DEF Init, ToursInit, NoTourRow, Sold
<1>2. Holders(t) = {}
    BY DEF Init, BookingsInit, NoBookingRow, Holders, Holding, BookingExists
<1> QED
    BY <1>1, <1>2, SumOfNone DEF Held

LEMMA SeatsInvStep ==
    ASSUME "booking" \notin Contention, OnePlanPerTour, SeatsInv, [Next]_vars
    PROVE  SeatsInv'
<1>1. TypeOK' /\ SeatsNeverNegative' /\ BaseInv' /\ FreshPlans' /\ OrderInv'
    BY StepType, SeatsStep, BaseStep, FreshPlansStep, OrderStep DEF SeatsInv
<1> QED
    BY <1>1, SeatConservationStep DEF SeatsInv

\* Where no two requests work on one booking nor two plans on one tour, the
\* seats a tour has sold are those of the bookings that hold some.
THEOREM SeatsAreConserved ==
    ASSUME "booking" \notin Contention, "tour" \notin Contention \/ \A p, q \in Planners : p = q
    PROVE  Spec => []SeatConservation
<1>1. SeatsInv /\ [Next]_vars => SeatsInv'
    BY SeatsInvStep DEF OnePlanPerTour
<1>2. SeatsInv => SeatConservation
    BY DEF SeatsInv
<1> QED
    BY <1>1, <1>2, SeatsInvInit, PTL DEF Spec

\* And a coach never has more travellers than seats: who travels holds seats,
\* and no more are held than there are.
THEOREM NobodyStands ==
    ASSUME "booking" \notin Contention, "tour" \notin Contention \/ \A p, q \in Planners : p = q
    PROVE  Spec => []NoOverbooking
<1>1. SeatsInv /\ [Next]_vars => SeatsInv'
    BY SeatsInvStep DEF OnePlanPerTour
<1>2. SeatsInv => NoOverbooking
    <2> SUFFICES ASSUME SeatsInv, NEW t \in Tours
                 PROVE  PersonsOf(t, Live) <= tours[t].totalSeats
        BY DEF NoOverbooking
    <2> USE DEF SeatsInv, BaseInv
    <2> DEFINE travellers == {b \in BookingIds : Live(b) /\ bookings[b].tour = t}
    <2>1. PersonsOf(t, Live) = SumOf(Persons, travellers)
        BY DEF PersonsOf, Persons
    <2>2. travellers \in SUBSET Holders(t)
        BY DEF Live, Holding, Holders, OrderInv, ReleasedAreCancelled
    <2>3. \A b \in Holders(t) : Persons[b] \in Nat
        BY PersonsType DEF Holders
    <2>4. IsFiniteSet(Holders(t)) /\ Held(t) \in Nat
        BY FewHolders DEF Held
    <2>5. IsFiniteSet(travellers) /\ \A b \in travellers : Persons[b] \in Nat
        BY <2>2, <2>3, <2>4, FS_Subset
    <2> HIDE DEF travellers
    <2>6. SumOf(Persons, travellers) <= Held(t) /\ SumOf(Persons, travellers) \in Nat
        BY <2>2, <2>3, <2>4, <2>5, SumOfPart, SumOfNat DEF Held
    <2>7. Sold(t) = Held(t)
        BY PersonsOfHolders DEF SeatConservation, Sold, Held
    <2>8. tours[t].totalSeats \in Int /\ tours[t].availableSeats \in Int
        BY SoldType
    <2>9. tours[t].availableSeats >= 0
        BY DEF SeatsNeverNegative
    <2> QED
        BY <2>1, <2>4, <2>6, <2>7, <2>8, <2>9 DEF Sold
<1> QED
    BY <1>1, <1>2, SeatsInvInit, PTL DEF Spec

\* Nor does a tour ever offer more free seats than it has: what the double
\* cancellation breaks holds where it cannot happen.
THEOREM FreeSeatsExist ==
    ASSUME "booking" \notin Contention, "tour" \notin Contention \/ \A p, q \in Planners : p = q
    PROVE  Spec => []AvailableWithinTotal
<1>1. SeatsInv /\ [Next]_vars => SeatsInv'
    BY SeatsInvStep DEF OnePlanPerTour
<1>2. SeatsInv => AvailableWithinTotal
    <2> SUFFICES ASSUME SeatsInv, NEW t \in Tours
                 PROVE  tours[t].availableSeats <= tours[t].totalSeats
        BY DEF AvailableWithinTotal
    <2>1. Held(t) \in Nat
        BY FewHolders DEF SeatsInv, BaseInv, Held
    <2>2. Sold(t) = Held(t)
        BY PersonsOfHolders DEF SeatsInv, SeatConservation, Sold, Held
    <2>3. tours[t].totalSeats \in Int /\ tours[t].availableSeats \in Int
        BY SoldType DEF SeatsInv
    <2> QED
        BY <2>1, <2>2, <2>3 DEF Sold
<1> QED
    BY <1>1, <1>2, SeatsInvInit, PTL DEF Spec

(***************************************************************************)
(* The seats implement SeatLedger                                          *)
(***************************************************************************)

Capacity   == [t \in Tours |-> tours[t].totalSeats]
Free       == [t \in Tours |-> tours[t].availableSeats]
SeatsOf    == [b \in BookingIds |-> IF Holding(b) THEN bookings[b].persons ELSE 0]
Place      == [b \in BookingIds |-> bookings[b].tour]

LEMMA LedgerOpens ==
    ASSUME NEW t \in Tours, NEW n \in Capacities \union Resizes, tours[t].totalSeats = 0,
           tours[t].availableSeats = 0, tours'[t].totalSeats = n, tours'[t].availableSeats = n,
           \A x \in Tours : x # t => tours'[x] = tours[x], UNCHANGED bookings
    PROVE  Ledger!Next
<1>1. Capacity' = [Capacity EXCEPT ![t] = n] /\ Capacity[t] = 0
    BY DEF Capacity
<1>2. Free' = [Free EXCEPT ![t] = n]
    BY DEF Free
<1>3. SeatsOf' = SeatsOf /\ Place' = Place
    BY DEF SeatsOf, Place, Holding, BookingExists
<1>4. Ledger!Open(t)
    BY <1>1, <1>2, <1>3 DEF Ledger!Open, Capacity, Free, SeatsOf, Place
<1> QED
    BY <1>4 DEF Ledger!Next

LEMMA LedgerResizes ==
    ASSUME TypeOK, NEW t \in Tours, NEW n \in Resizes,
           tours'[t].totalSeats = n, tours'[t].availableSeats \in Nat,
           tours'[t].availableSeats = tours[t].availableSeats + (n - tours[t].totalSeats),
           \A x \in Tours : x # t => tours'[x] = tours[x], UNCHANGED bookings
    PROVE  Ledger!Next
<1> DEFINE reserved == Capacity[t] - Free[t]
<1>1. /\ Capacity[t] = tours[t].totalSeats /\ Capacity[t] \in Int
      /\ Free[t] = tours[t].availableSeats /\ Free[t] \in Int
    BY SoldType DEF Capacity, Free
<1>2. n \in Int
    BY TourRequestAssumption
<1>3. n >= reserved /\ tours'[t].availableSeats = n - reserved
    BY <1>1, <1>2
<1>4. Capacity' = [Capacity EXCEPT ![t] = n]
    BY DEF Capacity
<1>5. Free' = [Free EXCEPT ![t] = n - reserved]
    <2> HIDE DEF reserved
    <2> QED
        BY <1>3 DEF Free
<1>6. SeatsOf' = SeatsOf /\ Place' = Place
    BY DEF SeatsOf, Place, Holding, BookingExists
<1>7. Ledger!Resize(t)
    BY <1>3, <1>4, <1>5, <1>6 DEF Ledger!Resize, Capacity, Free, SeatsOf, Place
<1> QED
    BY <1>7 DEF Ledger!Next

LEMMA LedgerKept ==
    ASSUME \A t \in Tours : /\ tours'[t].totalSeats = tours[t].totalSeats
                            /\ tours'[t].availableSeats = tours[t].availableSeats,
           \A b \in BookingIds : Kept(b)
    PROVE  UNCHANGED Ledger!ledgerVars
<1>1. Capacity' = Capacity /\ Free' = Free
    BY DEF Capacity, Free
<1>2. \A b \in BookingIds : Holding(b)' = Holding(b)
    BY DEF Kept, Holding, BookingExists
<1>3. SeatsOf' = SeatsOf /\ Place' = Place
    BY <1>2 DEF SeatsOf, Place, Kept
<1> QED
    BY <1>1, <1>3 DEF Ledger!ledgerVars, Capacity, Free, SeatsOf, Place

LEMMA TourStepLedger ==
    ASSUME TypeOK, SeatsNeverNegative, ToursInv, FreshPlans, TourStep, UNCHANGED bookings
    PROVE  Ledger!Next \/ UNCHANGED Ledger!ledgerVars
<1> DEFINE Goal == Ledger!Next \/ UNCHANGED Ledger!ledgerVars
<1>1. ASSUME NEW t \in Tours, NEW n \in Capacities \union Resizes, CreateTour(t, n) PROVE Goal
    <2>1. /\ tours[t].totalSeats = 0 /\ tours[t].availableSeats = 0
          /\ tours'[t].totalSeats = n /\ tours'[t].availableSeats = n
          /\ \A x \in Tours : x # t => tours'[x] = tours[x]
        BY <1>1 DEF CreateTour, ToursInv, TypeOK, ToursTypeOK
    <2> QED
        BY <2>1, LedgerOpens
<1>2. ASSUME NEW source \in Tours, NEW t \in Tours,
             NEW n \in Capacities \union {tours[source].totalSeats},
             CreateDeparture(source, t, n)
      PROVE  Goal
    <2>1. n \in Capacities \union Resizes
        BY <1>2 DEF ToursInv, CreateDeparture, Listed
    <2> QED
        BY <1>1, <1>2, <2>1 DEF CreateDeparture
<1>3. ASSUME NEW p \in Planners, CommitResize(p) PROVE Goal
    <2> DEFINE t     == plans[p].tour
               n     == plans[p].seats
               delta == plans[p].seats - plans[p].seen
               free  == tours[t].availableSeats + delta
    <2>1. /\ tours' = [tours EXCEPT ![t] =
                 [tours[t] EXCEPT !.totalSeats = n, !.availableSeats = free]]
          /\ plans[p].op = "resize" /\ ShrinkFits(t, delta)
        BY <1>3 DEF CommitResize
    <2>2. plans[p].seen = tours[t].totalSeats /\ n \in Resizes
        BY <2>1 DEF FreshPlans, ToursInv
    <2>3. /\ t \in Tours /\ n \in Nat /\ plans[p].seen \in Nat
          /\ tours[t].availableSeats \in Int /\ tours[t] \in Tour
        BY DEF TypeOK, ToursTypeOK, Plan, Tour
    <2>4. tours[t].availableSeats >= 0
        BY <2>3 DEF SeatsNeverNegative
    <2>5. free \in Nat
        BY <2>1, <2>3, <2>4 DEF ShrinkFits
    <2>6. free = tours[t].availableSeats + (n - tours[t].totalSeats)
        BY <2>2
    <2> HIDE DEF t, n, delta, free
    <2>7. /\ tours'[t].totalSeats = n /\ tours'[t].availableSeats = free
          /\ \A x \in Tours : x # t => tours'[x] = tours[x]
        BY <2>1, <2>3 DEF TypeOK, ToursTypeOK, Tour
    <2> QED
        BY <2>2, <2>3, <2>5, <2>6, <2>7, LedgerResizes
<1>4. ASSUME \A t \in Tours : /\ tours'[t].totalSeats = tours[t].totalSeats
                              /\ tours'[t].availableSeats = tours[t].availableSeats
      PROVE  Goal
    BY <1>4, UnchangedIsKept, LedgerKept
<1>5. ASSUME NEW p \in Planners, CommitTourStatus(p) \/ CommitArchive(p) PROVE Goal
    <2>1. \A t \in Tours : /\ tours'[t].totalSeats = tours[t].totalSeats
                           /\ tours'[t].availableSeats = tours[t].availableSeats
        BY <1>5 DEF CommitTourStatus, CommitArchive, TypeOK, ToursTypeOK, Tour
    <2> QED
        BY <1>4, <2>1
<1>6. ASSUME \/ \E p \in Planners, x \in Tours :
                   \/ \E seats \in Resizes : BeginResize(p, x, seats)
                   \/ \E to \in TourTargets : BeginTourStatus(p, x, to)
                   \/ BeginArchive(p, x)
             \/ \E p \in Planners : AbandonPlan(p)
      PROVE  Goal
    <2>1. UNCHANGED tours
        BY <1>6 DEF BeginResize, BeginTourStatus, BeginArchive, AbandonPlan
    <2> QED
        BY <1>4, <2>1
<1>7. ASSUME NEW t \in Tours, NEW n \in Capacities, CreateTour(t, n) PROVE Goal
    BY <1>1, <1>7
<1> HIDE DEF Goal
<1>8. Goal
    BY <1>2, <1>3, <1>5, <1>6, <1>7 DEF TourStep
<1> USE DEF Goal
<1> QED
    BY <1>8

LEMMA CreateBookingReserves ==
    ASSUME TypeOK, NEW d \in Desks, NEW b \in BookingIds, NEW t \in Tours, NEW offer \in Offers,
           NEW agent \in EffectiveAgents(d), CreateBooking(d, b, t, offer, agent)
    PROVE  Ledger!Next
<1> DEFINE n == offer.persons
<1>1. /\ ~BookingExists(b) /\ bookings'[b].status = "new" /\ bookings'[b].tour = t
      /\ bookings'[b].persons = n /\ n \in Nat \ {0} /\ bookings'[b].commission # "cancelled"
      /\ \A y \in BookingIds : y # b => bookings'[y] = bookings[y]
      /\ CanClaim(t, n) /\ Claim(t, n)
    BY CreateBookingEffect
<1> HIDE DEF n
<1>2. /\ tours'[t].availableSeats = tours[t].availableSeats - n
      /\ \A x \in Tours : x # t => tours'[x] = tours[x]
      /\ \A x \in Tours : tours'[x].totalSeats = tours[x].totalSeats
    BY <1>1 DEF Claim, TypeOK, ToursTypeOK, Tour
<1>3. Capacity' = Capacity /\ Free' = [Free EXCEPT ![t] = @ - n]
    BY <1>2 DEF Capacity, Free
<1>4. Holding(b)' /\ ~Holding(b) /\ \A y \in BookingIds : y # b => Holding(y)' = Holding(y)
    BY <1>1 DEF Holding, BookingExists
<1>5. SeatsOf' = [SeatsOf EXCEPT ![b] = n] /\ SeatsOf[b] = 0
    BY <1>1, <1>4 DEF SeatsOf
<1>6. Place' = [Place EXCEPT ![b] = t]
    BY <1>1 DEF Place
<1>7. n \in 1..Free[t]
    BY <1>1, SoldType DEF CanClaim, Free
<1>8. Ledger!Reserve(b, t)
    BY <1>3, <1>5, <1>6, <1>7 DEF Ledger!Reserve, Capacity, Free, SeatsOf, Place
<1> QED
    BY <1>8 DEF Ledger!Next

LEMMA CommitCancelGivesBack ==
    ASSUME TypeOK, BaseInv, OrderInv, NEW d \in Desks, CommitCancel(d)
    PROVE  Ledger!Next
<1>1. PICK b \in BookingIds, t \in Tours, n \in Nat :
          /\ b = desk[d].booking /\ t = bookings[b].tour /\ n = bookings[b].persons
          /\ BookingExists(b) /\ bookings'[b].commission = "cancelled"
          /\ bookings'[b].tour = t
          /\ \A y \in BookingIds : y # b => bookings'[y] = bookings[y]
          /\ Release(t, n)
    BY CommitCancelEffect DEF BaseInv
<1>2. /\ tours'[t].availableSeats = tours[t].availableSeats + n
      /\ \A x \in Tours : x # t => tours'[x] = tours[x]
      /\ \A x \in Tours : tours'[x].totalSeats = tours[x].totalSeats
    <2>1. Release(t, n)
        BY <1>1
    <2> QED
        BY <2>1 DEF Release, TypeOK, ToursTypeOK, Tour
<1>3. Capacity' = Capacity /\ Free' = [Free EXCEPT ![t] = @ + n]
    BY <1>2 DEF Capacity, Free
<1>4. Holding(b) /\ ~Holding(b)' /\ \A y \in BookingIds : y # b => Holding(y)' = Holding(y)
    BY <1>1, CancelsHolding DEF Holding, BookingExists
<1>5. SeatsOf' = [SeatsOf EXCEPT ![b] = 0] /\ SeatsOf[b] = n
    BY <1>1, <1>4 DEF SeatsOf
<1>6. Place' = Place /\ Place[b] = t
    BY <1>1 DEF Place
<1>7. n > 0
    BY <1>1 DEF BaseInv, RowsInv
<1>8. Ledger!GiveBack(b)
    BY <1>3, <1>5, <1>6, <1>7 DEF Ledger!GiveBack, Capacity, Free, SeatsOf, Place
<1> QED
    BY <1>8 DEF Ledger!Next

LEMMA LedgerStep ==
    ASSUME SeatsInv, [Next]_vars
    PROVE  [Ledger!Next]_(Ledger!ledgerVars)
<1>1. CASE TourStep /\ UNCHANGED bookings
    BY <1>1, TourStepLedger DEF SeatsInv, BaseInv
<1>2. CASE Quiet
    BY <1>2, LedgerKept DEF Quiet
<1> QED
    BY <1>1, <1>2, CreateBookingReserves, CommitCancelGivesBack, StepKinds
    DEF SeatsInv, BaseInv, bookingVars

LEMMA LedgerInit == Init => Ledger!Init
<1> SUFFICES ASSUME Init PROVE Ledger!Init
    OBVIOUS
<1>1. Capacity = [t \in Tours |-> 0] /\ Free = [t \in Tours |-> 0]
    BY DEF Init, ToursInit, NoTourRow, Capacity, Free
<1>2. SeatsOf = [b \in BookingIds |-> 0]
    BY DEF Init, BookingsInit, NoBookingRow, Holding, BookingExists, SeatsOf
<1>3. Place \in [BookingIds -> Tours]
    BY InitType DEF Place, TypeOK, BookingsTypeOK, BookingRow
<1> QED
    BY <1>1, <1>2, <1>3 DEF Ledger!Init, Capacity, Free, SeatsOf, Place

\* Where no two requests work on one booking nor two plans on one tour, the
\* handlers implement the ledger: every step opens a tour, changes its size,
\* reserves seats, gives exactly those back, or leaves the seats alone.
THEOREM SeatLedgerImplemented ==
    ASSUME "booking" \notin Contention, "tour" \notin Contention \/ \A p, q \in Planners : p = q
    PROVE  Spec => ImplementsSeatLedger
<1>1. SeatsInv /\ [Next]_vars => SeatsInv'
    BY SeatsInvStep DEF OnePlanPerTour
<1>2. SeatsInv /\ [Next]_vars => [Ledger!Next]_(Ledger!ledgerVars)
    BY LedgerStep
<1> QED
    BY <1>1, <1>2, SeatsInvInit, LedgerInit, PTL DEF Spec, ImplementsSeatLedger

=============================================================================
