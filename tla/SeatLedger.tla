------------------------------ MODULE SeatLedger ------------------------------
(***************************************************************************)
(* What BR-01 promises of the seats of a tour, with the handlers that keep *)
(* it left out: a reservation takes its seats from the free ones in one    *)
(* step, gives exactly those back at most once, and a change of capacity   *)
(* leaves the seats already reserved alone.                                *)
(***************************************************************************)
EXTENDS Integers

CONSTANTS
    Reservations,
    Places,
    Sizes       \* the capacities a place may have

VARIABLES
    capacity,   \* [Places -> Nat]
    free,       \* [Places -> Nat]
    held,       \* [Reservations -> Nat], the seats a reservation holds
    place       \* [Reservations -> Places], where it holds them

ledgerVars == <<capacity, free, held, place>>

Init ==
    /\ capacity = [p \in Places |-> 0]
    /\ free = [p \in Places |-> 0]
    /\ held = [r \in Reservations |-> 0]
    /\ place \in [Reservations -> Places]

Open(p) ==
    /\ capacity[p] = 0
    /\ \E n \in Sizes : /\ capacity' = [capacity EXCEPT ![p] = n]
                            /\ free' = [free EXCEPT ![p] = n]
    /\ UNCHANGED <<held, place>>

Reserve(r, p) ==
    /\ held[r] = 0
    /\ \E n \in 1..free[p] : /\ held' = [held EXCEPT ![r] = n]
                             /\ free' = [free EXCEPT ![p] = @ - n]
    /\ place' = [place EXCEPT ![r] = p]
    /\ UNCHANGED capacity

GiveBack(r) ==
    /\ held[r] > 0
    /\ free' = [free EXCEPT ![place[r]] = @ + held[r]]
    /\ held' = [held EXCEPT ![r] = 0]
    /\ UNCHANGED <<capacity, place>>

Resize(p) ==
    /\ \E n \in Sizes : LET reserved == capacity[p] - free[p]
                      IN  /\ n >= reserved
                          /\ capacity' = [capacity EXCEPT ![p] = n]
                          /\ free' = [free EXCEPT ![p] = n - reserved]
    /\ UNCHANGED <<held, place>>

Next == \/ \E p \in Places : Open(p) \/ Resize(p)
        \/ \E r \in Reservations, p \in Places : Reserve(r, p)
        \/ \E r \in Reservations : GiveBack(r)

Spec == Init /\ [][Next]_ledgerVars

===============================================================================
