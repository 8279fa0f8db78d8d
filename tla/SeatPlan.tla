------------------------------ MODULE SeatPlan ------------------------------
(***************************************************************************)
(* What the seating of a coach promises, without bookings, requests or a   *)
(* database: a traveller sits down on a seat only when nobody else is on   *)
(* it, leaving the one taken before.                                       *)
(***************************************************************************)
CONSTANTS Travellers, Seats

VARIABLE sitting    \* [Seats -> SUBSET Travellers]

Init == sitting = [s \in Seats |-> {}]

Take(p, s) ==
    /\ sitting[s] \subseteq {p}
    /\ sitting' = [r \in Seats |-> IF r = s THEN {p} ELSE sitting[r] \ {p}]

GetUp(p) == sitting' = [s \in Seats |-> sitting[s] \ {p}]

Next == \E p \in Travellers : GetUp(p) \/ \E s \in Seats : Take(p, s)

Spec == Init /\ [][Next]_sitting
=============================================================================
