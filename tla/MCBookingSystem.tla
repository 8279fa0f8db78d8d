--------------------------- MODULE MCBookingSystem ---------------------------
(***************************************************************************)
(* Values for the constants of BookingSystem that a .cfg cannot write      *)
(* down.  Amounts are tiny: a booking costs 3 or 4, its deposit is 1 or 2. *)
(***************************************************************************)
EXTENDS BookingProperties, TLC

CONSTANTS d1, d2, a1

\* Requests in flight are interchangeable where all desks are managers'.
InFlightSymmetry == Permutations(Desks) \union Permutations(Hooks) \union Permutations(Planners)

ManagerRoles   == [d \in Desks |-> "manager"]
AgentAtSecond  == [d \in Desks |-> IF d = d2 THEN "agent" ELSE "manager"]
NoAgency       == [d \in Desks |-> NoAgent]
AgencyAtSecond == [d \in Desks |-> IF d = d2 THEN a1 ELSE NoAgent]

SmallGroups == { [persons |-> n, total |-> 3, deposit |-> 1] : n \in 1..2 }
OnePerson   == { [persons |-> 1, total |-> 3, deposit |-> 1] }
Costlier    == { [persons |-> 1, total |-> 4, deposit |-> 2] }

\* Half the total up to ten days ahead, a quarter from ten days on; in the
\* last days before departure no rule applies and everything is lost.
Graded == { [days_before |-> 3, penalty_pct |-> 50],
            [days_before |-> 10, penalty_pct |-> 25] }
SomePolicies == {NoPolicy, Graded}

==============================================================================
