---------------------------- MODULE MCTourOffice ----------------------------
(***************************************************************************)
(* Values for TourOffice: one tour, two requests of the operations office, *)
(* one of the tour office, two about passengers, and the loads that are    *)
(* worth telling apart.                                                    *)
(***************************************************************************)
EXTENDS TourOffice

CONSTANTS o1, o2, a1, a2, b1, ann, bob, party1, party2

\* An administrator beside colleagues who may do less.
TwoRoles == [o \in Officers |-> IF o = o1 THEN {"admin"} ELSE {"ops", "product_manager"}]
NoDirector == [p \in Planners |-> "other"]

\* Beds for one, two and three.
SmallStructures == { [NoRooms EXCEPT !.single = 1], [NoRooms EXCEPT !.twin = 1],
                     [NoRooms EXCEPT !.triple = 1] }

\* Ann is on the list twice, with two bookings; Bob comes with her second one.
ThreeRows == [p \in Participants |-> IF p = b1 THEN bob ELSE ann]
TwoParties == [p \in Participants |-> IF p = a1 THEN party1 ELSE party2]

Busy(kinds, overlap) == [kinds |-> kinds, overlap |-> overlap]

ManyLoads ==
    { Busy({"structure", "status"}, {}),
      Busy({"checklist", "status"}, {}),
      Busy({"checklist"}, {"crash"}),
      Busy({"structure"}, {"hotel"}),
      Busy({"drivers"}, {}),
      Busy({"drivers"}, {"drivers"}),
      Busy({"extras"}, {"costs"}),
      Busy({"coaches"}, {"costs"}),
      Busy({"coaches"}, {}),
      Busy({"papers"}, {}),
      Busy({"papers"}, {"redeploy"}),
      Busy({"seats"}, {"clerks", "late"}),
      Busy({"hotels", "wishes"}, {"clerks", "late"}),
      Busy({"hotels", "rooms"}, {"clerks"}),
      Busy({"hotels", "wishes", "rooms"}, {}),
      Busy({"hotels", "scan"}, {"scan", "late"}),
      Busy({"hotels", "scan"}, {"late"}) }

=============================================================================
