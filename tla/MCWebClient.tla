---------------------------- MODULE MCWebClient ----------------------------
(***************************************************************************)
(* Loads for WebClient: each page as each role sees it, alone; the changes *)
(* of a page with the pages they show on; and the overlaps.                *)
(***************************************************************************)
EXTENDS WebClient

\* What the theorems about WebClient require of the tables holds of these.
ASSUME TablesAgree == TablesFit

SlotSymmetry == Permutations(Slots)

\* The tabs are opened from the page of the tour.
With(screens) == screens \union (IF screens \intersect Tabs # {} THEN {"info"} ELSE {})

OfferedOn(screens, r) == {o.change : o \in UNION {ScreenOf(s, r).offers : s \in screens}}

Load(r, screens, changes, most, overlap) ==
    [role |-> r, screens |-> With(screens), changes |-> changes, most |-> most,
     overlap |-> overlap]

Offered(r, screens, most, overlap) == Load(r, screens, OfferedOn(screens, r), most, overlap)

\* Every page as every role that may open it.
Alone ==
    {Load(x[1], {x[2]}, IF x[2] = "staffTab" THEN {} ELSE OfferedOn({x[2]}, x[1]), 1, {}) :
        x \in {y \in Roles \X Screens : MayOpen(y[1], y[2])}}

\* Pages that show each other's changes.
Pairs ==
    { Offered("ops", {"seatingTab", "touristsTab"}, 1, {}),
      Offered("ops", {"checklistTab", "tours"}, 1, {"time"}),
      Offered("ops", {"tourNew", "tours"}, 1, {"time"}),
      Offered("ops", {"operations", "tours"}, 1, {}),
      Offered("manager", {"leadsPage", "bookings"}, 1, {}),
      Offered("manager", {"bookingNew", "bookings"}, 1, {}),
      Load("manager", {"bookingNew", "touristsTab"}, {"createBooking"}, 1, {}),
      Load("manager", {"bookingPage", "bookings"}, {"changeBookingStatus"}, 1, {}),
      Load("manager", {"leadsPage", "bookingNew"}, {"createLead"}, 1, {}),
      Load("agent", {"bookingNew", "agentCabinet"}, {"createBooking"}, 1, {}),
      Offered("tourist", {"myPage", "myWishes"}, 1, {"time"}),
      Load("ops", {"hotelsTab", "structureTab"}, {"createHotel"}, 1, {}),
      Load("ops", {"structureTab", "documentsTab"}, {"setStructure"}, 1, {}),
      Load("ops", {"checklistTab", "notFound"}, {"patchChecklist"}, 1, {}) }

Overlapping ==
    { Load("logist", {"operations"}, {}, 0, {"time"}),
      Offered("logist", {"carriersPage"}, 1, {"time", "loss"}),
      Load("logist", {"structureTab"}, {"setStructure"}, 2, {"twin", "race"}),
      Load("ops", {"checklistTab"}, {"patchChecklist"}, 2, {"twin", "race"}) }

ManyLoads == Alone \union Pairs \union Overlapping

=============================================================================
