------------------------------- MODULE Pages -------------------------------
(***************************************************************************)
(* What the pages of the web client (App.tsx, frontend/src/pages) mount    *)
(* and offer to a role: the queries they read, the changes one may click   *)
(* once certain queries have data, and the pages they link to.  The tabs   *)
(* of a tour's page are screens of their own.                              *)
(***************************************************************************)
EXTENDS ApiRoutes, QueryHooks

\* A part of a screen.
Part(reads, offers, links) == [reads |-> reads, offers |-> offers, links |-> links]

Reading(reads) == Part(reads, {}, {})

\* What only certain roles are shown.
Shown(who, role, what) == IF role \in who THEN what ELSE {}

\* Changes one may click once the queries they take their choice from have data.
Offer(changes, after) == {[change |-> c, after |-> after] : c \in changes}

Beside(part, other) ==
    Part(part.reads \union other.reads, part.offers \union other.offers,
         part.links \union other.links)

For(who, role, part) == IF role \in who THEN part ELSE Reading({})

(***************************************************************************)
(* App.tsx and the menu                                                    *)
(***************************************************************************)

Team     == {"admin", "director", "manager", "ops", "accountant"}
TourTeam == Team \union {"product_manager", "logist"}

Tabs == {"info", "checklistTab", "staffTab", "touristsTab", "structureTab", "roomingTab",
         "activitiesTab", "seatingTab", "transportTab", "hotelsTab", "documentsTab"}

\* allowedRoles of the routes; the page of the route * is for everyone.
AllowedRoles ==
    [finance |-> {"admin", "director"},
     dashboard |-> Team, bookings |-> Team,
     tours |-> TourTeam, operations |-> TourTeam,
     tourNew |-> {"admin", "ops", "product_manager"},
     staffPage |-> {"admin", "product_manager"},
     carriersPage |-> {"admin", "logist"},
     leadsPage |-> {"admin", "director", "manager"},
     analytics |-> {"admin", "director", "manager"},
     bookingNew |-> {"admin", "manager", "agent"},
     bookingPage |-> Team \union {"agent"},
     agentCabinet |-> {"agent"},
     myPage |-> {"tourist"}, myWishes |-> {"tourist"},
     notFound |-> Roles]
    @@ [tab \in Tabs |-> TourTeam]

\* ProtectedRoute.
MayOpen(role, screen) == role \in AllowedRoles[screen]

RoleHome(role) ==
    CASE role = "agent" -> "agentCabinet"
      [] role = "tourist" -> "myPage"
      [] role = "product_manager" -> "tours"
      [] role = "logist" -> "operations"
      [] OTHER -> "dashboard"

\* The menu of Layout.
NavItems(role) ==
    Shown(Team, role, {"dashboard", "bookings"})
    \union Shown({"tourist"}, role, {"myPage"})
    \union Shown(TourTeam, role, {"tours", "operations"})
    \union Shown({"admin", "director", "manager"}, role, {"leadsPage", "analytics"})
    \union Shown({"admin", "product_manager"}, role, {"staffPage"})
    \union Shown({"admin", "logist"}, role, {"carriersPage"})
    \union Shown({"admin", "director"}, role, {"finance"})
    \union Shown({"agent"}, role, {"agentCabinet"})

(***************************************************************************)
(* A tour and its tabs                                                     *)
(***************************************************************************)

CanEditStructure == {"ops", "admin", "logist"}
CanChangeStatus  == {"ops", "admin", "director"}

ChecklistTab(role) ==
    Part({"checklist"},
         Shown(CanEditStructure, role, Offer({"patchChecklist"}, {"checklist"}))
         \union Shown(CanChangeStatus, role, Offer({"changeTourStatus"}, {"checklist"})), {})

NewActivityForm == Offer({"createActivity"}, {"activities"})

ActivitiesTab(role) ==
    Part({"activities"},
         Shown(CanEditStructure, role,
               NewActivityForm \union Offer({"patchActivity"}, {"activities"})), {})

TouristsTab == Reading({"tourTourists"})

DocumentsTab(role) ==
    Part({"tourPapers", "hotels"},
         Shown(CanEditStructure, role, Offer({"generateTourPaper"}, {"tourPapers"})), {})

\* One click beside the other in the table, and the board of rooms.
RoomingTable == Offer({"assignRoom", "finalizeRooming"}, {"tourTourists", "hotels"})

RoomingBoard == Offer({"assignRoom"}, {"tourTourists", "hotels"})

RoomingTab(role) ==
    Part({"tourTourists", "hotels"},
         Shown(CanEditStructure, role, RoomingTable \union RoomingBoard), {})

HotelCorrespondence ==
    Part({"hotelMail"}, Offer({"createHotelMail"}, {"hotels"}), {})

HotelRow(role) ==
    Beside(Part({}, Shown(CanEditStructure, role, Offer({"patchHotel"}, {"hotels"})), {}),
           For({"logist", "admin"}, role, HotelCorrespondence))

NewHotelForm == Offer({"createHotel"}, {"hotels"})

HotelsTab(role) ==
    Beside(Part({"hotels"}, Shown(CanEditStructure, role, NewHotelForm), {}),
           HotelRow(role))

TransportRow(role) == Shown(CanEditStructure, role, Offer({"patchTransport"}, {"transport"}))

NewTransportForm == Offer({"createTransport"}, {"transport"})

TransportTab(role) ==
    Part({"transport"},
         TransportRow(role)
         \union Shown(CanEditStructure, role, NewTransportForm), {})

SeatingTab(role) ==
    Part({"tourSeatMap", "tourTourists"},
         Shown(CanEditStructure, role, Offer({"assignSeat"}, {"tourSeatMap", "tourTourists"})), {})

RoomStructureRow(role) ==
    Shown(CanEditStructure, role, Offer({"setStructure", "finalizeStructure"}, {"roomStructure"}))
    \union Shown({"admin", "director"}, role, Offer({"approveStructure"}, {"roomStructure"}))

RoomStructureTab(role) == Part({"roomStructure"}, RoomStructureRow(role), {})

TourGuideSection == Part({"staff"}, Offer({"updateTour"}, {"staff"}), {})

TourDriversSection ==
    Part({"drivers", "staff"},
         Offer({"assignDriver"}, {"staff"}) \union Offer({"unassignDriver"}, {"drivers"}), {})

TourExtrasSection ==
    Part({"extras"},
         Offer({"createExtra"}, {}) \union Offer({"cancelExtra"}, {"extras"}), {})

StaffAssignmentTab == Beside(TourGuideSection, Beside(TourDriversSection, TourExtrasSection))

\* The tabs a role is shown.
TabsOf(role) ==
    {"info"}
    \union Shown(Team \union {"product_manager"}, role, {"checklistTab"})
    \union Shown({"admin", "product_manager"}, role, {"staffTab"})
    \union Shown(Team, role, {"touristsTab", "activitiesTab", "seatingTab", "documentsTab"})
    \union (IF role \in Team \union {"logist"}
            THEN {"structureTab", "roomingTab", "transportTab", "hotelsTab"} ELSE {})

\* The page around the tabs; its button leads to a new booking.
TourPage(role) ==
    Part({"tourDetail"}, {},
         {"tours"} \union (IF role \in {"ops", "logist", "product_manager"} THEN {}
                           ELSE {"bookingNew"}))

TabOf(tab, role) ==
    CASE tab = "info" -> Reading({})
      [] tab = "checklistTab" -> ChecklistTab(role)
      [] tab = "staffTab" -> StaffAssignmentTab
      [] tab = "touristsTab" -> TouristsTab
      [] tab = "structureTab" -> RoomStructureTab(role)
      [] tab = "roomingTab" -> RoomingTab(role)
      [] tab = "activitiesTab" -> ActivitiesTab(role)
      [] tab = "seatingTab" -> SeatingTab(role)
      [] tab = "transportTab" -> TransportTab(role)
      [] tab = "hotelsTab" -> HotelsTab(role)
      [] tab = "documentsTab" -> DocumentsTab(role)

(***************************************************************************)
(* Tours and operations                                                    *)
(***************************************************************************)

\* A click opens the tour where the page has somewhere to go, the button books.
TourCard(view, mayBook) ==
    view \union (IF mayBook THEN {"bookingNew"} ELSE {})

TourListRow(mayBook) == TourCard({"info"}, mayBook)

CanBook(role) == role \notin {"ops", "logist", "product_manager"}

\* Shown as cards or as a list.
ToursPage(role) ==
    Part({"tours"}, {},
         TourListRow(CanBook(role)) \union Shown({"ops", "product_manager"}, role, {"tourNew"}))

TourNewPage ==
    Part({"staff"}, Offer({"createTour"}, {}), {"tours"})

LogisticsView == Part({"opsDashboard"}, {}, {"info", "carriersPage"})

OpsDashboardView == Part({"opsDashboard"}, {}, {"info"})

NewDepartureModal == Offer({"createDeparture"}, {"toursOf50"})

CanSeeOpsDashboard == {"ops", "manager", "admin", "director", "logist"}

Operations(role) ==
    Beside(Part({"toursOf50"},
                Shown({"admin", "ops", "product_manager"}, role, NewDepartureModal),
                {"info", "tours", "finance"}),
           Beside(For(CanSeeOpsDashboard, role, OpsDashboardView),
                  For({"logist", "admin"}, role, LogisticsView)))

StaffFormModal == Offer({"createStaff"}, {}) \union Offer({"patchStaff"}, {"staff"})

StaffPage == Part({"staff"}, StaffFormModal \union Offer({"deactivateStaff"}, {"staff"}), {})

CarrierFormModal == Offer({"createCarrier"}, {}) \union Offer({"patchCarrier"}, {"carriers"})

BusAddForm == Offer({"createBus"}, {"carriers"})

CarrierRow == BusAddForm \union Offer({"patchBus"}, {"carriers"})

CarriersPage == Part({"carriers"}, CarrierFormModal \union CarrierRow, {})

(***************************************************************************)
(* Sales                                                                   *)
(***************************************************************************)

BookingsPage(role) ==
    Part({"bookings"}, {},
         {"bookingPage"} \union Shown({"admin", "manager"}, role, {"bookingNew"}))

StatusChanger(role) ==
    Shown({"admin", "manager", "ops"}, role, Offer({"changeBookingStatus"}, {"bookingDetail"}))

DocumentsBlock(role) ==
    Part({"bookingPapers"},
         Shown({"admin", "manager", "agent"}, role, Offer({"generateBookingPaper"}, {"bookingDetail"})), {})

CommunicationsBlock(role) ==
    Part({"bookingMail"},
         Shown({"admin", "manager", "agent"}, role, Offer({"createBookingMail"}, {"bookingDetail"})), {})

BookingHeader(role) == Part({"bookingDetail", "availability"}, StatusChanger(role), {"bookings"})

BookingDetail(role) ==
    Beside(BookingHeader(role), Beside(DocumentsBlock(role), CommunicationsBlock(role)))

BookingNew ==
    Part({"tours", "touristSearch", "agents"},
         Offer({"createTourist"}, {}) \union Offer({"createBooking"}, {"tours", "touristSearch"}),
         {"bookings"})

NewLeadModal == Part({"toursOf50"}, Offer({"createLead"}, {}), {})

\* A card is dragged to another column: PUT, or convert for the column of the won.
LeadCard == Offer({"updateLead", "convertLead"}, {"leads"})

LeadsList == Beside(Part({"leads"}, LeadCard, {"bookingPage"}), NewLeadModal)

AgentCabinet == Part({"bookings", "toursOf50", "commissions", "royalty"}, {},
                     TourCard({}, TRUE) \union {"bookingPage"})

MyBooking == Part({"myBookings", "myBooking"}, {}, {"myWishes"})

MyPreferences ==
    Part({"myBookings", "myBooking", "mySeatMap"},
         Offer({"setPreferences"}, {"myBookings", "myBooking", "mySeatMap"}), {"myPage"})

(***************************************************************************)
(* Figures                                                                 *)
(***************************************************************************)

DirectorDashboard ==
    Part({"financeSummary", "marginAlerts", "salesFunnel", "agentsTop", "debts"}, {},
         {"finance", "info", "bookingPage", "analytics"})

OperationalDashboard ==
    Part({"financeSummary", "opsDashboard", "leadsByStatus"}, {},
         {"tours", "info", "operations", "leadsPage"})

Dashboard(role) == IF role = "director" THEN DirectorDashboard ELSE OperationalDashboard

Finance == Reading({"financeSummary", "debts", "marginAlerts"})

Analytics == Reading({"salesFunnel", "revenueTrend", "toursLoad", "agentsTop"})

\* One link, the same for every role.
NotFoundPage == Part({}, {}, {"dashboard"})

ScreenOf(screen, role) ==
    CASE screen \in Tabs -> Beside(TourPage(role), TabOf(screen, role))
      [] screen = "tours" -> ToursPage(role)
      [] screen = "tourNew" -> TourNewPage
      [] screen = "operations" -> Operations(role)
      [] screen = "staffPage" -> StaffPage
      [] screen = "carriersPage" -> CarriersPage
      [] screen = "bookings" -> BookingsPage(role)
      [] screen = "bookingPage" -> BookingDetail(role)
      [] screen = "bookingNew" -> BookingNew
      [] screen = "leadsPage" -> LeadsList
      [] screen = "agentCabinet" -> AgentCabinet
      [] screen = "myPage" -> MyBooking
      [] screen = "myWishes" -> MyPreferences
      [] screen = "dashboard" -> Dashboard(role)
      [] screen = "finance" -> Finance
      [] screen = "analytics" -> Analytics
      [] screen = "notFound" -> NotFoundPage
      [] OTHER -> Reading({})

\* enabled, and the parts that are rendered only with the data of others.
WaitsFor ==
    [availability |-> {"bookingDetail"}, bookingPapers |-> {"bookingDetail"},
     bookingMail |-> {"bookingDetail"}, hotelMail |-> {"hotels"},
     myBooking |-> {"myBookings"}, mySeatMap |-> {"myBookings"}]

After(query) == IF query \in DOMAIN WaitsFor THEN WaitsFor[query] ELSE {}

Screens == DOMAIN AllowedRoles
=============================================================================
