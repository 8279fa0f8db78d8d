----------------------------- MODULE ApiRoutes -----------------------------
(***************************************************************************)
(* Who may make which request: for every *.routes.ts file of the server    *)
(* the roles its requireRoles lets through, by the name of the request.    *)
(* What a handler refuses after that is not here.                          *)
(***************************************************************************)
EXTENDS TLC

Roles == {"admin", "director", "manager", "ops", "accountant", "agent",
          "tourist", "product_manager", "logist"}

\* requireAuth alone.
SignedIn == Roles

Readers  == {"ops", "manager", "admin", "director"}
Editors  == {"ops", "admin"}
Planners == {"admin", "ops", "product_manager"}
Sellers  == {"admin", "manager", "agent"}

TourReadRoutes ==
    [listTours |-> SignedIn, getTour |-> SignedIn, getAvailability |-> SignedIn]

TourWriteRoutes ==
    [createTour |-> Planners, createDeparture |-> Planners, updateTour |-> Planners,
     changeTourStatus |-> Planners \union {"director"},
     archiveTour |-> {"admin", "product_manager"}]

RoomStructureRoutes ==
    [getStructure |-> Readers \union {"logist"},
     setStructure |-> Editors \union {"logist"},
     approveStructure |-> {"admin", "director"},
     finalizeStructure |-> Editors \union {"logist"}]

ChecklistRoutes ==
    [getChecklist |-> Readers \union {"product_manager"}, patchChecklist |-> Editors]

ActivitiesRoutes ==
    [listActivities |-> Readers, createActivity |-> Editors, patchActivity |-> Editors]

TouristsOfTourRoutes == [listTourTourists |-> Readers]

TourSeatMapRoutes ==
    [getTourSeatMap |-> Readers \union {"tourist"}, assignSeat |-> Editors]

TransportRoutes ==
    [listTransport |-> Readers \union {"logist"},
     createTransport |-> Editors \union {"logist"},
     patchTransport |-> Editors \union {"logist"}]

HotelBookingsRoutes ==
    [listHotels |-> Readers \union {"logist"},
     createHotel |-> Editors \union {"logist"},
     patchHotel |-> Editors \union {"logist"},
     listHotelMail |-> {"admin", "logist"},
     createHotelMail |-> {"admin", "logist"}]

RoomingRoutes ==
    [assignRoom |-> Editors \union {"logist"}, finalizeRooming |-> Editors \union {"logist"}]

DocumentsRoutes ==
    [listTourPapers |-> Readers, generateTourPaper |-> Editors]

TourDriversRoutes ==
    LET access == {"admin", "product_manager"}
    IN  [listDrivers |-> access, assignDriver |-> access, unassignDriver |-> access]

TourExtrasRoutes ==
    LET writers == {"admin", "product_manager"}
    IN  [listExtras |-> Readers \union writers,
         createExtra |-> writers, patchExtra |-> writers, cancelExtra |-> writers]

OpsDashboardRoutes == [getOpsDashboard |-> Readers \union {"logist"}]

BookingRoutes ==
    [listBookings |-> SignedIn, getBooking |-> SignedIn, createBooking |-> Sellers,
     changeBookingStatus |-> Sellers \union {"ops"},
     addPayment |-> {"admin", "manager", "accountant"}]

BookingTailRoutes ==
    LET insurers == {"admin", "manager", "ops"}
    IN  [listInsurance |-> insurers, createInsurance |-> insurers,
         patchInsurance |-> insurers, cancelBooking |-> Sellers]

SeatMapRoutes ==
    LET access == {"tourist", "manager", "ops", "admin"}
    IN  [getSeatMap |-> access, setPreferences |-> access]

BookingDocumentsRoutes ==
    [listBookingPapers |-> Sellers \union {"director"}, generateBookingPaper |-> Sellers]

BookingCommunicationsRoutes ==
    [listBookingMail |-> Readers \union {"agent"}, createBookingMail |-> Sellers]

FinanceRoutes ==
    LET all == {"admin", "director", "manager", "accountant"}
    IN  [getFinanceSummary |-> all, listDebts |-> all]

TourFinanceRoutes ==
    [getTourSummary |-> {"admin", "director", "manager", "product_manager"},
     getTourPnl |-> {"admin", "director", "accountant", "product_manager"},
     listMarginAlerts |-> {"admin", "director", "accountant"}]

LeadRoutes ==
    [listLeads |-> Sellers \union {"director"}, createLead |-> Sellers \union {"director"},
     updateLead |-> Sellers, convertLead |-> Sellers]

AgentRoutes ==
    LET staff == {"admin", "director", "manager"}
    IN  [listAgents |-> staff, getAgent |-> staff,
         listCommissions |-> {"admin", "director", "accountant", "agent"},
         getRoyalty |-> {"admin", "director", "agent"}]

TouristRoutes ==
    [searchTourists |-> Readers \union {"agent"}, createTourist |-> Sellers]

HotelRoutes ==
    LET access == {"admin", "ops", "manager", "logist"}
    IN  [listCatalogueHotels |-> access, getCatalogueHotel |-> access]

AnalyticsRoutes ==
    LET access == {"admin", "director", "manager"}
    IN  [getSalesFunnel |-> access, getToursLoad |-> access,
         getAgentsTop |-> access, getRevenueTrend |-> access]

StaffRoutes ==
    LET writers == {"admin", "product_manager"}
    IN  [listStaff |-> Planners, getStaff |-> Planners,
         createStaff |-> writers, patchStaff |-> writers, deactivateStaff |-> writers]

CarriersRoutes ==
    LET access == {"admin", "logist"}
    IN  [listCarriers |-> access, getCarrier |-> access,
         createCarrier |-> access, patchCarrier |-> access]

BusesRoutes ==
    LET access == {"admin", "logist"}
    IN  [listBuses |-> access, createBus |-> access, patchBus |-> access]

\* What app.ts registers under /api/v1, the routes of a session aside.
Api ==
    TourReadRoutes @@ TourWriteRoutes @@ RoomStructureRoutes @@ ChecklistRoutes
    @@ ActivitiesRoutes @@ TouristsOfTourRoutes @@ TourSeatMapRoutes @@ TransportRoutes
    @@ HotelBookingsRoutes @@ RoomingRoutes @@ DocumentsRoutes @@ OpsDashboardRoutes
    @@ BookingRoutes @@ BookingTailRoutes @@ SeatMapRoutes @@ BookingDocumentsRoutes
    @@ BookingCommunicationsRoutes @@ FinanceRoutes @@ TourFinanceRoutes @@ LeadRoutes
    @@ AgentRoutes @@ TouristRoutes @@ HotelRoutes @@ AnalyticsRoutes @@ StaffRoutes
    @@ TourDriversRoutes @@ TourExtrasRoutes @@ CarriersRoutes @@ BusesRoutes

\* requireRoles.
Permits(call, role) == role \in Api[call]
=============================================================================
