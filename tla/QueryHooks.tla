----------------------------- MODULE QueryHooks -----------------------------
(***************************************************************************)
(* The React Query hooks of the web client (frontend/src/hooks): for each  *)
(* query its key, its request and what of the server's data it shows; for  *)
(* each mutation the data it changes, the keys it invalidates and those    *)
(* whose data it replaces by the answer.  Ids and filters stand for one    *)
(* tour, one booking and one set of filters.                               *)
(*                                                                         *)
(* What a mutation changes is read off the handler of its request, what a  *)
(* query shows off the rows its handler reads for the answer:              *)
(*   "tours", "bookings", "leads", ...  which of them there are            *)
(*   "tour"       the status and the guide of a tour, "seats" its counters *)
(*   "booking"    the status and the payments of a booking                 *)
(*   "people"     the participants; "rooms", "busSeats", "wishes" their    *)
(*                columns                                                  *)
(*   "structure"  the planned rooms of a hotel booking, "finalRooming" its *)
(*                mark, "hotels" the rest of the row                       *)
(*   "member"     the columns of one of the "staff"                        *)
(* Names of tours, persons and agents, which many answers carry along, are *)
(* changed by no page.                                                     *)
(***************************************************************************)
EXTENDS Sequences, SequencesExt, TLC

\* staleTime 0: the data of a query is stale as soon as it has come.
Query(call, key, shows) ==
    [call |-> call, key |-> key, shows |-> shows, keeps |-> FALSE, polls |-> FALSE]

\* With a staleTime.
Kept(query) == [query EXCEPT !.keeps = TRUE]

\* With a refetchInterval.
Polled(query) == [query EXCEPT !.keeps = TRUE, !.polls = TRUE]

\* invalidateQueries takes the prefix of a key, setQueryData a whole one.
Change(call, writes, invalidates, sets) ==
    [call |-> call, writes |-> writes, invalidates |-> invalidates, sets |-> sets]

Invalidating(call, writes, keys) == Change(call, writes, keys, {})

OfTour(part)    == <<"tours", "id", part>>
OfBooking(part) == <<"bookings", "id", part>>
TourLists       == <<"tours", "list">>
TourDetailKey   == <<"tours", "id">>
BookingLists    == <<"bookings", "list">>
BookingKey      == <<"bookings", "detail", "id">>

(***************************************************************************)
(* Tours                                                                   *)
(***************************************************************************)

TourQueries ==
    [tours      |-> Kept(Query("listTours", TourLists \o <<"all">>, {"tours", "tour", "seats"})),
     toursOf50  |-> Kept(Query("listTours", TourLists \o <<"50">>, {"tours", "tour", "seats"})),
     tourDetail |-> Query("getTour", TourDetailKey, {"tour", "seats"})]

TourCreation ==
    [createTour |-> Invalidating("createTour", {"tours"}, {TourLists}),
     createDeparture |-> Invalidating("createDeparture", {"tours"}, {TourLists})]

TourChanges ==
    [updateTour |-> Change("updateTour", {"tour", "seats"}, {TourLists}, {TourDetailKey}),
     changeTourStatus |-> Change("changeTourStatus", {"tour"}, {TourLists}, {TourDetailKey})]

AvailabilityQueries ==
    [availability |-> Polled(Query("getAvailability", <<"tour-availability", "id">>, {"tour", "seats"}))]

\* invalidateTourAvailability is empty.
AvailabilityKeys == {}

ChecklistQueries == [checklist |-> Query("getChecklist", OfTour("checklist"), {"checklist"})]

ChecklistChanges ==
    [patchChecklist |-> Change("patchChecklist", {"checklist"}, {}, {OfTour("checklist")})]

RoomStructureQueries ==
    [roomStructure |-> Query("getStructure", OfTour("room-structure"), {"structure", "hotels"})]

RoomStructureChanges ==
    [c \in {"setStructure", "approveStructure", "finalizeStructure"} |->
        Invalidating(c, {"structure"}, {OfTour("room-structure")})]

TourTouristQueries ==
    [tourTourists |-> Query("listTourTourists", OfTour("tourists"),
                            {"people", "rooms", "busSeats", "wishes", "bookings", "booking"})]

RoomingChanges ==
    [assignRoom |-> Invalidating("assignRoom", {"rooms"}, {OfTour("tourists")}),
     finalizeRooming |-> Invalidating("finalizeRooming", {"finalRooming"},
                                      {OfTour("hotels"), OfTour("tourists")})]

HotelQueries == [hotels |-> Query("listHotels", OfTour("hotels"), {"hotels", "structure", "finalRooming"})]

HotelChanges ==
    [c \in {"createHotel", "patchHotel"} |-> Invalidating(c, {"hotels"}, {OfTour("hotels")})]

HotelMailHooks ==
    LET key == OfTour("hotels") \o <<"hotel", "communications">>
    IN  [read |-> [hotelMail |-> Query("listHotelMail", key, {"hotelMail"})],
         write |-> [createHotelMail |-> Invalidating("createHotelMail", {"hotelMail"}, {key})]]

TransportQueries == [transport |-> Query("listTransport", OfTour("transport"),
                                      {"transport", "people", "bookings", "booking"})]

TransportChanges ==
    [c \in {"createTransport", "patchTransport"} |->
        Invalidating(c, {"transport"}, {OfTour("transport")})]

ActivityQueries ==
    [activities |-> Query("listActivities", OfTour("activities"), {"activities"})]

ActivityChanges ==
    [c \in {"createActivity", "patchActivity"} |->
        Invalidating(c, {"activities"}, {OfTour("activities")})]

ExtraQueries == [extras |-> Query("listExtras", OfTour("extras"), {"extras"})]

ExtraChanges ==
    [c \in {"createExtra", "patchExtra", "cancelExtra"} |->
        Invalidating(c, {"extras"}, {OfTour("extras")})]

DriverHooks ==
    [read |-> [drivers |-> Query("listDrivers", OfTour("drivers"), {"drivers", "member"})],
     write |-> [c \in {"assignDriver", "unassignDriver"} |->
                   Invalidating(c, {"drivers"}, {OfTour("drivers")})]]

TourPaperHooks ==
    [read |-> [tourPapers |-> Query("listTourPapers", OfTour("documents"), {"tourPapers"})],
     write |-> [generateTourPaper |->
                   Invalidating("generateTourPaper", {"tourPapers"}, {OfTour("documents")})]]

SeatMapHooks ==
    [read |-> [tourSeatMap |-> Query("getTourSeatMap", OfTour("seat-map"), {"busSeats"})],
     write |-> [assignSeat |-> Invalidating("assignSeat", {"busSeats"}, {OfTour("seat-map")})]]

(***************************************************************************)
(* Bookings, leads, tourists                                               *)
(***************************************************************************)

BookingQueries ==
    [bookings      |-> Kept(Query("listBookings", BookingLists \o <<"all">>, {"bookings", "booking"})),
     bookingDetail |-> Kept(Query("getBooking", BookingKey, {"booking"}))]

BookingChanges ==
    [changeBookingStatus |-> Change("changeBookingStatus", {"booking"},
                                    {BookingLists} \union AvailabilityKeys, {BookingKey})]

\* useCancelBooking, which no page uses.
CancelBookingChange ==
    [cancelBooking |-> Change("cancelBooking", {"booking", "seats", "commissions"},
                              {BookingLists} \union AvailabilityKeys, {BookingKey})]

BookingPaperHooks ==
    [read |-> [bookingPapers |-> Query("listBookingPapers", OfBooking("documents"), {"bookingPapers"})],
     write |-> [generateBookingPaper |->
                   Invalidating("generateBookingPaper", {"bookingPapers"}, {OfBooking("documents")})]]

BookingMailHooks ==
    [read |-> [bookingMail |-> Query("listBookingMail", OfBooking("communications"), {"bookingMail"})],
     write |-> [createBookingMail |->
                   Invalidating("createBookingMail", {"bookingMail"}, {OfBooking("communications")})]]

\* BookingNew calls the API itself, and refreshes nothing.
NewBookingChange ==
    [createBooking |-> Invalidating("createBooking", {"bookings", "seats", "people", "commissions"}, {})]

LeadQueries == [leads |-> Kept(Query("listLeads", <<"leads", "kanban">>, {"leads"}))]

LeadChanges ==
    [createLead |-> Invalidating("createLead", {"leads", "tourists"}, {<<"leads">>}),
     updateLead |-> Invalidating("updateLead", {"leads"}, {<<"leads">>}),
     convertLead |-> Invalidating("convertLead",
                                  {"leads", "bookings", "seats", "people", "commissions"},
                                  {<<"leads">>})]

TouristHooks ==
    [read |-> [touristSearch |-> Kept(Query("searchTourists", <<"tourists", "search">>, {"tourists"}))],
     write |-> [createTourist |-> Invalidating("createTourist", {"tourists"}, {<<"tourists">>})]]

MyQueries ==
    [myBookings |-> Kept(Query("listBookings", <<"my", "bookings">>, {"bookings", "booking"})),
     myBooking  |-> Kept(Query("getBooking", <<"my", "bookings", "id">>, {"booking", "people", "rooms", "wishes", "busSeats"})),
     mySeatMap  |-> Query("getSeatMap", <<"my", "bookings", "id", "seat-map">>, {"busSeats"})]

\* The answer of wishes that were not applied refreshes nothing; it is a refusal.
MyChanges ==
    [setPreferences |-> Invalidating("setPreferences", {"wishes", "busSeats"},
        {<<"my", "bookings", "id">>, <<"my", "bookings", "id", "seat-map">>})]

(***************************************************************************)
(* Staff, carriers, agents, figures                                        *)
(***************************************************************************)

StaffHooks ==
    [read |-> [staff |-> Query("listStaff", <<"staff">>, {"staff", "member"})],
     write |-> [createStaff |-> Invalidating("createStaff", {"staff"}, {<<"staff">>})]
               @@ [c \in {"patchStaff", "deactivateStaff"} |->
                      Invalidating(c, {"member"}, {<<"staff">>})]]

CarrierHooks ==
    [read |-> [carriers |-> Query("listCarriers", <<"carriers">>, {"carriers"})],
     write |-> [c \in {"createCarrier", "patchCarrier", "createBus", "patchBus"} |->
                   Invalidating(c, {"carriers"}, {<<"carriers">>})]]

AgentListQueries == [agents |-> Kept(Query("listAgents", <<"agents", "list">>, {"agents"}))]

CommissionQueries ==
    [commissions |-> Kept(Query("listCommissions", <<"agents", "id", "commissions">>, {"commissions"}))]

RoyaltyQueries ==
    [royalty |-> Kept(Query("getRoyalty", <<"agents", "id", "royalty">>, {"commissions"}))]

LeadFigureQueries ==
    [leadsByStatus |-> Kept(Query("listLeads", <<"dashboard", "leads-by-status">>, {"leads"}))]

OpsQueries ==
    [opsDashboard |-> Polled(Query("getOpsDashboard", <<"ops", "dashboard">>,
                                   {"tours", "tour", "seats", "checklist", "hotels",
                                    "bookings", "booking"}))]

FinanceQueries ==
    [financeSummary |-> Kept(Query("getFinanceSummary", <<"finance", "summary">>, {"bookings", "booking"})),
     debts          |-> Kept(Query("listDebts", <<"finance", "debts">>, {"bookings", "booking"})),
     marginAlerts   |-> Kept(Query("listMarginAlerts", <<"finance", "margin-alerts">>, {"tours", "tour"}))]

AnalyticsQueries ==
    [salesFunnel  |-> Kept(Query("getSalesFunnel", <<"analytics", "sales-funnel">>, {"leads", "bookings", "booking"})),
     toursLoad    |-> Kept(Query("getToursLoad", <<"analytics", "tours-load">>, {"tours", "tour", "seats"})),
     revenueTrend |-> Kept(Query("getRevenueTrend", <<"analytics", "revenue-trend">>, {"bookings", "booking"})),
     agentsTop    |-> Kept(Query("getAgentsTop", <<"analytics", "agents-top">>, {"bookings"}))]

(***************************************************************************)
(* All of them                                                             *)
(***************************************************************************)

QueryOf ==
    TourQueries @@ AvailabilityQueries @@ ChecklistQueries @@ RoomStructureQueries
    @@ TourTouristQueries @@ HotelQueries @@ HotelMailHooks.read @@ TransportQueries
    @@ ActivityQueries @@ ExtraQueries @@ DriverHooks.read @@ TourPaperHooks.read
    @@ SeatMapHooks.read @@ BookingQueries @@ BookingPaperHooks.read @@ BookingMailHooks.read
    @@ LeadQueries @@ TouristHooks.read @@ MyQueries @@ StaffHooks.read @@ CarrierHooks.read
    @@ AgentListQueries @@ CommissionQueries @@ RoyaltyQueries @@ LeadFigureQueries
    @@ OpsQueries @@ FinanceQueries @@ AnalyticsQueries

ChangeOf ==
    TourCreation @@ TourChanges @@ ChecklistChanges @@ RoomStructureChanges @@ RoomingChanges
    @@ HotelChanges @@ HotelMailHooks.write @@ TransportChanges @@ ActivityChanges
    @@ ExtraChanges @@ DriverHooks.write @@ TourPaperHooks.write @@ SeatMapHooks.write
    @@ BookingChanges @@ CancelBookingChange @@ BookingPaperHooks.write
    @@ BookingMailHooks.write @@ NewBookingChange @@ LeadChanges @@ TouristHooks.write
    @@ MyChanges @@ StaffHooks.write @@ CarrierHooks.write

Queries == DOMAIN QueryOf
Changes == DOMAIN ChangeOf

InvalidatedBy ==
    [c \in Changes |->
        {q \in Queries : \E key \in ChangeOf[c].invalidates : IsPrefix(key, QueryOf[q].key)}]

SetBy == [c \in Changes |-> {q \in Queries : QueryOf[q].key \in ChangeOf[c].sets}]

RefreshedBy == [c \in Changes |-> InvalidatedBy[c] \union SetBy[c]]

AffectedBy ==
    [c \in Changes |-> {q \in Queries : QueryOf[q].shows \intersect ChangeOf[c].writes # {}}]
=============================================================================
