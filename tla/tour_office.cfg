CONSTANTS
    Tours = {t1}
    Planners = {p1}
    Capacities = {2}
    Resizes = {3}
    TourTargets = {"open", "active", "closed", "on_tour"}
    Archivable = {}
    Officers = {o1,o2}
    o1 = o1
    o2 = o2
    OfficerRoles <- TwoRoles
    PlannerRole <- NoDirector
    HotelBookings = {h1,h2}
    Structures <- SmallStructures
    CHECKLIST_ITEMS = {i1,i2,i3}
    Drivers = {d1,d2,d3,d4}
    Extras = {x1}
    COST_FIELDS = {guideCost, parkingCost}
    Costs = {0,1,2}
    Transports = {c1}
    Distances = {0,1,2}
    Papers = {f1,f2}
    Departure = t1
    a1 = a1
    a2 = a2
    b1 = b1
    ann = ann
    bob = bob
    party1 = party1
    party2 = party2
    Participants = {a1,a2,b1}
    Tourists = {ann,bob}
    TouristOf <- ThreeRows
    Parties = {party1,party2}
    PartyOf <- TwoParties
    SeatNumbers = {1,2}
    Clerks = {k1,k2}
    PartyMoves = {"confirmed", "underway", "cancelled"}
    TouristThreshold = 2
    Scanners = {w1,w2}
    MaxLosses = 1
    Loads <- ManyLoads
SPECIFICATION Spec
INVARIANTS
    TourOfficeTypeOK
    BedsWithinSeats
    DriversWithinLimit
    ExtrasAddUp
    ListedPaperHasFile
    ClosedRoomingIsComplete
    AlertedOnce
    MarkedIsTold
PROPERTIES
    ApprovedStructureStands
    OpensWithStructure
    DepartsReady
    ImplementsSeatPlan
CHECK_DEADLOCK FALSE
