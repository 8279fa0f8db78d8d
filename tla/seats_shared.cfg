CONSTANTS
    Tours = {t1,t2}
    Planners = {p1}
    Capacities = {2}
    Resizes = {1}
    TourTargets = {"open"}
    Archivable = {t2}
    BookingIds = {b1,b2}
    Desks = {d1,d2}
    d1 = d1
    d2 = d2
    Role <- ManagerRoles
    Agency <- NoAgency
    Agents = {}
    NoAgent = NoAgent
    a1 = a1
    Offers <- SmallGroups
    StatusTargets = {"in_work","cancelled_operator"}
    DeskTypes = {"deposit", "balance"}
    Amounts = {}
    CancelTypes = {"operator"}
    Policies = {NoPolicy}
    NoPolicy = NoPolicy
    DaysAhead = {5}
    Charges = {c1}
    ChargeAmounts = {3}
    Hooks = {h1}
    Contention = {}
    MaxPaid = 4
    MaxFree = 4
SPECIFICATION Spec
INVARIANTS
    SeatConservation
    NoOverbooking
    BooksMatchGateway
PROPERTIES
    ImplementsSeatLedger
SYMMETRY InFlightSymmetry
CHECK_DEADLOCK FALSE
