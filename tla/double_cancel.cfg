CONSTANTS
    Tours = {t1}
    Planners = {p1}
    Capacities = {1}
    Resizes = {}
    TourTargets = {"open"}
    Archivable = {}
    BookingIds = {b1,b2}
    Desks = {d1,d2}
    d1 = d1
    d2 = d2
    Role <- ManagerRoles
    Agency <- NoAgency
    Agents = {}
    NoAgent = NoAgent
    a1 = a1
    Offers <- OnePerson
    StatusTargets = {"in_work"}
    DeskTypes = {"deposit", "balance"}
    Amounts = {}
    CancelTypes = {"operator"}
    Policies = {NoPolicy}
    NoPolicy = NoPolicy
    DaysAhead = {5}
    Charges = {c1}
    ChargeAmounts = {}
    Hooks = {}
    Contention = {"booking"}
    MaxPaid = 4
    MaxFree = 4
SPECIFICATION Spec
INVARIANTS
    AvailableWithinTotal
CHECK_DEADLOCK FALSE
