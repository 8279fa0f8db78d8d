CONSTANTS
    Tours = {t1}
    Planners = {p1}
    Capacities = {1}
    Resizes = {}
    TourTargets = {"open"}
    Archivable = {}
    BookingIds = {b1}
    Desks = {d1}
    d1 = d1
    d2 = d2
    Role <- ManagerRoles
    Agency <- NoAgency
    Agents = {}
    NoAgent = NoAgent
    a1 = a1
    Offers <- OnePerson
    StatusTargets = {"in_work"}
    DeskTypes = {"deposit", "balance"}
    Amounts = {}
    CancelTypes = {}
    Policies = {NoPolicy}
    NoPolicy = NoPolicy
    DaysAhead = {5}
    Charges = {c1,c2}
    ChargeAmounts = {1}
    Hooks = {h1,h2}
    Contention = {"booking"}
    MaxPaid = 4
    MaxFree = 4
SPECIFICATION Spec
INVARIANTS
    BooksMatchGateway
CHECK_DEADLOCK FALSE
