CONSTANTS
    Tours = {t1}
    Planners = {p1}
    Capacities = {2}
    Resizes = {1}
    TourTargets = {"open"}
    Archivable = {}
    BookingIds = {b1,b2}
    Desks = {d1,d2}
    d1 = d1
    d2 = d2
    Role <- ManagerRoles
    Agency <- NoAgency
    Agents = {}
    NoAgent = NoAgent
    a1 = a1
    Offers <- OnePerson
    StatusTargets = {"cancelled_operator"}
    DeskTypes = {"deposit","balance"}
    Amounts = {3}
    CancelTypes = {"operator"}
    Policies = {NoPolicy}
    NoPolicy = NoPolicy
    DaysAhead = {5}
    Charges = {c1}
    ChargeAmounts = {}
    Hooks = {}
    Contention = {"booking","tour"}
    MaxPaid = 3
    MaxFree = 3
SPECIFICATION Spec
INVARIANTS
    NoSeatLost
    SeatsNeverNegative
    FullyPaidMeansPaid
SYMMETRY InFlightSymmetry
CHECK_DEADLOCK FALSE
