CONSTANTS
    Tours = {t1,t2}
    Planners = {p1}
    Capacities = {1}
    Resizes = {}
    TourTargets = {"open"}
    Archivable = {}
    BookingIds = {b1}
    Desks = {d1,d2}
    d1 = d1
    d2 = d2
    Role <- AgentAtSecond
    Agency <- AgencyAtSecond
    Agents = {a1}
    NoAgent = NoAgent
    a1 = a1
    Offers <- Costlier
    StatusTargets = {"in_work","awaiting_payment","pre_booked","cancelled_client","docs_collected","ready_to_depart","on_trip","completed","no_show","refund"}
    DeskTypes = {"deposit", "balance"}
    Amounts = {1,2,3}
    CancelTypes = {"client","operator"}
    Policies <- SomePolicies
    NoPolicy = NoPolicy
    DaysAhead = {1,5,12}
    Charges = {c1}
    ChargeAmounts = {}
    Hooks = {}
    Contention = {}
    MaxPaid = 4
    MaxFree = 4
SPECIFICATION Spec
INVARIANTS
    TypeOK
    RefundsBacked
PROPERTIES
    CancelledStaysCancelled
    TerminalIsFinal
CHECK_DEADLOCK FALSE
