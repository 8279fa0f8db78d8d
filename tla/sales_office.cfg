CONSTANTS
    Tours = {t1,t2}
    Planners = {p1}
    Capacities = {2}
    Resizes = {}
    TourTargets = {}
    Archivable = {}
    BookingIds = {b1,b2}
    Desks = {d1,d2}
    Role <- Managers
    Agency <- NoAgency
    Agents = {a1}
    NoAgent = NoAgent
    Offers <- OneOffer
    StatusTargets = {"in_work","awaiting_payment","confirmed","cancelled_operator"}
    DeskTypes = {}
    Amounts = {}
    CancelTypes = {"operator"}
    Policies = {NoPolicy}
    NoPolicy = NoPolicy
    DaysAhead = {5}
    LeadIds = {l1,l2}
    anna = anna
    borys = borys
    vira = vira
    hanna = hanna
    People = {anna,borys,vira,hanna}
    Identity <- Identities
    e1 = e1
    l1 = l1
    t1 = t1
    b1 = b1
    e2 = e2
    Emails = {e1,e2}
    NoEmail = NoEmail
    MaxProfiles = 3
    LeadTargets = {"lost"}
    NoLead = NoLead
    NoBooking = NoBooking
    NoPerson = NoPerson
    Base = 3
    Pad = 2
    EarlierNumbers = {1,2}
    Triggers = {g1,g2}
    DaysLeft = {0,5}
    Loads <- ManyLoads
SPECIFICATION Spec
INVARIANTS
    SalesTypeOK
    LeadHasItsBooking
    SeatsOfSales
    NextNumberIsFree
    
    CancelledHasNoReminders
SYMMETRY RequestSymmetry
CHECK_DEADLOCK FALSE
