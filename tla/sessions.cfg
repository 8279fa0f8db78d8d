CONSTANTS
    t1 = t1
    t2 = t2
    t3 = t3
    b1 = b1
    b2 = b2
    Tabs = {t1,t2,t3}
    Browsers = {b1,b2}
    BrowserOf <- TwoBrowsers
    Calls <- TabCalls
    AccessLife = 1
    BlacklistLife = 1
    MaxSecond = 3
    Requests = {r1,r2}
    First = r1
    Loads <- ManyLoads
SPECIFICATION Spec
INVARIANTS
    WebSessionTypeOK
    SessionsEnd
    OneTabKeepsSession
PROPERTIES
    RequestsAnswered
CHECK_DEADLOCK FALSE
