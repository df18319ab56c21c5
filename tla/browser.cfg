SPECIFICATION BrowserSpec
CONSTANTS
    j1 = j1
    t1 = t1
    Tabs = {t1, t2}
    Jars = {j1, j2}
    Rows = 3
    Logins = 2
    NoToken = NoToken
    Modes <- MCModes
    PageNames <- AllPages
    Entities = {"e1", "e2"}
    Slots = {1, 2}
    MaxWrites = 1
    PatientModes = {TRUE, FALSE}
CHECK_DEADLOCK FALSE
INVARIANTS SessionInv PageInv PageIsTrue
PROPERTIES SessionsEnd
