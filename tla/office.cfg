SPECIFICATION OfficeSpec
CONSTANTS
    a1 = a1
    Users = {a1, v1, v2}
    UserRequests = {r1, r2}
    NoUser = NoUser
    UserModes = {TRUE, FALSE}
    PlanRequests = {r1, r2}
    Plans = {v1, v2}
    NoPlan = NoPlan
    PlanTerms <- MCPlanTerms
    ModuleKeys = {k1}
    MaxAccounts = 2
    MaxToday = 1
    PlanModes = {TRUE, FALSE}
    Contacts = {v1, v2}
    NoContact = NoContact
    Phones = {n1, n2}
    BookRequests = {r1, r2}
    MaxRows = 2
    BookModes = {TRUE, FALSE}
SYMMETRY OfficeSymmetry
CHECK_DEADLOCK FALSE
INVARIANTS OneAdmin PlanInv BookInv
PROPERTIES LastAdminSurvivesDeletes PlanNotPulled OptOutSticks
