SPECIFICATION Spec
CONSTANTS
    Campaigns = {c1}
    Contacts = {x1}
    Requests = {q1}
    Workers = {w1, w2}
    NoCampaign = NoCampaign
    BatchSize = 1
    MinGap = 0
    MaxGap = 0
    Ops = {"create", "add", "launch"}
    OptOuts = {}
    Flaky = FALSE
    DbFails = FALSE
    Crashes = FALSE
    SetupAlone = FALSE
INVARIANT SentOnce
CHECK_DEADLOCK FALSE
