SPECIFICATION FairSpec
CONSTANTS
    Campaigns = {c1}
    Contacts = {x1, x2}
    Requests = {q1}
    Workers = {w1, w2}
    NoCampaign = NoCampaign
    BatchSize = 1
    MinGap = 0
    MaxGap = 1
    Ops = {"create", "add", "launch", "due", "cancel"}
    OptOuts = {}
    Flaky = FALSE
    DbFails = FALSE
    Crashes = FALSE
    SetupAlone = FALSE
INVARIANTS
    TypeOK
    BatchCap
PROPERTIES RunsToItsEnd ScheduledStarts
CHECK_DEADLOCK FALSE
