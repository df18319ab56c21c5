SPECIFICATION Spec
CONSTANTS
    Campaigns = {c1}
    Contacts = {x1, x2}
    Requests = {q1, q2}
    Workers = {w1, w2}
    NoCampaign = NoCampaign
    BatchSize = 1
    MinGap = 1
    MaxGap = 1
    Ops = {"create", "add", "update", "launch", "due", "pause", "resume", "cancel", "remove"}
    OptOuts = {x1}
    Flaky = TRUE
    DbFails = FALSE
    Crashes = FALSE
    SetupAlone = TRUE
INVARIANTS OverMeansOver ReportIsTruthful
CHECK_DEADLOCK FALSE
