SPECIFICATION Spec
CONSTANTS
    Campaigns = {c1}
    Contacts = {x1, x2, x3}
    Requests = {q1}
    Workers = {w1, w2, w3}
    NoCampaign = NoCampaign
    BatchSize = 2
    MinGap = 0
    MaxGap = 1
    Ops = {"create", "add", "launch", "due", "pause", "resume", "cancel"}
    OptOuts = {}
    Flaky = FALSE
    DbFails = TRUE
    Crashes = TRUE
    SetupAlone = TRUE
SYMMETRY Symmetry
INVARIANTS SentOnce SendsCap
CHECK_DEADLOCK FALSE
