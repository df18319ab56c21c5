SPECIFICATION Spec
CONSTANTS
    one = one
    two = two
    Campaigns = {one, two}
    Contacts = {x1, x2}
    Requests = {q1, q2}
    Workers = {w1, w2}
    NoCampaign = NoCampaign
    BatchSize = 1
    MinGap = 0
    MaxGap = 0
    Ops = {"create", "add", "launch", "pause", "resume", "stop", "relaunch"}
    OptOuts = {}
    Flaky = FALSE
    DbFails = FALSE
    Crashes = FALSE
    SetupAlone = TRUE
ACTION_CONSTRAINT OneOrTwo
SYMMETRY Symmetry
PROPERTY CompletedIsFrozen
CHECK_DEADLOCK FALSE
