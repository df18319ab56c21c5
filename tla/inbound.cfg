SPECIFICATION MCSpec
CONSTANTS
    m1 = m1
    m2 = m2
    p1 = p1
    p2 = p2
    In = {m1, m2}
    Out = {m2}
    Phones = {p1, p2}
    From <- MCFrom
    Media = {m1}
    u1 = u1
    u2 = u2
    Automations = {u1, u2}
    Matching <- MCMatching
    Modes <- MCModes
    NoMessage = NoMessage
    Handlers = {h1, h2}
    MaxDeliveries <- MCDeliveries
    MaxReports = 1
CHECK_DEADLOCK FALSE
INVARIANTS InboxInv NotCountedTwice StatusIsWitnessed
PROPERTIES NothingGoesBack MessageLands
