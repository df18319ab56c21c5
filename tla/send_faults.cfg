SPECIFICATION Spec
CONSTANTS
    Sends = {s1, s2}
    Adjustments = {a1, a2}
    Amounts = {1, 2}
    Blockers = {"optedOut"}
    DbFails = TRUE
    Crashes = TRUE
SYMMETRY Symmetry
INVARIANTS TypeOK BooksBalance NeverOverdrawn SentIsCharged
