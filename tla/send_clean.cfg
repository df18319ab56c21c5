SPECIFICATION FairSpec
CONSTANTS
    Sends = {s1, s2}
    Adjustments = {a1, a2}
    Amounts = {1}
    Blockers = {"disconnected", "planExpired"}
    DbFails = FALSE
    Crashes = FALSE
INVARIANTS DeliveredIsPaid FailedSendIsFree
PROPERTIES ImplementsAccount PendingResolves HoldsEnd
