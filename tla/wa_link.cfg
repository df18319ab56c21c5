SPECIFICATION Spec
CONSTANTS
    Calls = {c1, c2}
    Sockets = {k1, k2}
    Boot = Boot
    NoSocket = NoSocket
    Modes <- MCModes
    MaxWrites = 3
    MaxRestarts = 2
CHECK_DEADLOCK FALSE
INVARIANTS SocketInv RemovedIsGone AccountInv
PROPERTIES NoSendAfterRemoval ConnectionsComeBack
