SPECIFICATION LocalSpec
CONSTANTS
    Requests = {r1, r2, r3}
    Peers = {p1}
    None = None
    IdleLimit = 1
PROPERTY
    AckWaitIsBounded
CHECK_DEADLOCK FALSE
