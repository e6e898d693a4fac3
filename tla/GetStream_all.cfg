SPECIFICATION FairSpec
CONSTANTS
    Requests = {r1, r2}
    Peers = {p1, p2}
    None = None
    IdleLimit = 4
INVARIANTS
    RegisteredManagerIsTheRunningOne
    UnansweredRequestIsHeld
    ErrorOnlyFromClosedManager
PROPERTIES
    ImplementsService
    IdleManagerLeaves
\* managers that shut down, and calls that have returned, stop
CHECK_DEADLOCK FALSE
