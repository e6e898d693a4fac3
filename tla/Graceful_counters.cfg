SPECIFICATION Spec
CONSTANTS
    Kinds = {"kulfi"}
    Conns = {c1, c2}
    Peers = {p1}
    Streams = 1
    MaxTicks = 10
    MaxRequests = 2
INVARIANTS
    NeverMoreRequestsThanConnections
CHECK_DEADLOCK FALSE
