SPECIFICATION FairSpec
CONSTANTS
    Kinds = {"http-bridge", "http-proxy", "tcp-bridge", "http", "tcp",
             "http-proxy-remote", "folder", "kulfi"}
    Conns = {c1, c2, c3}
    Peers = {p1}
    Streams = 2
    MaxTicks = 10
    MaxRequests = 2
INVARIANTS
    CleanExitCutsNothing
    ForcedOnlyForWork
PROPERTIES
    ShutdownEnds
    InfoIsShown
\* the process ends
CHECK_DEADLOCK FALSE
