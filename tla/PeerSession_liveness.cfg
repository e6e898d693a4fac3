SPECIFICATION FairSpec
CONSTANTS
    Requests = {r1, r2}
    Peers = {p1}
    None = None
    IdleLimit = 0
    Ping = Ping
    Protocols = {Http}
    Exposed = Http
    Serial = {p1}
PROPERTIES
    PeerSettlesEveryWait
    EveryCallReturns
    AcceptorEnds
CHECK_DEADLOCK FALSE
