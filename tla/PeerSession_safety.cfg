SPECIFICATION Spec
CONSTANTS
    Requests = {r1, r2}
    Peers = {p1, p2}
    None = None
    IdleLimit = 1
    Ping = Ping
    Protocols = {Http, Other}
    Exposed = Http
    Serial = {p1}
SYMMETRY Symmetry
INVARIANTS
    GrantedStreamWasAccepted
    OnlyTheNetworkCutsStreams
    SerialAcceptorServesOne
    NoWaitIsForgotten
    StreamsHaveAnOwner
CHECK_DEADLOCK FALSE
