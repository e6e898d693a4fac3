SPECIFICATION FairSpec
CONSTANTS
    Users = {u1, u2}
    Explorer = u1
    Pools = {q1, q2}
    Conns = {c1, c2}
    MaxSize = 1
    None = None
    Half = 4
    Lengths = {0, 1, 3}
    Offsets = {0, 1, 2, 3, 7}
    Replies <- FolderReplies
INVARIANTS
    AnswerIsForItsRequest
    ConnectionsAreAccountedFor
    TunnelsShareOnePool
    WantedBytesAreOffered
PROPERTIES
    CompleteIsExact
    EveryRequestEnds
    OrphansGo
