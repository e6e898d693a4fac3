SPECIFICATION FairSpec
CONSTANTS
    Chunks = 3
    Window = 2
    Exchanges <- All
INVARIANTS
    NoCircularWait
PROPERTIES
    ImplementsHttp
    EveryStepIsProgress
    EveryExchangeEnds
    ServerIsFreed
CHECK_DEADLOCK FALSE
