SPECIFICATION FairSpec
CONSTANT
    Chunks = 2
INVARIANTS
    OpenHalfIsNotCut
    NoCopyIsStuck
PROPERTIES
    ImplementsDuplex
    EveryStepIsProgress
    DataArrives
    PipesEnd
CHECK_DEADLOCK FALSE
