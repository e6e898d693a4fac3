SPECIFICATION FairSpec
CONSTANTS
    Chunks = 5
    Window = 1
    Exchanges <- Demanding
PROPERTY AnyServiceAnswers
CHECK_DEADLOCK FALSE
