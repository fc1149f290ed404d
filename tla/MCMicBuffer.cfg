CONSTANTS
    Capacity = 2
    MaxFrames = 5
    EndSpeechOnce = TRUE
CHECK_DEADLOCK FALSE
SPECIFICATION FairSpec
INVARIANTS
    MicTypeOK
    NoPanic
    QueueIsRecent
    FramesAccounted
    FlushIsComplete
PROPERTIES
    ListenReturns
