CONSTANTS
    MaxTurns = 2
    MaxChunks = 1
    InboxSize = 1
CHECK_DEADLOCK FALSE
SPECIFICATION FairSpec
INVARIANTS
    TurnTypeOK
    MicDeafToAgent
    StartTurnExpected
    OwnTranscript
PROPERTIES
    PageNeverHangs
    LoopUnwinds
    TakesTurns
