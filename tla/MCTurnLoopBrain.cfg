CONSTANTS
    MaxTurns = 2
    MaxChunks = 1
    InboxSize = 1
CHECK_DEADLOCK FALSE
SPECIFICATION Spec
PROPERTIES
    CallContinues
