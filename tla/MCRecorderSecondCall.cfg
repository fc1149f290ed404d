SPECIFICATION Spec
CONSTANTS
  Calls = {1, 2}
  MaxFrames = 2
  MaxGap = 1
  SendBuffer = 2
  VideoBuffer = 1
  MaxCrashes = 0
  MaxFaults = 0
  ShortWrites = FALSE
PROPERTY FilesOnlyGrow
CHECK_DEADLOCK FALSE
