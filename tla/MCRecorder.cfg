SPECIFICATION FairSpec
CONSTANTS
  Calls = {1}
  MaxFrames = 3
  MaxGap = 1
  SendBuffer = 2
  VideoBuffer = 1
  MaxCrashes = 1
  MaxFaults = 1
  ShortWrites = FALSE
INVARIANTS CallAligned CrashSafeVideo AckedIsCombined
PROPERTY CloseReturns
CHECK_DEADLOCK FALSE
