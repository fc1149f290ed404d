SPECIFICATION Spec
CONSTANTS
  Turns = {t1, t2}
  Warmup = warmup
  MaxRestarts = 1
SYMMETRY TurnSymmetry
INVARIANT HalfLoadedIsTransient
CHECK_DEADLOCK FALSE
