SPECIFICATION FairSpec
CONSTANTS
  Turns = {t1, t2}
  Warmup = warmup
  MaxRestarts = 1
INVARIANTS
  IntentTypeOK
  YesAndNoAreVoted
  WarmTurnsAreVoted
PROPERTY EveryTurnAnswered
CHECK_DEADLOCK FALSE
