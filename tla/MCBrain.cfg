CONSTANTS
    MAX_ATTEMPTS = 2
    Turns = {t1, t2}
    Ends = {e1, e2}
    Gets = {g1}
    MaxTurns = 12
    MaxMissed = 1
SYMMETRY RequestSymmetry
SPECIFICATION Spec
INVARIANTS
    EndedIsTerminal
    SnapshotIsConsistent
    QuietTextIsCurrent
    FilesTellOutcome
PROPERTIES
    TerminalIsFinal
    KeepsPromise
