--------------------------- MODULE MCBrainSession ---------------------------
EXTENDS BrainSession, TLC

RequestSymmetry == Permutations(Turns) \cup Permutations(Ends)
=============================================================================
