-------------------------- MODULE MCIntentService --------------------------
EXTENDS IntentService, TLC

TurnSymmetry == Permutations(Turns)
=============================================================================
