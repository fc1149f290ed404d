--------------------------- MODULE MCConsentFlow ---------------------------
(* The whole script, with two attempts a question instead of three: the     *)
(* misses of a question are never forgotten, so each further attempt        *)
(* multiplies the states by the number of questions it may be spent on.     *)
EXTENDS ConsentFlow
=============================================================================
