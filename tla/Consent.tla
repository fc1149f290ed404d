------------------------------ MODULE Consent ------------------------------
(****************************************************************************)
(* What a consent verification promises, whatever the phrases, the retries  *)
(* and the processes that carry it: the points of the script are confirmed  *)
(* one by one and in order, the call reaches one verdict, and a verdict of  *)
(* completion is reached only when nothing on the script is left open.      *)
(*                                                                          *)
(* The verification flow of the brain is shown to implement this module:    *)
(* see Promise in ConsentFlow.tla.                                          *)
(****************************************************************************)
EXTENDS Integers, Sequences

CONSTANT Script         \* every point that a call may have to confirm, in order

VARIABLES required,     \* the points on the script of this call
          confirmed,    \* those the customer has confirmed so far
          verdict       \* "open" until the call is decided

vars == <<required, confirmed, verdict>>

Points == {Script[i] : i \in 1..Len(Script)}

Verdicts == {"open", "verified", "completed", "refused", "abandoned"}

TypeOK == /\ required \subseteq Points
          /\ confirmed \subseteq required
          /\ verdict \in Verdicts

Init == /\ required \in SUBSET Points
        /\ confirmed = {}
        /\ verdict = "open"

(* The next open point, all the earlier ones being settled, is confirmed.   *)
Confirm(i) == /\ verdict = "open"
              /\ Script[i] \in required \ confirmed
              /\ \A j \in 1..(i - 1) : Script[j] \in required => Script[j] \in confirmed
              /\ confirmed' = confirmed \cup {Script[i]}
              /\ UNCHANGED <<required, verdict>>

(* The call is carried to its end.  It is verified when the customer also   *)
(* agrees to close it, completed without that mark otherwise.               *)
Complete == /\ verdict = "open"
            /\ confirmed = required
            /\ verdict' \in {"verified", "completed"}
            /\ UNCHANGED <<required, confirmed>>

(* The customer could not or would not confirm a point, or the call was     *)
(* ended before its verdict.                                                *)
Fail == /\ verdict = "open"
        /\ verdict' \in {"refused", "abandoned"}
        /\ UNCHANGED <<required, confirmed>>

Next == \/ \E i \in 1..Len(Script) : Confirm(i)
        \/ Complete
        \/ Fail

Spec == Init /\ [][Next]_vars
=============================================================================
