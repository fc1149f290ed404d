--------------------------- MODULE IntentService ---------------------------
(* The intent service and the brain's client of it.  A turn is one POST      *)
(* /classify: the client waits for it up to its timeout, the service runs it *)
(* on a thread of its own (asyncio.to_thread), and all threads share one     *)
(* EnsembleIntentClassifier, whose models are loaded by whoever comes first. *)
(* The process may be killed and started again; what survives is the         *)
(* directory the encoder was saved to.                                       *)
EXTENDS Naturals, FiniteSets

CONSTANTS Turns,        \* the turns whose transcript is classified
          Warmup,       \* the thread that warms the models at startup
          MaxRestarts   \* how often the service is killed

ASSUME WarmupAssumption == Warmup \notin Turns
ASSUME RestartsAssumption == MaxRestarts \in Nat

Voters == {"logistic", "svm", "mlp"}
Models == Voters \cup {"encoder"}
Labels == 0 .. 3
Intents == {"yes", "no", "please_repeat"}
LABEL_TO_INTENT == [l \in Labels |-> CASE l = 1 -> "no" [] l = 2 -> "yes" [] OTHER -> "please_repeat"]

Workers == Turns \cup {Warmup}
Loading == {"locate", "cached", "download", "save", "saving", "logistic", "svm", "mlp"}
Finished == {"voted", "failed"}
NoBallot == [v \in Voters |-> 0]

VARIABLES
  remote,    \* settings.intent_service_url is set
  loaded,    \* the models the classifier of the process holds
  disk,      \* ENCODER_DIR: "absent", "partial" while it is written, "whole"
  thread,    \* where each thread is in _classify_ensemble or warmup
  ballot,    \* the labels the three voters gave the turn
  ready,     \* history: the turns that were asked when every model was loaded
  answer,    \* what the brain has for each turn: "none", "waiting" or an intent
  restarts

vars == <<remote, loaded, disk, thread, ballot, ready, answer, restarts>>

(* Two equal votes win; three different ones leave it to the SVM. *)
WinnerFirst(b) == IF b["svm"] = b["mlp"] THEN b["svm"] ELSE b["logistic"]  \* Faulty variant: a split is broken by the first vote.
Winner(b) ==
  IF \E l \in Labels : Cardinality({v \in Voters : b[v] = l}) >= 2
  THEN CHOOSE l \in Labels : Cardinality({v \in Voters : b[v] = l}) >= 2
  ELSE b["svm"]

(* Faulty variant: the failure itself is passed on. *)
ResultUnfolded(t) == IF thread[t] = "voted" THEN LABEL_TO_INTENT[Winner(ballot[t])] ELSE "failed"

(* A failure and the labels 0 and 3 fold to please_repeat. *)
Result(t) == IF thread[t] = "voted" THEN LABEL_TO_INTENT[Winner(ballot[t])] ELSE "please_repeat"

Goes(w, step) == thread' = [thread EXCEPT ![w] = step]

(* The lifespan takes no request before warmup has returned or failed. *)
Serving == thread[Warmup] \in Finished

(* classify_safely_async and RemoteIntentClassifier.classify_async: an empty *)
(* transcript, a service that is not configured or does not listen is        *)
(* please_repeat; otherwise the request starts a thread.                     *)
Ask(t) ==
  /\ answer[t] = "none"
  /\ \E empty \in BOOLEAN :
       IF empty \/ ~remote \/ ~Serving
       THEN answer' = [answer EXCEPT ![t] = "please_repeat"] /\ UNCHANGED <<thread, ready>>
       ELSE /\ answer' = [answer EXCEPT ![t] = "waiting"]
            /\ Goes(t, "check")
            /\ ready' = IF loaded = Models THEN ready \cup {t} ELSE ready
  /\ UNCHANGED <<remote, loaded, disk, ballot, restarts>>

(* Faulty variant: every call loads the models again. *)
CheckNothing(w) ==
  /\ thread[w] = "check"
  /\ Goes(w, "locate")
  /\ UNCHANGED <<remote, loaded, disk, ballot, ready, answer, restarts>>

(* _ensure_loaded asks for the encoder only. *)
Check(w) ==
  /\ thread[w] = "check"
  /\ Goes(w, IF "encoder" \in loaded THEN "vote" ELSE "locate")
  /\ UNCHANGED <<remote, loaded, disk, ballot, ready, answer, restarts>>

(* ENCODER_DIR.exists(): a directory that is half written exists too. *)
Locate(w) ==
  /\ thread[w] = "locate"
  /\ Goes(w, IF disk = "absent" THEN "download" ELSE "cached")
  /\ UNCHANGED <<remote, loaded, disk, ballot, ready, answer, restarts>>

(* A cached directory that is not whole does not load; LoadFails is left.    *)
LoadEncoder(w) ==
  /\ \/ thread[w] = "cached" /\ disk = "whole" /\ Goes(w, "logistic")
     \/ thread[w] = "download" /\ Goes(w, "save")
  /\ loaded' = loaded \cup {"encoder"}
  /\ UNCHANGED <<remote, disk, ballot, ready, answer, restarts>>

SaveEncoder(w) ==
  /\ \/ thread[w] = "save" /\ disk' = "partial" /\ Goes(w, "saving")
     \/ thread[w] = "saving" /\ disk' = "whole" /\ Goes(w, "logistic")
  /\ UNCHANGED <<remote, loaded, ballot, ready, answer, restarts>>

AfterModel == [logistic |-> "svm", svm |-> "mlp", mlp |-> "vote"]
LoadModel(w) ==
  /\ thread[w] \in Voters
  /\ loaded' = loaded \cup {thread[w]}
  /\ Goes(w, AfterModel[thread[w]])
  /\ UNCHANGED <<remote, disk, ballot, ready, answer, restarts>>

(* Any step of the load may raise: no network, no space, a file that is not  *)
(* there.  A turn folds to please_repeat, warmup is given up.                *)
LoadFails(w) ==
  /\ thread[w] \in Loading \ {"locate"}
  /\ Goes(w, "failed")
  /\ UNCHANGED <<remote, loaded, disk, ballot, ready, answer, restarts>>

(* The vote reads all four models; one that is None raises.  Reading them at *)
(* once loses nothing: they are set in the order they are read in.           *)
Vote(w) ==
  /\ thread[w] = "vote"
  /\ IF loaded = Models
     THEN \E b \in IF w = Warmup THEN {NoBallot} ELSE [Voters -> Labels] :
            ballot' = [ballot EXCEPT ![w] = b] /\ Goes(w, "voted")
     ELSE Goes(w, "failed") /\ UNCHANGED ballot
  /\ UNCHANGED <<remote, loaded, disk, ready, answer, restarts>>

(* The reply comes in time. *)
Reply(t) ==
  /\ answer[t] = "waiting" /\ thread[t] \in Finished
  /\ answer' = [answer EXCEPT ![t] = Result(t)]
  /\ UNCHANGED <<remote, loaded, disk, thread, ballot, ready, restarts>>

(* Faulty variant: the client waits as long as the service works. *)
TimeoutWhenIdle(t) ==
  /\ answer[t] = "waiting" /\ thread[t] \in Finished
  /\ answer' = [answer EXCEPT ![t] = "please_repeat"]
  /\ UNCHANGED <<remote, loaded, disk, thread, ballot, ready, restarts>>

(* The client's timeout; the thread goes on without it. *)
Timeout(t) ==
  /\ answer[t] = "waiting"
  /\ answer' = [answer EXCEPT ![t] = "please_repeat"]
  /\ UNCHANGED <<remote, loaded, disk, thread, ballot, ready, restarts>>

(* The process dies and starts again, with WARM_MODELS_ON_STARTUP or without.*)
Started(warm) == [w \in Workers |-> IF w # Warmup THEN "idle" ELSE IF warm THEN "check" ELSE "failed"]

Restart ==
  /\ restarts < MaxRestarts
  /\ restarts' = restarts + 1
  /\ \E warm \in BOOLEAN : thread' = Started(warm)
  /\ loaded' = {} /\ ready' = {}
  /\ ballot' = [w \in Workers |-> NoBallot]
  /\ answer' = [t \in Turns |-> IF answer[t] = "waiting" THEN "please_repeat" ELSE answer[t]]
  /\ UNCHANGED <<remote, disk>>

Init ==
  /\ remote \in BOOLEAN
  /\ loaded = {} /\ ready = {} /\ restarts = 0
  /\ disk \in {"absent", "whole"}
  /\ \E warm \in BOOLEAN : thread = Started(warm)
  /\ ballot = [w \in Workers |-> NoBallot]
  /\ answer = [t \in Turns |-> "none"]

Work(w) ==
  Check(w) \/ Locate(w) \/ LoadEncoder(w) \/ SaveEncoder(w) \/ LoadModel(w) \/ LoadFails(w) \/ Vote(w)

Next ==
  \/ \E w \in Workers : Work(w)
  \/ \E t \in Turns : Ask(t) \/ Reply(t) \/ Timeout(t)
  \/ Restart

Spec == Init /\ [][Next]_vars

(* The client's clock runs; a load or a download may hang for ever. *)
FairSpec == Spec /\ \A t \in Turns : WF_vars(Timeout(t))

-----------------------------------------------------------------------------
(* Every variable keeps its type; a turn that waits has a thread, and a       *)
(* model is never forgotten while the process lives (_ensure_loaded).        *)
IntentTypeOK ==
  /\ remote \in BOOLEAN /\ restarts \in 0 .. MaxRestarts
  /\ loaded \in SUBSET Models /\ ready \in SUBSET Turns
  /\ disk \in {"absent", "partial", "whole"}
  /\ thread \in [Workers -> {"idle", "check", "vote"} \cup Loading \cup Finished]
  /\ ballot \in [Workers -> [Voters -> Labels]]
  /\ answer \in [Turns -> {"none", "waiting"} \cup Intents]
  /\ \A t \in Turns : answer[t] = "waiting" => thread[t] # "idle"

(* A yes or a no that reaches the flow is the vote of three loaded models on *)
(* that turn: the SVM's label unless the other two agree on another.  No     *)
(* failure, timeout, restart or half-loaded ensemble can make one up         *)
(* (_classify_ensemble).                                                     *)
YesAndNoAreVoted ==
  \A t \in Turns : answer[t] \in {"yes", "no"} /\ thread[t] # "idle" =>
    /\ thread[t] = "voted"
    /\ answer[t] = LET b == ballot[t]
                   IN  LABEL_TO_INTENT[IF b["logistic"] = b["mlp"] THEN b["mlp"] ELSE b["svm"]]

(* Once the ensemble is loaded, no later turn pays for, or fails with, the   *)
(* load another thread is still at (classify_async, _ensure_loaded).         *)
WarmTurnsAreVoted == \A t \in ready : thread[t] \in {"check", "vote", "voted"}

(* Every question the brain asks is answered, even if the load or the        *)
(* download hangs for ever (RemoteIntentClassifier's timeout).               *)
EveryTurnAnswered == \A t \in Turns : answer[t] = "waiting" ~> answer[t] \in Intents

(* The log line of a failed warmup promises a lazy load: an encoder without  *)
(* the voters is only seen while some thread is at loading them (service.py).*)
HalfLoadedIsTransient ==
  "encoder" \in loaded /\ (\A w \in Workers : thread[w] \notin Loading) => loaded = Models
=============================================================================
