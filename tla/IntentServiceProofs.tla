------------------------ MODULE IntentServiceProofs ------------------------
(* The safety properties of IntentService for any number of turns and of     *)
(* restarts.                                                                 *)
EXTENDS IntentService, FiniteSetTheorems, TLAPS

(* A turn asked of a loaded ensemble: nothing is unloaded, so it never loads.*)
WarmInv == \A t \in ready : loaded = Models /\ thread[t] \in {"check", "vote", "voted"}

-----------------------------------------------------------------------------
(* Two or more voters are two different ones.                                *)
LEMMA TwoVoters ==
  ASSUME NEW S \in SUBSET Voters
  PROVE  Cardinality(S) >= 2 <=> \E u, v \in S : u # v
<1>1. IsFiniteSet(Voters)
  <2>1. IsFiniteSet({"logistic"})
    BY FS_Singleton
  <2>2. IsFiniteSet({"logistic"} \cup {"svm"})
    BY <2>1, FS_AddElement
  <2>3. IsFiniteSet(({"logistic"} \cup {"svm"}) \cup {"mlp"})
    BY <2>2, FS_AddElement
  <2>4. Voters = ({"logistic"} \cup {"svm"}) \cup {"mlp"}
    BY DEF Voters
  <2> QED
    BY <2>3, <2>4
<1>2. IsFiniteSet(S)
  BY <1>1, FS_Subset
<1>3. ASSUME NEW u \in S, NEW v \in S, u # v
      PROVE  Cardinality(S) >= 2
  <2>1. Cardinality({u}) = 1 /\ IsFiniteSet({u})
    BY FS_Singleton
  <2>2. Cardinality({u} \cup {v}) = Cardinality({u}) + 1
    BY <1>3, <2>1, FS_AddElement
  <2>3. {u} \cup {v} \in SUBSET S
    OBVIOUS
  <2>4. Cardinality({u} \cup {v}) <= Cardinality(S)
    BY <1>2, <2>3, FS_Subset
  <2>5. Cardinality(S) \in Nat
    BY <1>2, FS_CardinalityType
  <2> QED
    BY <2>1, <2>2, <2>4, <2>5
<1>4. ASSUME ~ \E u, v \in S : u # v
      PROVE  ~ (Cardinality(S) >= 2)
  <2>1. S = {} \/ \E u : S = {u}
    BY <1>4
  <2>2. Cardinality(S) = 0 \/ Cardinality(S) = 1
    BY <2>1, FS_EmptySet, FS_Singleton
  <2> QED
    BY <2>2
<1> QED
  BY <1>3, <1>4

(* What the vote comes to: the SVM's label, unless the other two agree.      *)
LEMMA WinnerIsMajority ==
  ASSUME NEW b \in [Voters -> Labels]
  PROVE  /\ Winner(b) \in Labels
         /\ Winner(b) = IF b["logistic"] = b["mlp"] THEN b["mlp"] ELSE b["svm"]
<1> DEFINE For(l) == {v \in Voters : b[v] = l}
<1>1. \A l : Cardinality(For(l)) >= 2 <=> \E u, v \in Voters : u # v /\ b[u] = l /\ b[v] = l
  <2>1. \A l : For(l) \in SUBSET Voters
    OBVIOUS
  <2>2. \A l : Cardinality(For(l)) >= 2 <=> \E u, v \in For(l) : u # v
    BY <2>1, TwoVoters
  <2> QED
    BY <2>2
<1>2. b["logistic"] \in Labels /\ b["svm"] \in Labels /\ b["mlp"] \in Labels
  BY DEF Voters
<1>3. ASSUME NEW l \in Labels, Cardinality(For(l)) >= 2
      PROVE  l = IF b["logistic"] = b["mlp"] THEN b["mlp"] ELSE b["svm"]
  <2>1. PICK u, v \in Voters : u # v /\ b[u] = l /\ b[v] = l
    BY <1>1, <1>3
  <2> QED
    BY <2>1 DEF Voters
<1>4. CASE \E l \in Labels : Cardinality(For(l)) >= 2
  <2>1. Winner(b) = CHOOSE l \in Labels : Cardinality(For(l)) >= 2
    BY <1>4 DEF Winner
  <2>2. Winner(b) \in Labels /\ Cardinality(For(Winner(b))) >= 2
    BY <1>4, <2>1
  <2> QED
    BY <1>3, <2>2
<1>5. CASE ~ \E l \in Labels : Cardinality(For(l)) >= 2
  <2>1. Winner(b) = b["svm"]
    BY <1>5 DEF Winner
  <2>2. b["logistic"] # b["mlp"]
    BY <1>1, <1>2, <1>5 DEF Voters
  <2> QED
    BY <1>2, <2>1, <2>2
<1> QED
  BY <1>4, <1>5

(* A label means an intent.                                                  *)
LEMMA LabelsMeanIntents == \A l \in Labels : LABEL_TO_INTENT[l] \in Intents
  BY DEF LABEL_TO_INTENT, Intents, Labels

-----------------------------------------------------------------------------
(* The types, with the thread of a waiting turn.                             *)
LEMMA TypeInit == Init => IntentTypeOK
<1> SUFFICES ASSUME Init PROVE IntentTypeOK
  OBVIOUS
<1>1. thread \in [Workers -> {"idle", "check", "vote"} \cup Loading \cup Finished]
  BY DEF Init, Started, Finished
<1>2. ballot \in [Workers -> [Voters -> Labels]]
  BY DEF Init, NoBallot, Labels
<1>3. restarts \in 0 .. MaxRestarts
  BY RestartsAssumption DEF Init
<1> QED
  BY <1>1, <1>2, <1>3 DEF Init, IntentTypeOK

LEMMA TypeStep == IntentTypeOK /\ [Next]_vars => IntentTypeOK'
<1> SUFFICES ASSUME IntentTypeOK, [Next]_vars PROVE IntentTypeOK'
  OBVIOUS
<1> DEFINE Steps == {"idle", "check", "vote"} \cup Loading \cup Finished
<1> USE DEF IntentTypeOK
<1>1. ASSUME NEW w \in Workers, Work(w) PROVE IntentTypeOK'
  <2>1. PICK to \in Steps \ {"idle"} : Goes(w, to)
    BY <1>1 DEF Work, Check, Locate, LoadEncoder, SaveEncoder, LoadModel, LoadFails, Vote, AfterModel,
                Voters, Loading, Finished
  <2>2. thread' \in [Workers -> Steps] /\ \A u \in Workers : thread[u] # "idle" => thread'[u] # "idle"
    BY <2>1 DEF Goes
  <2>3. loaded' \in SUBSET Models
    BY <1>1 DEF Work, Check, Locate, LoadEncoder, SaveEncoder, LoadModel, LoadFails, Vote, Models
  <2>4. disk' \in {"absent", "partial", "whole"}
    BY <1>1 DEF Work, Check, Locate, LoadEncoder, SaveEncoder, LoadModel, LoadFails, Vote
  <2>5. ballot' \in [Workers -> [Voters -> Labels]]
    <3>1. NoBallot \in [Voters -> Labels]
      BY DEF NoBallot, Labels
    <3> QED
      BY <1>1, <3>1 DEF Work, Check, Locate, LoadEncoder, SaveEncoder, LoadModel, LoadFails, Vote
  <2>6. UNCHANGED <<remote, ready, answer, restarts>>
    BY <1>1 DEF Work, Check, Locate, LoadEncoder, SaveEncoder, LoadModel, LoadFails, Vote
  <2> QED
    BY <2>2, <2>3, <2>4, <2>5, <2>6 DEF Workers
<1>2. ASSUME NEW t \in Turns, Ask(t) PROVE IntentTypeOK'
  BY <1>2 DEF Ask, Goes, Intents, Workers
<1>3. ASSUME NEW t \in Turns, Reply(t) PROVE IntentTypeOK'
  <2>1. Winner(ballot[t]) \in Labels
    BY WinnerIsMajority DEF Workers
  <2>2. Result(t) \in Intents
    BY <2>1, LabelsMeanIntents DEF Result, Intents
  <2>3. "waiting" \notin Intents
    BY DEF Intents
  <2> QED
    BY <1>3, <2>2, <2>3 DEF Reply
<1>4. ASSUME NEW t \in Turns, Timeout(t) PROVE IntentTypeOK'
  BY <1>4 DEF Timeout, Intents
<1>5. CASE Restart
  <2>1. thread' \in [Workers -> Steps]
    BY <1>5 DEF Restart, Started, Finished
  <2>2. ballot' \in [Workers -> [Voters -> Labels]]
    BY <1>5 DEF Restart, NoBallot, Labels
  <2>3. answer' \in [Turns -> {"none", "waiting"} \cup Intents] /\ \A t \in Turns : answer'[t] # "waiting"
    BY <1>5 DEF Restart, Intents
  <2>4. restarts' \in 0 .. MaxRestarts
    BY <1>5, RestartsAssumption DEF Restart
  <2> QED
    BY <1>5, <2>1, <2>2, <2>3, <2>4 DEF Restart
<1>6. CASE UNCHANGED vars
  BY <1>6 DEF vars
<1> QED
  BY <1>1, <1>2, <1>3, <1>4, <1>5, <1>6 DEF Next

(* Every variable of the service and of its client keeps its type, and a     *)
(* turn that waits has a thread at work or done (classify_async).            *)
THEOREM IntentTypeCorrect == Spec => []IntentTypeOK
  BY TypeInit, TypeStep, PTL DEF Spec

-----------------------------------------------------------------------------
LEMMA VotedInit == Init => YesAndNoAreVoted
  BY DEF Init, YesAndNoAreVoted

(* What a step may do to a turn that has its answer: nothing, but that a     *)
(* restart forgets its thread.                                               *)
LEMMA VotedStep == IntentTypeOK /\ YesAndNoAreVoted /\ [Next]_vars => YesAndNoAreVoted'
<1> SUFFICES ASSUME IntentTypeOK, YesAndNoAreVoted, [Next]_vars PROVE YesAndNoAreVoted'
  OBVIOUS
<1> SUFFICES ASSUME NEW t \in Turns, answer'[t] \in {"yes", "no"}, thread'[t] # "idle"
             PROVE  /\ thread'[t] = "voted"
                    /\ answer'[t] = LABEL_TO_INTENT[IF ballot'[t]["logistic"] = ballot'[t]["mlp"]
                                                    THEN ballot'[t]["mlp"] ELSE ballot'[t]["svm"]]
  BY DEF YesAndNoAreVoted
<1> DEFINE Told == LABEL_TO_INTENT[IF ballot[t]["logistic"] = ballot[t]["mlp"]
                                   THEN ballot[t]["mlp"] ELSE ballot[t]["svm"]]
<1>0. t \in Workers /\ t # Warmup
  BY WarmupAssumption DEF Workers
<1>1. ASSUME answer'[t] = answer[t], thread'[t] = thread[t], ballot'[t] = ballot[t]
      PROVE  thread'[t] = "voted" /\ answer'[t] = Told /\ ballot'[t] = ballot[t]
  BY <1>1 DEF YesAndNoAreVoted
<1>2. ASSUME NEW w \in Workers, Work(w)
      PROVE  answer'[t] = answer[t] /\ thread'[t] = thread[t] /\ ballot'[t] = ballot[t]
  <2>1. answer' = answer
    BY <1>2 DEF Work, Check, Locate, LoadEncoder, SaveEncoder, LoadModel, LoadFails, Vote
  <2>2. thread[w] # "voted"
    BY <1>2 DEF Work, Check, Locate, LoadEncoder, SaveEncoder, LoadModel, LoadFails, Vote, Voters, Loading
  <2>3. PICK to : Goes(w, to)
    BY <1>2 DEF Work, Check, Locate, LoadEncoder, SaveEncoder, LoadModel, LoadFails, Vote
  <2>4. \A u \in Workers : u # w => thread'[u] = thread[u] /\ ballot'[u] = ballot[u]
    <3>1. \A u \in Workers : u # w => thread'[u] = thread[u]
      BY <2>3 DEF Goes, IntentTypeOK
    <3>2. \A u \in Workers : u # w => ballot'[u] = ballot[u]
      BY <1>2 DEF Work, Check, Locate, LoadEncoder, SaveEncoder, LoadModel, LoadFails, Vote, IntentTypeOK
    <3> QED
      BY <3>1, <3>2
  <2>5. thread[w] # "idle"
    BY <1>2 DEF Work, Check, Locate, LoadEncoder, SaveEncoder, LoadModel, LoadFails, Vote, Voters, Loading
  <2>6. w # t
    BY <2>1, <2>2, <2>5 DEF YesAndNoAreVoted
  <2> QED
    BY <1>0, <2>1, <2>4, <2>6
<1>3. ASSUME NEW u \in Turns, Ask(u)
      PROVE  answer'[t] = answer[t] /\ thread'[t] = thread[t] /\ ballot'[t] = ballot[t]
  <2>1. u # t
    BY <1>3 DEF Ask, IntentTypeOK
  <2> QED
    BY <1>0, <1>3, <2>1 DEF Ask, Goes, IntentTypeOK
<1>4. ASSUME NEW u \in Turns, Reply(u), u # t
      PROVE  answer'[t] = answer[t] /\ thread'[t] = thread[t] /\ ballot'[t] = ballot[t]
  BY <1>4 DEF Reply, IntentTypeOK
<1>5. ASSUME Reply(t)
      PROVE  thread'[t] = "voted" /\ answer'[t] = Told /\ ballot'[t] = ballot[t]
  <2>1. answer'[t] = Result(t) /\ UNCHANGED <<thread, ballot>>
    BY <1>5 DEF Reply, IntentTypeOK
  <2>2. thread[t] = "voted" /\ answer'[t] = LABEL_TO_INTENT[Winner(ballot[t])]
    BY <2>1 DEF Result
  <2>3. ballot[t] \in [Voters -> Labels]
    BY <1>0 DEF IntentTypeOK
  <2> QED
    BY <2>1, <2>2, <2>3, WinnerIsMajority
<1>6. ASSUME NEW u \in Turns, Timeout(u)
      PROVE  answer'[t] = answer[t] /\ thread'[t] = thread[t] /\ ballot'[t] = ballot[t]
  BY <1>6 DEF Timeout, IntentTypeOK
<1>7. ~Restart
  BY <1>0 DEF Restart, Started
<1>8. CASE UNCHANGED vars
  BY <1>1, <1>8 DEF vars
<1> QED
  BY <1>1, <1>2, <1>3, <1>4, <1>5, <1>6, <1>7, <1>8 DEF Next

(* A yes or a no that reaches the flow is the vote of three loaded models on *)
(* that turn, whatever fails, restarts or is too late, with any number of    *)
(* turns and restarts (_classify_ensemble).                                  *)
THEOREM OnlyVotesDecide == Spec => []YesAndNoAreVoted
<1>1. Init => IntentTypeOK /\ YesAndNoAreVoted
  BY TypeInit, VotedInit
<1>2. IntentTypeOK /\ YesAndNoAreVoted /\ [Next]_vars => IntentTypeOK' /\ YesAndNoAreVoted'
  BY TypeStep, VotedStep
<1> QED
  BY <1>1, <1>2, PTL DEF Spec

-----------------------------------------------------------------------------
LEMMA WarmStep == IntentTypeOK /\ WarmInv /\ [Next]_vars => WarmInv'
<1> SUFFICES ASSUME IntentTypeOK, WarmInv, [Next]_vars, NEW t \in ready'
             PROVE  loaded' = Models /\ thread'[t] \in {"check", "vote", "voted"}
  BY DEF WarmInv
<1>0. ready \subseteq Workers
  BY DEF IntentTypeOK, Workers
<1>1. ASSUME NEW w \in Workers, Work(w)
      PROVE  loaded' = Models /\ thread'[t] \in {"check", "vote", "voted"}
  <2>1. t \in ready
    BY <1>1 DEF Work, Check, Locate, LoadEncoder, SaveEncoder, LoadModel, LoadFails, Vote
  <2>2. loaded = Models /\ thread[t] \in {"check", "vote", "voted"}
    BY <2>1 DEF WarmInv
  <2>3. loaded' = Models
    BY <1>1, <2>2 DEF Work, Check, Locate, LoadEncoder, SaveEncoder, LoadModel, LoadFails, Vote, Models
  <2>4. ASSUME w # t PROVE thread'[t] = thread[t]
    BY <1>0, <1>1, <2>1, <2>4 DEF Work, Check, Locate, LoadEncoder, SaveEncoder, LoadModel, LoadFails, Vote,
                                  Goes, IntentTypeOK
  <2>5. ASSUME w = t PROVE thread'[t] \in {"vote", "voted"}
    <3>1. Check(t) \/ Vote(t)
      BY <1>1, <2>2, <2>5 DEF Work, Check, Locate, LoadEncoder, SaveEncoder, LoadModel, LoadFails, Vote,
                              Voters, Loading
    <3>2. t \in Workers /\ "encoder" \in loaded
      BY <1>0, <2>1, <2>2 DEF Models
    <3> QED
      BY <2>2, <3>1, <3>2 DEF Check, Vote, Goes, IntentTypeOK
  <2> QED
    BY <2>2, <2>3, <2>4, <2>5
<1>2. ASSUME NEW u \in Turns, Ask(u)
      PROVE  loaded' = Models /\ thread'[t] \in {"check", "vote", "voted"}
  BY <1>0, <1>2 DEF Ask, Goes, WarmInv, IntentTypeOK, Workers
<1>3. ASSUME UNCHANGED <<loaded, ready, thread>>
      PROVE  loaded' = Models /\ thread'[t] \in {"check", "vote", "voted"}
  BY <1>3 DEF WarmInv
<1>4. ~Restart
  BY DEF Restart
<1> QED
  BY <1>1, <1>2, <1>3, <1>4 DEF Next, Reply, Timeout, vars

(* A turn that finds the ensemble loaded neither loads nor fails, whatever   *)
(* load another thread is still at (_ensure_loaded).                         *)
THEOREM WarmTurnsVote == Spec => []WarmTurnsAreVoted
<1>1. Init => IntentTypeOK /\ WarmInv
  BY TypeInit DEF Init, WarmInv
<1>2. IntentTypeOK /\ WarmInv /\ [Next]_vars => IntentTypeOK' /\ WarmInv'
  BY TypeStep, WarmStep
<1>3. WarmInv => WarmTurnsAreVoted
  BY DEF WarmInv, WarmTurnsAreVoted
<1> QED
  BY <1>1, <1>2, <1>3, PTL DEF Spec
=============================================================================
