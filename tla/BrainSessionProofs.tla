------------------------- MODULE BrainSessionProofs -------------------------
(****************************************************************************)
(* Proofs about the verification flow, for every number of attempts and     *)
(* every call length, and about one session of the brain that runs it, for  *)
(* any number of concurrent requests, turns and attempts.                   *)
(****************************************************************************)
EXTENDS BrainSession, TLAPS

----------------------------------------------------------------------------
(* The tables.                                                              *)

(* A yes leads from a state of the flow to a state of the flow              *)
(* (_next_on_yes).                                                          *)
LEMMA NextOnYesType ==
    ASSUME NEW alt \in BOOLEAN, NEW s \in States
    PROVE  NextOnYes(alt)[s] \in States
BY DEF NextOnYes, States, Questions, Terminal

(* The step names are those of the states that verify something             *)
(* (VERIFICATION_STEP_NAME).                                                *)
LEMMA StepNameType ==
    ASSUME NEW s, Verifies(s)
    PROVE  VERIFICATION_STEP_NAME[s] \in StepNames
BY DEF Verifies, StepNames

(* A state that is neither one of the two opening ones nor closing verifies *)
(* a step of its own.                                                       *)
LEMMA MostStatesVerify ==
    ASSUME NEW s \in Questions, s \notin {"greeting", "congrats"}
    PROVE  Verifies(s)
BY DEF Verifies, VERIFICATION_STEP_NAME, Questions

(* Short sequences.                                                         *)
LEMMA ShortSequences ==
    ASSUME NEW S, NEW a \in S, NEW b \in S, NEW c \in S
    PROVE  <<a>> \in Seq(S) /\ <<a, b>> \in Seq(S) /\ <<a, b, c>> \in Seq(S)
OBVIOUS

(* The events that name no step.                                            *)
LEMMA PlainEvents ==
    /\ \A type \in {"greeting_finished", "customer_ready", "declaration_recorded",
                     "session_completed", "session_failed"} : Plain(type) \in Events
    /\ Verified(TRUE) \in Events /\ Verified(FALSE) \in Events
BY DEF Plain, Verified, Events

(* What a yes records is a sequence of events (state_machine.py:137-150 and *)
(* 156-160).                                                                *)
LEMMA YesEventsType ==
    ASSUME NEW s \in States \ Terminal
    PROVE  YesEvents(s) \in Seq(Events)
<1>1. CASE s = "greeting"
      BY <1>1, PlainEvents, ShortSequences DEF YesEvents
<1>2. CASE s = "congrats"
      BY <1>2, PlainEvents, ShortSequences DEF YesEvents
<1>3. CASE s = "closing"
      BY <1>3, PlainEvents, ShortSequences DEF YesEvents
<1>4. CASE s \notin {"greeting", "congrats", "closing"}
  <2>1. s \in Questions
        BY <1>4 DEF States
  <2>2. VERIFICATION_STEP_NAME[s] \in StepNames
        BY <1>4, <2>1, MostStatesVerify, StepNameType
  <2>3. \A st \in StepStatus : StepEvent(VERIFICATION_STEP_NAME[s], st) \in Events
        BY <2>2 DEF StepEvent, Events
  <2>4. /\ StepEvent(VERIFICATION_STEP_NAME[s], "verified") \in Events
        /\ StepEvent(VERIFICATION_STEP_NAME[s], "satisfied") \in Events
        BY <2>3 DEF StepStatus
  <2>5. CASE s = "declaration"
        BY <2>4, <2>5, PlainEvents, ShortSequences DEF YesEvents
  <2>6. CASE s = "awareness"
        BY <2>4, <2>6, ShortSequences DEF YesEvents
  <2>7. CASE s \notin {"declaration", "awareness"}
        BY <1>4, <2>4, <2>7, ShortSequences DEF YesEvents
  <2> QED BY <2>5, <2>6, <2>7
<1> QED BY <1>1, <1>2, <1>3, <1>4

(* What the third miss records is a sequence of events                      *)
(* (state_machine.py:192-200).                                              *)
LEMMA FailureEventsType ==
    ASSUME NEW s \in Questions
    PROVE  FailureEvents(s) \in Seq(Events)
<1>1. (IF Verifies(s) THEN VERIFICATION_STEP_NAME[s] ELSE s)
          \in StepNames \cup {"greeting", "congrats"}
      BY MostStatesVerify, StepNameType
<1>2. StepEvent(IF Verifies(s) THEN VERIFICATION_STEP_NAME[s] ELSE s, "failed") \in Events
      BY <1>1 DEF StepEvent, Events, StepStatus
<1> QED BY <1>2, PlainEvents, ShortSequences DEF FailureEvents

----------------------------------------------------------------------------
(* Types.  A count never exceeds MAX_ATTEMPTS because the flow leaves a     *)
(* state for good at the miss that reaches it: while the state is open its  *)
(* count is smaller.                                                        *)

AttemptsOpen == state \in Questions => attempts[state] < MAX_ATTEMPTS

FlowInv == FlowTypeOK /\ AttemptsOpen

LEMMA FlowInitInv == FlowInit => FlowInv
BY MaxAttemptsAssumption
   DEF FlowInit, FlowInv, FlowTypeOK, AttemptsOpen, States, Questions, Terminal

(* A step, whatever the intent, keeps the invariant.                        *)
LEMMA StepInv == ASSUME FlowInv, NEW intent \in Intents, Step(intent)
                 PROVE  FlowInv'
<1> USE MaxAttemptsAssumption DEF FlowInv, FlowTypeOK, AttemptsOpen
<1>1. CASE StepTerminal
      BY <1>1 DEF StepTerminal, flowVars
<1>2. CASE StepYes
  <2>1. state' \in States
        BY <1>2, NextOnYesType DEF StepYes
  <2>2. attempts' \in [States -> 0..MAX_ATTEMPTS] /\ attempts'[state'] = 0
        BY <1>2, <2>1 DEF StepYes
  <2>3. events_history' \in Seq(Events)
        BY <1>2, YesEventsType DEF StepYes
  <2> QED BY <1>2, <2>1, <2>2, <2>3 DEF StepYes
<1>3. CASE StepClosing
  <2>1. events_history' \in Seq(Events)
        BY <1>3, PlainEvents DEF StepClosing
  <2> QED BY <1>3, <2>1 DEF StepClosing, States, Questions, Terminal
<1>4. CASE StepGiveUp
  <2>1. attempts' \in [States -> 0..MAX_ATTEMPTS]
        BY <1>4 DEF StepGiveUp, CountMiss
  <2>2. events_history' \in Seq(Events)
        BY <1>4, FailureEventsType DEF StepGiveUp
  <2> QED BY <1>4, <2>1, <2>2 DEF StepGiveUp, States, Questions, Terminal
<1>5. CASE StepRetry
      BY <1>5 DEF StepRetry, CountMiss, States
<1> QED BY <1>1, <1>2, <1>3, <1>4, <1>5 DEF Step

LEMMA ForceFailedInv == ASSUME FlowInv, ForceFailed
                        PROVE  FlowInv'
BY DEF ForceFailed, FlowInv, FlowTypeOK, AttemptsOpen, States, Questions, Terminal

(* The flow keeps its types, and in particular no question is asked more    *)
(* than MAX_ATTEMPTS times.                                                 *)
THEOREM FlowTypeCorrect == FlowSpec => []FlowTypeOK
<1>1. FlowInit => FlowInv
      BY FlowInitInv
<1>2. FlowInv /\ [FlowNext]_flowVars => FlowInv'
  <2> SUFFICES ASSUME FlowInv, [FlowNext]_flowVars PROVE FlowInv'
      OBVIOUS
  <2>1. CASE UNCHANGED flowVars
        BY <2>1 DEF flowVars, FlowInv, FlowTypeOK, AttemptsOpen
  <2>2. CASE FlowNext
        BY <2>2, StepInv, ForceFailedInv DEF FlowNext
  <2> QED BY <2>1, <2>2
<1>3. FlowInv => FlowTypeOK
      BY DEF FlowInv
<1> QED BY <1>1, <1>2, <1>3, PTL DEF FlowSpec

----------------------------------------------------------------------------
(* The promise.  While the call is open, what is confirmed is exactly what  *)
(* the script puts before the state the flow is in: the invariant that lets *)
(* every step of the flow be seen as a step of Consent.tla.                 *)

(* the place, in the script, of the first point a state leaves open         *)
FirstOpen ==
    [greeting |-> 1, congrats |-> 1, declaration |-> 1, q_mobile |-> 2,
     q_alt_mobile |-> 3, q_email |-> 4, q_address |-> 5, q_medical |-> 6,
     q_no_merge |-> 7, q_own_discretion |-> 8, awareness |-> 9, closing |-> 10]

PassedBy(s) == {n \in FlowRequired : \E i \in 1..9 : i < FirstOpen[s] /\ FlowScript[i] = n}

PromiseInv ==
    /\ FlowInv
    /\ state = "q_alt_mobile" => has_alt_mobile
    /\ state \notin Terminal => FlowConfirmed = PassedBy(state)

(* The script names every step, each once.                                  *)
LEMMA ScriptFacts ==
    /\ Len(FlowScript) = 9
    /\ StepNames = {FlowScript[i] : i \in 1..9}
    /\ \A i, j \in 1..9 : FlowScript[i] = FlowScript[j] => i = j
    /\ \A i \in 1..9 : FlowScript[i] = "alternative_mobile" <=> i = 3
<1>1. DOMAIN VERIFICATION_STEP_NAME
        = {"declaration", "q_mobile", "q_alt_mobile", "q_email", "q_address", "q_medical",
           "q_no_merge", "q_own_discretion", "awareness"}
      BY DEF VERIFICATION_STEP_NAME
<1>2. StepNames = {"client_declaration", "primary_mobile", "alternative_mobile", "email_id",
                   "address", "medical_fitness", "no_policy_merging", "own_discretion",
                   "final_satisfaction"}
      BY <1>1 DEF StepNames, VERIFICATION_STEP_NAME
<1> QED BY <1>2 DEF FlowScript

(* A state that verifies a step verifies the first one it leaves open, and  *)
(* a yes moves past it, and past the alternative number when there is none. *)
LEMMA FirstOpenFacts ==
    ASSUME NEW s \in Questions, Verifies(s), NEW alt \in BOOLEAN
    PROVE  LET nxt == NextOnYes(alt)[s] IN
           /\ FirstOpen[s] \in 1..9
           /\ FlowScript[FirstOpen[s]] = VERIFICATION_STEP_NAME[s]
           /\ nxt \in (Questions \cup {"closing"}) \ {"greeting", "congrats", "declaration"}
           /\ nxt = "q_alt_mobile" => alt
           /\ FirstOpen[nxt] = IF s = "q_mobile" /\ ~alt THEN 4 ELSE FirstOpen[s] + 1
<1>1. s \in {"declaration", "q_mobile", "q_alt_mobile", "q_email", "q_address", "q_medical",
             "q_no_merge", "q_own_discretion", "awareness"}
      BY DEF Verifies, VERIFICATION_STEP_NAME
<1>2. FirstOpen[s] \in 1..9 /\ FlowScript[FirstOpen[s]] = VERIFICATION_STEP_NAME[s]
      BY <1>1 DEF FirstOpen, FlowScript, VERIFICATION_STEP_NAME
<1>3. NextOnYes(alt)[s] \in (Questions \cup {"closing"}) \ {"greeting", "congrats", "declaration"}
      BY <1>1 DEF NextOnYes, Questions
<1>4. NextOnYes(alt)[s] = "q_alt_mobile" => alt
      BY <1>1 DEF NextOnYes
<1>5. FirstOpen[NextOnYes(alt)[s]] = IF s = "q_mobile" /\ ~alt THEN 4 ELSE FirstOpen[s] + 1
      BY <1>1 DEF NextOnYes, FirstOpen
<1> QED BY <1>2, <1>3, <1>4, <1>5

(* What a longer record contains.                                           *)
LEMMA RecordedConcat ==
    ASSUME events_history \in Seq(Events), NEW new \in Seq(Events),
           events_history' = events_history \o new
    PROVE  Recorded' = Recorded \cup {new[i] : i \in 1..Len(new)}
<1>1. Recorded' = {(events_history \o new)[i] : i \in 1..(Len(events_history) + Len(new))}
      BY DEF Recorded
<1>2. \A i \in 1..Len(events_history) : (events_history \o new)[i] = events_history[i]
      OBVIOUS
<1>3. \A i \in 1..Len(new) : (events_history \o new)[Len(events_history) + i] = new[i]
      OBVIOUS
<1>4. ASSUME NEW i \in 1..(Len(events_history) + Len(new))
      PROVE  (events_history \o new)[i] \in Recorded \cup {new[k] : k \in 1..Len(new)}
  <2>1. CASE i <= Len(events_history)
        BY <1>2, <2>1 DEF Recorded
  <2>2. CASE i > Len(events_history)
    <3>1. i - Len(events_history) \in 1..Len(new)
          BY <2>2
    <3>2. (events_history \o new)[i] = new[i - Len(events_history)]
          BY <2>2
    <3> QED BY <3>1, <3>2
  <2> QED BY <2>1, <2>2
<1>5. ASSUME NEW e \in Recorded \cup {new[k] : k \in 1..Len(new)}
      PROVE  e \in Recorded'
  <2>1. CASE e \in Recorded
    <3>1. PICK i \in 1..Len(events_history) : e = events_history[i]
          BY <2>1 DEF Recorded
    <3>2. i \in 1..(Len(events_history) + Len(new))
          OBVIOUS
    <3> QED BY <1>1, <1>2, <3>1, <3>2
  <2>2. CASE \E k \in 1..Len(new) : e = new[k]
    <3>1. PICK k \in 1..Len(new) : e = new[k]
          BY <2>2
    <3>2. Len(events_history) + k \in 1..(Len(events_history) + Len(new))
          OBVIOUS
    <3> QED BY <1>1, <1>3, <3>1, <3>2
  <2> QED BY <2>1, <2>2
<1> QED BY <1>1, <1>4, <1>5

(* Events that confirm nothing leave the confirmed points as they are.      *)
LEMMA ConfirmedSame ==
    ASSUME FlowTypeOK, NEW new \in Seq(Events), events_history' = events_history \o new,
           \A i \in 1..Len(new) : \A n \in StepNames :
               new[i] \notin {StepEvent(n, "verified"), StepEvent(n, "satisfied")}
    PROVE  FlowConfirmed' = FlowConfirmed
BY SMTT(30), ZenonT(60), RecordedConcat DEF FlowTypeOK, FlowConfirmed

(* A yes to a question that verifies a step confirms that step.             *)
LEMMA ConfirmedGrows ==
    ASSUME FlowTypeOK, state \in Questions, Verifies(state),
           events_history' = events_history \o YesEvents(state)
    PROVE  FlowConfirmed' = FlowConfirmed \cup {VERIFICATION_STEP_NAME[state]}
<1> DEFINE name == VERIFICATION_STEP_NAME[state]
           st   == IF state = "awareness" THEN "satisfied" ELSE "verified"
           new  == YesEvents(state)
<1>1. new \in Seq(Events)
      BY YesEventsType DEF States, Questions, Terminal
<1>2. state \notin {"greeting", "congrats", "closing"}
      BY DEF Verifies, VERIFICATION_STEP_NAME
<1>3. {new[i] : i \in 1..Len(new)} \in
          {{StepEvent(name, st)}, {Plain("declaration_recorded"), StepEvent(name, st)}}
  <2>1. CASE state = "declaration"
        BY <2>1 DEF YesEvents
  <2>2. CASE state = "awareness"
        BY <2>2 DEF YesEvents
  <2>3. CASE state \notin {"declaration", "awareness"}
        BY <1>2, <2>3 DEF YesEvents
  <2> QED BY <2>1, <2>2, <2>3
<1>4. Recorded' = Recorded \cup {new[i] : i \in 1..Len(new)}
      BY <1>1, RecordedConcat DEF FlowTypeOK
<1>5. \A n \in StepNames, t \in {"verified", "satisfied"} :
          StepEvent(n, t) \in Recorded' <=> StepEvent(n, t) \in Recorded \/ (n = name /\ t = st)
      BY <1>3, <1>4 DEF StepEvent, Plain
<1>6. name \in StepNames /\ st \in {"verified", "satisfied"}
      BY StepNameType
<1> QED BY <1>5, <1>6 DEF FlowConfirmed

(* A yes to a question that verifies a step is the abstract Confirm of that *)
(* step's place on the script.                                              *)
LEMMA YesConfirms ==
    ASSUME PromiseInv, state \in Questions, Verifies(state), StepYes
    PROVE  PromiseInv' /\ Promise!Confirm(FirstOpen[state])
<1> DEFINE k == FirstOpen[state]
<1>1. FlowInv'
      BY StepInv DEF PromiseInv, Step, Intents
<1>2. FlowTypeOK /\ state \notin Terminal /\ FlowConfirmed = PassedBy(state)
      BY DEF PromiseInv, FlowInv, StepYes
<1>3. FlowConfirmed' = FlowConfirmed \cup {FlowScript[k]}
      BY <1>2, ConfirmedGrows, FirstOpenFacts DEF StepYes, FlowTypeOK
<1>4. FlowRequired' = FlowRequired /\ has_alt_mobile' = has_alt_mobile
      BY DEF StepYes, FlowRequired
<1>5. /\ k \in 1..9
      /\ state' \in (Questions \cup {"closing"}) \ {"greeting", "congrats", "declaration"}
      /\ state' = "q_alt_mobile" => has_alt_mobile
      /\ FirstOpen[state'] = IF state = "q_mobile" /\ ~has_alt_mobile THEN 4 ELSE k + 1
      /\ FlowScript[k] = VERIFICATION_STEP_NAME[state]
      BY <1>2, FirstOpenFacts DEF StepYes, FlowTypeOK
<1>6. FlowScript[k] \in FlowRequired
  <2>1. k = 3 => state = "q_alt_mobile"
        BY <1>5, ScriptFacts DEF VERIFICATION_STEP_NAME, Verifies
  <2> QED BY <1>5, <2>1, ScriptFacts DEF FlowRequired, PromiseInv
<1>7. FlowScript[k] \notin FlowConfirmed
      BY <1>2, <1>5, ScriptFacts DEF PassedBy
<1>8. \A j \in 1..(k - 1) : FlowScript[j] \in FlowRequired => FlowScript[j] \in FlowConfirmed
      BY <1>2, <1>5 DEF PassedBy
<1>9. FlowConfirmed' = PassedBy(state)' 
  <2>1. ASSUME NEW n \in FlowRequired
        PROVE  (\E i \in 1..9 : i < FirstOpen[state'] /\ FlowScript[i] = n)
                 <=> (\E i \in 1..9 : i < k /\ FlowScript[i] = n) \/ n = FlowScript[k]
    <3>1. CASE state = "q_mobile" /\ ~has_alt_mobile
      <4>1. k = 2 /\ FirstOpen[state'] = 4
            BY <1>5, <3>1 DEF FirstOpen
      <4>2. n # FlowScript[3]
            BY <3>1, ScriptFacts DEF FlowRequired
      <4> QED BY <4>1, <4>2
    <3>2. CASE ~(state = "q_mobile" /\ ~has_alt_mobile)
          BY <1>5, <3>2
    <3> QED BY <3>1, <3>2
  <2>2. PassedBy(state)' = {n \in FlowRequired :
                              \E i \in 1..9 : i < FirstOpen[state'] /\ FlowScript[i] = n}
        BY <1>4 DEF PassedBy
  <2> QED BY <1>2, <1>3, <1>6, <2>1, <2>2 DEF PassedBy
<1>10. FlowVerdict = "open" /\ FlowVerdict' = "open"
      BY <1>2, <1>5 DEF FlowVerdict, Terminal, Questions
<1>11. PromiseInv'
      BY <1>1, <1>4, <1>5, <1>9 DEF PromiseInv
<1>12. Promise!Confirm(k)
      BY <1>3, <1>4, <1>6, <1>7, <1>8, <1>10 DEF Promise!Confirm
<1> QED BY <1>11, <1>12

(* A yes to one of the two opening questions confirms nothing yet.          *)
LEMMA YesOpens ==
    ASSUME PromiseInv, state \in {"greeting", "congrats"}, StepYes
    PROVE  PromiseInv' /\ UNCHANGED Promise!vars
<1> DEFINE new == YesEvents(state)
<1>1. FlowInv' /\ FlowTypeOK /\ FlowConfirmed = PassedBy(state)
      BY StepInv DEF PromiseInv, FlowInv, Step, Intents, Terminal
<1>2. FlowRequired' = FlowRequired /\ has_alt_mobile' = has_alt_mobile
      BY DEF StepYes, FlowRequired
<1>3. new \in Seq(Events)
      BY YesEventsType DEF States, Questions, Terminal
<1>4. \A i \in 1..Len(new) : \A n \in StepNames :
          new[i] \notin {StepEvent(n, "verified"), StepEvent(n, "satisfied")}
      BY DEF YesEvents, Plain, StepEvent
<1>5. FlowConfirmed' = FlowConfirmed
      BY <1>1, <1>3, <1>4, ConfirmedSame DEF StepYes
<1>6. state' \in {"congrats", "declaration"}
      BY DEF StepYes, NextOnYes
<1>7. FirstOpen[state] = 1 /\ FirstOpen[state'] = 1
      BY <1>6 DEF FirstOpen
<1>8. PassedBy(state)' = PassedBy(state)
      BY <1>2, <1>7 DEF PassedBy
<1>9. FlowVerdict' = FlowVerdict
      BY <1>6 DEF FlowVerdict
<1> QED BY <1>1, <1>2, <1>5, <1>6, <1>8, <1>9 DEF PromiseInv, Promise!vars

(* The step that leaves closing, with or without a yes, finds everything on *)
(* the script confirmed.                                                    *)
LEMMA ClosingCompletes ==
    ASSUME PromiseInv, state = "closing", StepYes \/ StepClosing
    PROVE  PromiseInv' /\ Promise!Complete
<1>1. FlowInv' /\ FlowTypeOK /\ FlowConfirmed = PassedBy("closing")
      BY StepInv DEF PromiseInv, FlowInv, Step, Intents, Terminal
<1>2. FlowRequired' = FlowRequired /\ has_alt_mobile' = has_alt_mobile /\ state' = "completed"
      BY DEF StepYes, StepClosing, FlowRequired, NextOnYes
<1>3. PICK new \in {<<Verified(TRUE), Plain("session_completed")>>, <<Plain("session_completed")>>} :
          events_history' = events_history \o new
  <2>1. CASE StepYes
    <3>1. YesEvents("closing") = <<Verified(TRUE), Plain("session_completed")>>
          BY DEF YesEvents
    <3> QED BY <2>1, <3>1 DEF StepYes
  <2>2. CASE StepClosing
    <3>1. events_history' = events_history \o <<Plain("session_completed")>>
          BY <1>1, <2>2, PlainEvents DEF StepClosing, FlowTypeOK
    <3> QED BY <3>1
  <2> QED BY <2>1, <2>2
<1>4. new \in Seq(Events)
      BY <1>3, PlainEvents, ShortSequences
<1>5. \A i \in 1..Len(new) : \A n \in StepNames :
          new[i] \notin {StepEvent(n, "verified"), StepEvent(n, "satisfied")}
      BY SMTT(30), ZenonT(60), <1>3 DEF Plain, Verified, StepEvent
<1>6. FlowConfirmed' = FlowConfirmed
      BY <1>1, <1>3, <1>4, <1>5, ConfirmedSame
<1>7. PassedBy("closing") = FlowRequired
  <2>1. FirstOpen["closing"] = 10
        BY DEF FirstOpen
  <2> QED BY <2>1, ScriptFacts DEF PassedBy, FlowRequired
<1>8. FlowVerdict = "open" /\ FlowVerdict' \in {"verified", "completed"}
      BY <1>2 DEF FlowVerdict
<1>9. PromiseInv'
      BY <1>1, <1>2 DEF PromiseInv, Terminal
<1> QED BY <1>1, <1>2, <1>6, <1>7, <1>8, <1>9 DEF Promise!Complete

(* A refusal reports no confirmation.                                       *)
LEMMA GiveUpFails ==
    ASSUME PromiseInv, StepGiveUp
    PROVE  PromiseInv' /\ Promise!Fail
<1> DEFINE new == FailureEvents(state)
<1>1. FlowInv' /\ FlowTypeOK /\ state \notin Terminal
      BY StepInv DEF PromiseInv, FlowInv, Step, Intents, StepGiveUp, Questions, Terminal
<1>2. FlowRequired' = FlowRequired /\ has_alt_mobile' = has_alt_mobile /\ state' = "failed"
      BY DEF StepGiveUp, FlowRequired
<1>3. new \in Seq(Events)
      BY FailureEventsType DEF StepGiveUp
<1>4. \A i \in 1..Len(new) : \A n \in StepNames :
          new[i] \notin {StepEvent(n, "verified"), StepEvent(n, "satisfied")}
      BY DEF FailureEvents, Plain, Verified, StepEvent
<1>5. FlowConfirmed' = FlowConfirmed
      BY <1>1, <1>3, <1>4, ConfirmedSame DEF StepGiveUp
<1>6. FlowVerdict = "open" /\ FlowVerdict' \in {"refused", "abandoned"}
      BY <1>1, <1>2 DEF FlowVerdict, Terminal
<1> QED BY <1>1, <1>2, <1>5, <1>6 DEF PromiseInv, Terminal, Promise!Fail

(* The failure that /end forces leaves the record as it is.                 *)
LEMMA ForceFails ==
    ASSUME PromiseInv, ForceFailed
    PROVE  PromiseInv' /\ Promise!Fail
<1>1. FlowInv' /\ state \notin Terminal /\ state' = "failed"
      BY ForceFailedInv DEF PromiseInv, ForceFailed
<1>2. FlowRequired' = FlowRequired /\ FlowConfirmed' = FlowConfirmed
      BY DEF ForceFailed, FlowRequired, FlowConfirmed, Recorded
<1>3. FlowVerdict = "open" /\ FlowVerdict' \in {"refused", "abandoned"}
      BY <1>1 DEF FlowVerdict, Terminal
<1> QED BY <1>1, <1>2, <1>3 DEF PromiseInv, Terminal, Promise!Fail

LEMMA StutterPromise ==
    ASSUME PromiseInv, UNCHANGED <<state, has_alt_mobile, events_history>>, FlowInv'
    PROVE  PromiseInv' /\ UNCHANGED Promise!vars
BY DEF PromiseInv, PassedBy, FlowRequired, FlowConfirmed, FlowVerdict, Recorded, Promise!vars

(* Every step of the flow is a step of the promise, or changes nothing that *)
(* it speaks of.                                                            *)
LEMMA FlowStepKeepsPromise ==
    ASSUME PromiseInv, [FlowNext]_flowVars
    PROVE  PromiseInv' /\ [Promise!Next]_(Promise!vars)
<1>1. CASE UNCHANGED flowVars
  <2>1. FlowInv'
        BY <1>1 DEF flowVars, PromiseInv, FlowInv, FlowTypeOK, AttemptsOpen
  <2> QED BY <1>1, <2>1, StutterPromise DEF flowVars
<1>2. ASSUME NEW intent \in Intents, Step(intent)
      PROVE  PromiseInv' /\ [Promise!Next]_(Promise!vars)
  <2>1. FlowInv'
        BY <1>2, StepInv DEF PromiseInv
  <2>2. CASE StepTerminal
        BY <2>1, <2>2, StutterPromise DEF StepTerminal, flowVars
  <2>3. CASE StepYes
    <3>1. CASE state \in {"greeting", "congrats"}
          BY <2>3, <3>1, YesOpens
    <3>2. CASE state = "closing"
          BY <2>3, <3>2, ClosingCompletes DEF Promise!Next
    <3>3. CASE state \notin {"greeting", "congrats", "closing"}
      <4>1. state \in Questions /\ Verifies(state)
            BY <2>3, <3>3, MostStatesVerify DEF StepYes, PromiseInv, FlowInv, FlowTypeOK, States
      <4>2. FirstOpen[state] \in 1..Len(FlowScript)
            BY <4>1, FirstOpenFacts, ScriptFacts
      <4> QED BY <2>3, <4>1, <4>2, YesConfirms DEF Promise!Next
    <3> QED BY <3>1, <3>2, <3>3
  <2>4. CASE StepClosing
        BY <2>4, ClosingCompletes DEF StepClosing, Promise!Next
  <2>5. CASE StepGiveUp
        BY <2>5, GiveUpFails DEF Promise!Next
  <2>6. CASE StepRetry
        BY <2>1, <2>6, StutterPromise DEF StepRetry
  <2> QED BY <1>2, <2>2, <2>3, <2>4, <2>5, <2>6 DEF Step
<1>3. CASE ForceFailed
      BY <1>3, ForceFails DEF Promise!Next
<1> QED BY <1>1, <1>2, <1>3 DEF FlowNext

LEMMA FlowInitPromise == FlowInit => PromiseInv /\ Promise!Init
<1> SUFFICES ASSUME FlowInit PROVE PromiseInv /\ Promise!Init
    OBVIOUS
<1>1. FlowInv /\ state = "greeting" /\ events_history = <<>> /\ has_alt_mobile \in BOOLEAN
      BY FlowInitInv DEF FlowInit
<1>2. FlowConfirmed = {}
      BY <1>1 DEF FlowConfirmed, Recorded
<1>3. PassedBy("greeting") = {}
      BY DEF PassedBy, FirstOpen
<1>4. FlowRequired \subseteq Promise!Points
      BY ScriptFacts DEF FlowRequired, Promise!Points
<1>5. FlowVerdict = "open"
      BY <1>1 DEF FlowVerdict
<1> QED BY <1>1, <1>2, <1>3, <1>4, <1>5 DEF PromiseInv, Terminal, Promise!Init

(* The flow implements Consent.tla, for every number of attempts: no call   *)
(* completes with a point of its script left out, confirmed out of order or *)
(* after the verdict (state_machine.py).                                    *)
THEOREM FlowKeepsPromise == FlowSpec => KeepsPromise
<1>1. FlowInit => PromiseInv /\ Promise!Init
      BY FlowInitPromise
<1>2. PromiseInv /\ [FlowNext]_flowVars => PromiseInv' /\ [Promise!Next]_(Promise!vars)
      BY FlowStepKeepsPromise
<1> QED BY <1>1, <1>2, PTL DEF FlowSpec, KeepsPromise, Promise!Spec

----------------------------------------------------------------------------
(* The record.  While the call is open it holds no outcome, and the steps   *)
(* it reports are those the script puts before the state of the flow.       *)

IsStep(e) == e.event_type = "record_verification_step"
OpenEvents == {e \in Events : \/ e.event_type \in {"greeting_finished", "customer_ready", "declaration_recorded"}
                              \/ IsStep(e) /\ e.status # "failed"}
Behind(e, s) == \E k \in 1..9 : k < FirstOpen[s] /\ e.step = FlowScript[k]

OpenRecord ==
    state \notin Terminal =>
        \A i \in 1..Len(events_history) :
            /\ events_history[i] \in OpenEvents
            /\ IsStep(events_history[i]) => Behind(events_history[i], state)

RecordInv == FlowInv /\ OpenRecord /\ OutcomeRecordedOnce /\ StepsReportedOnce

(* Where the events of a longer record come from.                           *)
LEMMA ConcatItems ==
    ASSUME NEW q \in Seq(Events), NEW new \in Seq(Events)
    PROVE  /\ Len(q) \in Nat /\ Len(new) \in Nat /\ Len(q \o new) = Len(q) + Len(new)
           /\ \A i \in 1..Len(q) : (q \o new)[i] = q[i]
           /\ \A k \in 1..Len(new) : (q \o new)[Len(q) + k] = new[k]
           /\ \A i \in 1..Len(q \o new) :
                  \/ i \in 1..Len(q)
                  \/ \E k \in 1..Len(new) : i = Len(q) + k
<1>1. Len(q) \in Nat /\ Len(new) \in Nat /\ Len(q \o new) = Len(q) + Len(new)
      OBVIOUS
<1>2. \A i \in 1..Len(q) : (q \o new)[i] = q[i]
      OBVIOUS
<1>3. \A k \in 1..Len(new) : (q \o new)[Len(q) + k] = new[k]
      OBVIOUS
<1>4. ASSUME NEW i \in 1..Len(q \o new), i \notin 1..Len(q)
      PROVE  \E k \in 1..Len(new) : i = Len(q) + k
  <2>1. i - Len(q) \in 1..Len(new) /\ i = Len(q) + (i - Len(q))
        BY <1>1, <1>4
  <2> QED BY <2>1
<1> QED BY <1>1, <1>2, <1>3, <1>4

(* A step that reports one point at most, and a new one, keeps the reports  *)
(* apart.                                                                   *)
LEMMA NewStepReported ==
    ASSUME FlowTypeOK, StepsReportedOnce, NEW new \in Seq(Events),
           events_history' = events_history \o new,
           \A k, m \in 1..Len(new) : IsStep(new[k]) /\ IsStep(new[m]) => k = m,
           \A i \in 1..Len(events_history), k \in 1..Len(new) :
               IsStep(events_history[i]) /\ IsStep(new[k]) => events_history[i].step # new[k].step
    PROVE  StepsReportedOnce'
<1> DEFINE q == events_history
           r == events_history'
<1>1. q \in Seq(Events)
      BY DEF FlowTypeOK
<1> SUFFICES ASSUME NEW i \in 1..Len(r), NEW j \in 1..Len(r),
                    IsStep(r[i]), IsStep(r[j]), r[i].step = r[j].step
             PROVE  i = j
    BY DEF StepsReportedOnce, IsStep
<1>2. /\ i \in 1..Len(q) \/ \E k \in 1..Len(new) : i = Len(q) + k
      /\ j \in 1..Len(q) \/ \E k \in 1..Len(new) : j = Len(q) + k
      BY <1>1, ConcatItems
<1>3. /\ \A n \in 1..Len(q) : r[n] = q[n]
      /\ \A k \in 1..Len(new) : r[Len(q) + k] = new[k]
      BY <1>1, ConcatItems
<1>4. CASE i \in 1..Len(q) /\ j \in 1..Len(q)
      BY <1>3, <1>4 DEF StepsReportedOnce, IsStep
<1>5. CASE i \in 1..Len(q) /\ \E k \in 1..Len(new) : j = Len(q) + k
      BY <1>3, <1>5
<1>6. CASE (\E k \in 1..Len(new) : i = Len(q) + k) /\ j \in 1..Len(q)
      BY <1>3, <1>6
<1>7. CASE (\E k \in 1..Len(new) : i = Len(q) + k) /\ (\E k \in 1..Len(new) : j = Len(q) + k)
      BY <1>3, <1>7
<1> QED BY <1>2, <1>4, <1>5, <1>6, <1>7

(* What a yes records before closing: open events, and one step at most,    *)
(* that of the state.                                                       *)
LEMMA YesReports ==
    ASSUME NEW s \in Questions
    PROVE  LET new == YesEvents(s) IN
           /\ new \in Seq(Events)
           /\ \A k \in 1..Len(new) : new[k] \in OpenEvents
           /\ \A k, m \in 1..Len(new) : IsStep(new[k]) /\ IsStep(new[m]) => k = m
           /\ \A k \in 1..Len(new) : IsStep(new[k]) =>
                  Verifies(s) /\ new[k].step = VERIFICATION_STEP_NAME[s]
<1> DEFINE new == YesEvents(s)
           name == VERIFICATION_STEP_NAME[s]
<1>1. new \in Seq(Events)
      BY YesEventsType DEF States, Questions, Terminal
<1>2. \A k \in 1..Len(new) : new[k] \in Events
      BY <1>1
<1>3. CASE s = "greeting"
      BY <1>1, <1>2, <1>3 DEF YesEvents, OpenEvents, IsStep, Plain
<1>4. CASE s = "congrats"
      BY <1>1, <1>2, <1>4 DEF YesEvents, OpenEvents, IsStep, Plain
<1>5. CASE s = "declaration"
  <2>1. new = <<Plain("declaration_recorded"), StepEvent(name, "verified")>>
        BY <1>5 DEF YesEvents
  <2>2. Verifies(s)
        BY <1>5, MostStatesVerify
  <2> QED BY <1>1, <1>2, <2>1, <2>2 DEF OpenEvents, IsStep, Plain, StepEvent
<1>6. CASE s \notin {"greeting", "congrats", "declaration"}
  <2>1. PICK st \in {"verified", "satisfied"} : new = <<StepEvent(name, st)>>
        BY <1>6 DEF YesEvents, Questions
  <2>2. Verifies(s)
        BY <1>6, MostStatesVerify
  <2> QED BY <1>1, <1>2, <2>1, <2>2 DEF OpenEvents, IsStep, StepEvent
<1> QED BY <1>3, <1>4, <1>5, <1>6

(* A yes in a question.                                                     *)
LEMMA YesKeepsRecord ==
    ASSUME RecordInv, state \in Questions, StepYes
    PROVE  RecordInv'
<1> DEFINE new == YesEvents(state)
           q == events_history
           r == events_history'
<1>1. FlowInv' /\ FlowTypeOK /\ state \notin Terminal /\ q \in Seq(Events)
      BY StepInv DEF RecordInv, FlowInv, FlowTypeOK, Step, Intents, Questions, Terminal
<1>2. r = q \o new /\ state' = NextOnYes(has_alt_mobile)[state] /\ has_alt_mobile \in BOOLEAN
      BY <1>1 DEF StepYes, FlowTypeOK
<1>3. /\ new \in Seq(Events)
      /\ \A k \in 1..Len(new) : new[k] \in OpenEvents
      /\ \A k, m \in 1..Len(new) : IsStep(new[k]) /\ IsStep(new[m]) => k = m
      /\ \A k \in 1..Len(new) : IsStep(new[k]) =>
             Verifies(state) /\ new[k].step = VERIFICATION_STEP_NAME[state]
      BY YesReports
<1>4. state' \notin Terminal
  <2>1. CASE state \in {"greeting", "congrats"}
        BY <1>2, <2>1 DEF NextOnYes, Terminal
  <2>2. CASE state \notin {"greeting", "congrats"}
    <3>1. Verifies(state)
          BY <2>2, MostStatesVerify
    <3> QED BY <1>2, <3>1, FirstOpenFacts DEF Questions, Terminal
  <2> QED BY <2>1, <2>2
<1>5. /\ FirstOpen[state] \in 1..9 /\ FirstOpen[state'] \in 1..10
      /\ FirstOpen[state] <= FirstOpen[state']
      /\ Verifies(state) => /\ FlowScript[FirstOpen[state]] = VERIFICATION_STEP_NAME[state]
                            /\ FirstOpen[state] < FirstOpen[state']
  <2>1. CASE state \in {"greeting", "congrats"}
    <3>1. FirstOpen[state] = 1 /\ FirstOpen[state'] = 1
          BY <1>2, <2>1 DEF NextOnYes, FirstOpen
    <3>2. ~Verifies(state)
          BY <2>1 DEF Verifies, VERIFICATION_STEP_NAME
    <3> QED BY <3>1, <3>2
  <2>2. CASE state \notin {"greeting", "congrats"}
    <3>1. Verifies(state)
          BY <2>2, MostStatesVerify
    <3>2. /\ FirstOpen[state] \in 1..9 /\ FlowScript[FirstOpen[state]] = VERIFICATION_STEP_NAME[state]
          /\ FirstOpen[state'] = IF state = "q_mobile" /\ ~has_alt_mobile THEN 4 ELSE FirstOpen[state] + 1
          BY <1>2, <3>1, FirstOpenFacts
    <3>3. state = "q_mobile" => FirstOpen[state] = 2
          BY DEF FirstOpen
    <3> QED BY <3>2, <3>3
  <2> QED BY <2>1, <2>2
<1>6. \A i \in 1..Len(q) : q[i] \in OpenEvents /\ (IsStep(q[i]) => Behind(q[i], state))
      BY <1>1 DEF RecordInv, OpenRecord
<1>7. \A i \in 1..Len(q), k \in 1..Len(new) : IsStep(q[i]) /\ IsStep(new[k]) => q[i].step # new[k].step
  <2> SUFFICES ASSUME NEW i \in 1..Len(q), NEW k \in 1..Len(new), IsStep(q[i]), IsStep(new[k])
               PROVE  q[i].step # new[k].step
      OBVIOUS
  <2>1. PICK j \in 1..9 : j < FirstOpen[state] /\ q[i].step = FlowScript[j]
        BY <1>6 DEF Behind
  <2>2. new[k].step = FlowScript[FirstOpen[state]]
        BY <1>3, <1>5
  <2>3. FlowScript[j] # FlowScript[FirstOpen[state]]
        BY <1>5, <2>1, ScriptFacts
  <2> QED BY <2>1, <2>2, <2>3
<1>8. StepsReportedOnce'
      BY <1>1, <1>2, <1>3, <1>7, NewStepReported DEF RecordInv
<1>9. \A i \in 1..Len(r) : r[i] \in OpenEvents /\ (IsStep(r[i]) => Behind(r[i], state'))
  <2>1. ASSUME NEW i \in 1..Len(q)
        PROVE  r[i] \in OpenEvents /\ (IsStep(r[i]) => Behind(r[i], state'))
    <3>1. r[i] = q[i]
          BY <1>1, <1>2, <1>3, ConcatItems
    <3>2. Behind(q[i], state) => Behind(q[i], state')
          BY SMTT(30), ZenonT(60), <1>5 DEF Behind
    <3> QED BY <1>6, <3>1, <3>2
  <2>2. ASSUME NEW k \in 1..Len(new)
        PROVE  r[Len(q) + k] \in OpenEvents /\ (IsStep(r[Len(q) + k]) => Behind(r[Len(q) + k], state'))
    <3>1. r[Len(q) + k] = new[k]
          BY <1>1, <1>2, <1>3, ConcatItems
    <3>2. IsStep(new[k]) => Behind(new[k], state')
          BY <1>3, <1>5 DEF Behind
    <3> QED BY <1>3, <3>1, <3>2
  <2>3. \A i \in 1..Len(r) : i \in 1..Len(q) \/ \E k \in 1..Len(new) : i = Len(q) + k
        BY <1>1, <1>2, <1>3, ConcatItems
  <2> QED BY <2>1, <2>2, <2>3
<1>10. OpenRecord'
      BY <1>9 DEF OpenRecord
<1>11. OutcomeRecordedOnce'
      BY <1>4, <1>9 DEF OutcomeRecordedOnce, Recorded, OpenEvents, IsStep, Plain, Verified, Terminal
<1> QED BY <1>1, <1>8, <1>10, <1>11 DEF RecordInv

(* The end of the call at closing.                                          *)
LEMMA ClosingKeepsRecord ==
    ASSUME RecordInv, state = "closing", StepYes \/ StepClosing
    PROVE  RecordInv'
<1> DEFINE q == events_history
           r == events_history'
<1>1. FlowInv' /\ FlowTypeOK /\ state \notin Terminal /\ q \in Seq(Events) /\ state' = "completed"
      BY StepInv DEF RecordInv, FlowInv, FlowTypeOK, Step, Intents, Terminal, StepYes, StepClosing, NextOnYes
<1>2. PICK new \in {<<Verified(TRUE), Plain("session_completed")>>, <<Plain("session_completed")>>} :
          r = q \o new
  <2>1. CASE StepYes
    <3>1. YesEvents("closing") = <<Verified(TRUE), Plain("session_completed")>>
          BY DEF YesEvents
    <3> QED BY <2>1, <3>1 DEF StepYes
  <2>2. CASE StepClosing
    <3>1. r = q \o <<Plain("session_completed")>>
          BY <1>1, <2>2, PlainEvents DEF StepClosing
    <3> QED BY <3>1
  <2> QED BY <2>1, <2>2
<1>3. new \in Seq(Events)
      BY <1>2, PlainEvents, ShortSequences
<1>4. /\ new[Len(new)] = Plain("session_completed") /\ Len(new) \in 1..2
      /\ \A k \in 1..Len(new) : new[k] \in {Verified(TRUE), Plain("session_completed")}
                                /\ (new[k] = Plain("session_completed") => k = Len(new))
  <2>1. CASE new = <<Verified(TRUE), Plain("session_completed")>>
    <3>1. Verified(TRUE) # Plain("session_completed")
          BY DEF Plain, Verified
    <3>2. Len(new) = 2 /\ new[1] = Verified(TRUE) /\ new[2] = Plain("session_completed")
          BY <2>1
    <3>3. \A k \in 1..Len(new) : k = 1 \/ k = 2
          BY <3>2
    <3>4. Len(new) \in 1..2 /\ new[Len(new)] = Plain("session_completed")
          BY <3>2
    <3> QED BY <3>1, <3>2, <3>3, <3>4
  <2>2. CASE new = <<Plain("session_completed")>>
    <3>1. Len(new) = 1 /\ new[1] = Plain("session_completed")
          BY <2>2
    <3>2. \A k \in 1..Len(new) : k = 1
          BY <3>1
    <3>3. Len(new) \in 1..2 /\ new[Len(new)] = Plain("session_completed")
          BY <3>1
    <3> QED BY <3>1, <3>2, <3>3
  <2> QED BY <1>2, <2>1, <2>2
<1>5. \A i \in 1..Len(q) : q[i] \in OpenEvents
      BY <1>1 DEF RecordInv, OpenRecord
<1>6. \A k \in 1..Len(new) : ~IsStep(new[k])
      BY <1>4 DEF IsStep, Plain, Verified
<1>7. StepsReportedOnce'
      BY <1>1, <1>2, <1>3, <1>6, NewStepReported DEF RecordInv
<1>8. OpenRecord'
      BY <1>1 DEF OpenRecord, Terminal
<1>9. Recorded' = Recorded \cup {new[i] : i \in 1..Len(new)}
      BY <1>1, <1>2, <1>3, RecordedConcat
<1>10. \A e \in Recorded' : e \in OpenEvents \cup {Verified(TRUE), Plain("session_completed")}
      BY ZenonT(60), <1>4, <1>5, <1>9 DEF Recorded
<1>11. Plain("session_completed") \in Recorded'
      BY <1>4, <1>9
<1>12. \A e \in OpenEvents \cup {Verified(TRUE), Plain("session_completed")} :
          e # Verified(FALSE) /\ e # Plain("session_failed")
      BY DEF OpenEvents, IsStep, Plain, Verified
<1>13. ASSUME NEW i \in 1..Len(r), r[i].event_type \in {"session_completed", "session_failed"}
       PROVE  i = Len(r)
  <2>1. i \notin 1..Len(q)
    <3> SUFFICES ASSUME i \in 1..Len(q) PROVE FALSE
        OBVIOUS
    <3>1. r[i] = q[i]
          BY <1>1, <1>2, <1>3, ConcatItems
    <3> QED BY <1>5, <1>13, <3>1 DEF OpenEvents, IsStep
  <2>2. PICK k \in 1..Len(new) : i = Len(q) + k
        BY <1>1, <1>2, <1>3, <2>1, ConcatItems
  <2>3. r[i] = new[k] /\ Len(r) = Len(q) + Len(new)
        BY <1>1, <1>2, <1>3, <2>2, ConcatItems
  <2>4. new[k] = Plain("session_completed")
        BY <1>4, <1>13, <2>3 DEF Verified
  <2> QED BY <1>4, <2>2, <2>3, <2>4
<1>14. OutcomeRecordedOnce'
      BY <1>1, <1>10, <1>11, <1>12, <1>13 DEF OutcomeRecordedOnce, Terminal
<1> QED BY <1>1, <1>7, <1>8, <1>14 DEF RecordInv

(* The last miss of a question.                                             *)
LEMMA GiveUpKeepsRecord ==
    ASSUME RecordInv, StepGiveUp
    PROVE  RecordInv'
<1> DEFINE q == events_history
           r == events_history'
           name == IF Verifies(state) THEN VERIFICATION_STEP_NAME[state] ELSE state
           fail == StepEvent(name, "failed")
           new == FailureEvents(state)
<1>1. /\ FlowInv' /\ FlowTypeOK /\ state \in Questions /\ state \notin Terminal
      /\ q \in Seq(Events) /\ state' = "failed"
      BY StepInv DEF RecordInv, FlowInv, FlowTypeOK, Step, Intents, StepGiveUp, Questions, Terminal
<1>2. r = q \o new /\ new \in Seq(Events)
      BY <1>1, FailureEventsType DEF StepGiveUp
<1>3. new = <<fail, Verified(FALSE), Plain("session_failed")>>
      BY DEF FailureEvents
<1>4. \A i \in 1..Len(q) : q[i] \in OpenEvents /\ (IsStep(q[i]) => Behind(q[i], state))
      BY <1>1 DEF RecordInv, OpenRecord
<1>5. \A k \in 1..Len(new) : IsStep(new[k]) => k = 1 /\ new[k].step = name
      BY <1>3 DEF IsStep, StepEvent, Plain, Verified
<1>6. \A j \in 1..9 : j < FirstOpen[state] => FlowScript[j] # name
  <2>1. CASE state \in {"greeting", "congrats"}
        BY <2>1 DEF FirstOpen
  <2>2. CASE state \notin {"greeting", "congrats"}
    <3>1. Verifies(state)
          BY <1>1, <2>2, MostStatesVerify
    <3>2. FirstOpen[state] \in 1..9 /\ FlowScript[FirstOpen[state]] = name
          BY <1>1, <3>1, FirstOpenFacts
    <3> QED BY <3>2, ScriptFacts
  <2> QED BY <2>1, <2>2
<1>7. \A i \in 1..Len(q), k \in 1..Len(new) : IsStep(q[i]) /\ IsStep(new[k]) => q[i].step # new[k].step
      BY <1>4, <1>5, <1>6 DEF Behind
<1>8. StepsReportedOnce'
      BY <1>1, <1>2, <1>5, <1>7, NewStepReported DEF RecordInv
<1>9. OpenRecord'
      BY <1>1 DEF OpenRecord, Terminal
<1>10. Recorded' = Recorded \cup {fail, Verified(FALSE), Plain("session_failed")}
  <2>1. Len(new) = 3 /\ new[1] = fail /\ new[2] = Verified(FALSE) /\ new[3] = Plain("session_failed")
        BY <1>3
  <2>2. 1..Len(new) = {1, 2, 3}
        BY <2>1
  <2>3. {new[i] : i \in 1..Len(new)} = {fail, Verified(FALSE), Plain("session_failed")}
        BY <2>1, <2>2
  <2> QED BY <1>1, <1>2, <2>3, RecordedConcat
<1>11. \A e \in Recorded' : e \in OpenEvents \cup {fail, Verified(FALSE), Plain("session_failed")}
      BY <1>4, <1>10 DEF Recorded
<1>12. \A e \in OpenEvents \cup {fail, Verified(FALSE), Plain("session_failed")} :
          e # Verified(TRUE) /\ e # Plain("session_completed")
      BY DEF OpenEvents, IsStep, Plain, Verified, StepEvent
<1>13. fail.event_type = "record_verification_step" /\ fail.status = "failed"
      BY DEF StepEvent
<1>14. ASSUME NEW i \in 1..Len(r), r[i].event_type \in {"session_completed", "session_failed"}
       PROVE  i = Len(r)
  <2>1. i \notin 1..Len(q)
    <3> SUFFICES ASSUME i \in 1..Len(q) PROVE FALSE
        OBVIOUS
    <3>1. r[i] = q[i]
          BY <1>1, <1>2, ConcatItems
    <3> QED BY <1>4, <1>14, <3>1 DEF OpenEvents, IsStep
  <2>2. PICK k \in 1..Len(new) : i = Len(q) + k
        BY <1>1, <1>2, <2>1, ConcatItems
  <2>3. r[i] = new[k] /\ Len(r) = Len(q) + Len(new)
        BY <1>1, <1>2, <2>2, ConcatItems
  <2>4. Len(new) = 3 /\ k = 3
        BY <1>3, <1>14, <2>3 DEF StepEvent, Verified, Plain
  <2> QED BY <2>2, <2>3, <2>4
<1>15. OutcomeRecordedOnce'
      BY <1>1, <1>10, <1>11, <1>12, <1>13, <1>14 DEF OutcomeRecordedOnce, Terminal
<1> QED BY <1>1, <1>8, <1>9, <1>15 DEF RecordInv

(* A step that leaves the record alone, and the state too unless /end makes *)
(* it failed.                                                               *)
LEMMA SameRecord ==
    ASSUME RecordInv, FlowInv', UNCHANGED events_history,
           state' = state \/ (state \notin Terminal /\ state' = "failed")
    PROVE  RecordInv'
<1>1. CASE state' = state
      BY <1>1 DEF RecordInv, OpenRecord, OutcomeRecordedOnce, StepsReportedOnce, Recorded
<1>2. CASE state \notin Terminal /\ state' = "failed"
  <2>1. \A i \in 1..Len(events_history) : events_history[i] \in OpenEvents
        BY <1>2 DEF RecordInv, OpenRecord
  <2>2. OutcomeRecordedOnce'
        BY <1>2, <2>1 DEF OutcomeRecordedOnce, Recorded, OpenEvents, IsStep, Plain, Verified, Terminal
  <2>3. StepsReportedOnce' /\ OpenRecord'
        BY <1>2 DEF RecordInv, StepsReportedOnce, OpenRecord, Terminal
  <2> QED BY <2>2, <2>3 DEF RecordInv
<1> QED BY <1>1, <1>2

LEMMA RecordInit == FlowInit => RecordInv
<1> SUFFICES ASSUME FlowInit PROVE RecordInv
    OBVIOUS
<1>1. FlowInv /\ events_history = <<>> /\ state = "greeting"
      BY FlowInitInv DEF FlowInit
<1>2. Recorded = {} /\ 1..Len(events_history) = {}
      BY <1>1 DEF Recorded
<1> QED BY <1>1, <1>2 DEF RecordInv, OpenRecord, OutcomeRecordedOnce, StepsReportedOnce, Terminal

LEMMA RecordStep == RecordInv /\ [FlowNext]_flowVars => RecordInv'
<1> SUFFICES ASSUME RecordInv, [FlowNext]_flowVars PROVE RecordInv'
    OBVIOUS
<1>0. FlowInv'
  <2>1. CASE UNCHANGED flowVars
        BY <2>1 DEF flowVars, RecordInv, FlowInv, FlowTypeOK, AttemptsOpen
  <2>2. CASE FlowNext
        BY <2>2, StepInv, ForceFailedInv DEF FlowNext, RecordInv
  <2> QED BY <2>1, <2>2
<1>1. CASE UNCHANGED flowVars
      BY <1>0, <1>1, SameRecord DEF flowVars
<1>2. ASSUME NEW intent \in Intents, Step(intent) PROVE RecordInv'
  <2>1. CASE StepTerminal
        BY <1>0, <2>1, SameRecord DEF StepTerminal, flowVars
  <2>2. CASE StepYes
    <3>1. state \in Questions \/ state = "closing"
          BY <2>2 DEF StepYes, RecordInv, FlowInv, FlowTypeOK, States
    <3> QED BY <2>2, <3>1, YesKeepsRecord, ClosingKeepsRecord
  <2>3. CASE StepClosing
        BY <2>3, ClosingKeepsRecord DEF StepClosing
  <2>4. CASE StepGiveUp
        BY <2>4, GiveUpKeepsRecord
  <2>5. CASE StepRetry
        BY <1>0, <2>5, SameRecord DEF StepRetry
  <2> QED BY <1>2, <2>1, <2>2, <2>3, <2>4, <2>5 DEF Step
<1>3. CASE ForceFailed
      BY <1>0, <1>3, SameRecord DEF ForceFailed
<1> QED BY <1>1, <1>2, <1>3 DEF FlowNext

(* The outcome of a call is recorded once, last, and agrees with the state  *)
(* of the flow (state_machine.py:152-200, sessions.py:171).                 *)
THEOREM FlowRecordsOutcome == FlowSpec => []OutcomeRecordedOnce
<1>1. RecordInv => OutcomeRecordedOnce
      BY DEF RecordInv
<1> QED BY RecordInit, RecordStep, <1>1, PTL DEF FlowSpec

(* No point of the script is reported twice, however often a question is    *)
(* repeated (state_machine.py:156-200).                                     *)
THEOREM FlowReportsStepsOnce == FlowSpec => []StepsReportedOnce
<1>1. RecordInv => StepsReportedOnce
      BY DEF RecordInv
<1> QED BY RecordInit, RecordStep, <1>1, PTL DEF FlowSpec

----------------------------------------------------------------------------
(* The flow under the handlers.                                             *)

(* The flow does not move once it is terminal, whatever the intent          *)
(* (state_machine.py:127-134).                                              *)
LEMMA TerminalStep ==
    ASSUME state \in Terminal, NEW intent, Step(intent)
    PROVE  UNCHANGED flowVars
BY DEF Step, StepTerminal, StepYes, StepClosing, StepGiveUp, StepRetry, flowVars, Terminal,
       Questions

(* What finalize_turn leaves: the flow took one step, the lists grew.       *)
LEMMA FinalizeTurnStep ==
    ASSUME SessionTypeOK, AttemptsOpen, NEW intent \in Intents, NEW text \in Texts,
           FinalizeTurn(intent, text)
    PROVE  /\ Step(intent)
           /\ FlowInv'
           /\ transcript' \in Nat
           /\ agent_text' \in Texts
<1>1. Step(intent) /\ FlowInv'
      BY StepInv DEF FinalizeTurn, SessionTypeOK, FlowInv
<1>2. transcript' \in Nat
      BY DEF FinalizeTurn, SessionTypeOK, FieldsTypeOK
<1>3. agent_text' \in Texts
      BY <1>1 DEF FinalizeTurn, FlowInv, FlowTypeOK, Texts
<1> QED BY <1>1, <1>2, <1>3

(* Every step of the session is a step of its flow, or leaves it alone.     *)
LEMMA SessionStepIsFlowStep == [Next]_vars => [FlowNext]_flowVars
<1> SUFFICES ASSUME [Next]_vars PROVE [FlowNext]_flowVars
    OBVIOUS
<1>1. CASE UNCHANGED vars
      BY <1>1 DEF vars, flowVars
<1>2. ASSUME NEW t \in Turns, TurnStart(t) \/ TurnEmpty(t)
      PROVE  [FlowNext]_flowVars
      BY <1>2 DEF TurnStart, TurnEmpty, FinalizeTurn, FlowNext, Intents
<1>3. ASSUME NEW t \in Turns, NEW intent \in Intents, TurnFinish(t, intent)
      PROVE  [FlowNext]_flowVars
      BY <1>3 DEF TurnFinish, FinalizeTurn, FlowNext
<1>4. ASSUME NEW e \in Ends, EndStart(e) \/ EndTxt(e) \/ EndJson(e) \/ EndReply(e)
      PROVE  [FlowNext]_flowVars
      BY <1>4 DEF EndStart, EndTxt, EndJson, EndReply, ForceTerminal, FlowNext
<1>5. ASSUME NEW g \in Gets, GetStart(g) \/ GetReply(g)
      PROVE  [FlowNext]_flowVars
      BY <1>5 DEF GetStart, GetReply
<1> QED BY <1>1, <1>2, <1>3, <1>4, <1>5 DEF Next

(* The session implements the sequential flow, and with it the promise of   *)
(* Consent.tla: requests that overlap cannot confirm, complete or fail a    *)
(* call in a way that one request after the other could not (sessions.py).  *)
THEOREM SessionImplementsFlow == Spec => FlowSpec
<1>1. Init => FlowInit
      BY DEF Init
<1> QED BY <1>1, SessionStepIsFlowStep, PTL DEF Spec, FlowSpec

THEOREM SessionKeepsPromise == Spec => KeepsPromise
BY SessionImplementsFlow, FlowKeepsPromise

----------------------------------------------------------------------------
(* Types.                                                                   *)

TypeInv == SessionTypeOK /\ AttemptsOpen

LEMMA TypeInvStep == TypeInv /\ [Next]_vars => TypeInv'
<1> SUFFICES ASSUME TypeInv, [Next]_vars PROVE TypeInv'
    OBVIOUS
<1> USE DEF TypeInv, FlowInv
<1>1. FlowInv'
  <2>1. CASE UNCHANGED flowVars
        BY <2>1 DEF SessionTypeOK, flowVars, FlowTypeOK, AttemptsOpen
  <2>2. CASE FlowNext
        BY <2>2, StepInv, ForceFailedInv DEF FlowNext, SessionTypeOK
  <2> QED BY <2>1, <2>2, SessionStepIsFlowStep
<1>2. CASE UNCHANGED vars
      BY <1>1, <1>2 DEF vars, sessionVars, requestVars, SessionTypeOK, FieldsTypeOK, StoredTypeOK
<1>3. ASSUME NEW t \in Turns, TurnStart(t) PROVE SessionTypeOK'
  <2>1. FieldsTypeOK'
    <3>1. turn_index' \in Nat /\ transcript' \in Nat
      <4>1. turn_index \in Nat /\ transcript \in Nat
            BY Zenon DEF SessionTypeOK, FieldsTypeOK
      <4>2. turn_index' = turn_index + 1 /\ transcript' = transcript
            BY <1>3, Zenon DEF TurnStart
      <4> QED BY <4>1, <4>2
    <3>2. agent_text' \in Texts /\ ended' \in BOOLEAN
          BY <1>3 DEF TurnStart, SessionTypeOK, FieldsTypeOK, Texts
    <3> QED BY <3>1, <3>2 DEF FieldsTypeOK
  <2>2. turns' \in [Turns -> Nat]
        BY <1>3, <2>1 DEF TurnStart, SessionTypeOK, FieldsTypeOK
  <2> QED BY <1>1, <1>3, <2>1, <2>2 DEF TurnStart, SessionTypeOK, StoredTypeOK
<1>4. ASSUME NEW t \in Turns, TurnEmpty(t) PROVE SessionTypeOK'
  <2>1. transcript' \in Nat /\ agent_text' \in Texts
        BY <1>4, FinalizeTurnStep DEF TurnEmpty, Intents, Texts
  <2>2. FieldsTypeOK'
    <3>1. turn_index' \in Nat
      <4>1. turn_index \in Nat
            BY Zenon DEF SessionTypeOK, FieldsTypeOK
      <4>2. turn_index' = turn_index + 1
            BY <1>4, Zenon DEF TurnEmpty
      <4> QED BY <4>1, <4>2
    <3>2. ended' \in BOOLEAN
          BY <1>4 DEF TurnEmpty, SessionTypeOK, FieldsTypeOK
    <3> QED BY <2>1, <3>1, <3>2 DEF FieldsTypeOK
  <2> QED BY <1>1, <1>4, <2>2 DEF TurnEmpty, SessionTypeOK, requestVars, StoredTypeOK
<1>5. ASSUME NEW t \in Turns, NEW intent \in Intents, TurnFinish(t, intent)
      PROVE  SessionTypeOK'
  <2>1. transcript' \in Nat /\ agent_text' \in Texts
        BY <1>5, FinalizeTurnStep DEF TurnFinish, SessionTypeOK, FieldsTypeOK
  <2>2. FieldsTypeOK'
        BY <1>5, <2>1 DEF TurnFinish, SessionTypeOK, FieldsTypeOK
  <2> QED BY <1>1, <1>5, <2>2 DEF TurnFinish, SessionTypeOK, StoredTypeOK
<1>6. ASSUME NEW e \in Ends, EndStart(e) PROVE SessionTypeOK'
  <2>1. TxtReport(state') \in TxtReports
        BY <1>1 DEF TxtReport, TxtReports, SessionTypeOK, FlowTypeOK, FieldsTypeOK
  <2>2. ends' \in [Ends -> EndPhases]
        BY <1>6, <2>1 DEF EndStart, SessionTypeOK, EndPhases
  <2> QED BY <1>1, <1>6, <2>2 DEF EndStart, SessionTypeOK, FieldsTypeOK, StoredTypeOK
<1>7. ASSUME NEW e \in Ends, EndTxt(e) PROVE SessionTypeOK'
  <2>1. JsonReport(state) \in JsonReports
        BY DEF JsonReport, JsonReports, SessionTypeOK, FlowTypeOK, FieldsTypeOK
  <2>2. ends[e].data \in TxtReports
        BY <1>7 DEF EndTxt, SessionTypeOK, EndPhases
  <2>3. ends' \in [Ends -> EndPhases]
        BY <1>7, <2>1 DEF EndTxt, SessionTypeOK, EndPhases
  <2>4. StoredTypeOK'
        BY <1>7, <2>2 DEF EndTxt, SessionTypeOK, StoredTypeOK, Upload, Put
  <2> QED BY <1>1, <1>7, <2>3, <2>4 DEF EndTxt, SessionTypeOK, FieldsTypeOK, sessionVars
<1>8. ASSUME NEW e \in Ends, EndJson(e) PROVE SessionTypeOK'
  <2>1. ends[e].data \in JsonReports
        BY <1>8 DEF EndJson, SessionTypeOK, EndPhases
  <2>2. ends' \in [Ends -> EndPhases]
        BY <1>8 DEF EndJson, SessionTypeOK, EndPhases
  <2>3. StoredTypeOK'
        BY <1>8, <2>1 DEF EndJson, SessionTypeOK, StoredTypeOK, Upload, Put
  <2> QED BY <1>1, <1>8, <2>2, <2>3 DEF EndJson, SessionTypeOK, FieldsTypeOK, sessionVars
<1>9. ASSUME NEW e \in Ends, EndReply(e) PROVE SessionTypeOK'
  <2>1. ends' \in [Ends -> EndPhases]
        BY <1>9 DEF EndReply, SessionTypeOK, EndPhases, EndIdle
  <2> QED BY <1>1, <1>9, <2>1 DEF EndReply, SessionTypeOK, FieldsTypeOK, StoredTypeOK, sessionVars
<1>10. ASSUME NEW g \in Gets, GetStart(g) \/ GetReply(g) PROVE SessionTypeOK'
  <2>1. gets' \in [Gets -> GetPhases]
        BY <1>10 DEF GetStart, GetReply, SessionTypeOK, FlowTypeOK, FieldsTypeOK, GetPhases, GetIdle
  <2> QED BY <1>1, <1>10, <2>1
          DEF GetStart, GetReply, SessionTypeOK, FieldsTypeOK, StoredTypeOK, sessionVars
<1> QED BY <1>1, <1>2, <1>3, <1>4, <1>5, <1>6, <1>7, <1>8, <1>9, <1>10 DEF Next

LEMMA TypeInvInit == Init => TypeInv
<1> SUFFICES ASSUME Init PROVE TypeInv
    OBVIOUS
<1>1. FlowInv
      BY FlowInitInv DEF Init
<1>2. FieldsTypeOK
      BY DEF Init, FieldsTypeOK, Texts, States, Questions, Terminal
<1>3. StoredTypeOK
      BY DEF Init, StoredTypeOK
<1>4. turns \in [Turns -> Nat]
      BY DEF Init
<1>5. ends \in [Ends -> EndPhases] /\ gets \in [Gets -> GetPhases]
      BY DEF Init, EndPhases, GetPhases, EndIdle, GetIdle
<1> QED BY <1>1, <1>2, <1>3, <1>4, <1>5 DEF TypeInv, FlowInv, SessionTypeOK

(* The variables of a session keep their types (sessions.py).               *)
THEOREM SessionTypeCorrect == Spec => []SessionTypeOK
<1>1. TypeInv => SessionTypeOK
      BY DEF TypeInv
<1> QED BY TypeInvInit, TypeInvStep, <1>1, PTL DEF Spec

----------------------------------------------------------------------------
(* What /end settles.                                                       *)

(* The outcome of a call never changes and its events are complete once it  *)
(* is reached (state_machine.py:127-134, sessions.py:171).                  *)
THEOREM TerminalStaysFinal == Spec => TerminalIsFinal
<1>1. [Next]_vars => [(state \in Terminal) =>
                         state' = state /\ events_history' = events_history]_vars
  <2> SUFFICES ASSUME [Next]_vars, state \in Terminal
               PROVE  state' = state /\ events_history' = events_history
      OBVIOUS
  <2>1. CASE UNCHANGED flowVars
        BY <2>1 DEF flowVars
  <2>2. CASE FlowNext
        BY <2>2, TerminalStep DEF FlowNext, ForceFailed, flowVars
  <2> QED BY <2>1, <2>2, SessionStepIsFlowStep
<1> QED BY <1>1, PTL DEF Spec, TerminalIsFinal

(* Nothing waits for an upload, the gateway or the recorder, and no file is *)
(* stored, before the session is ended; and ended sessions are terminal.    *)
Ended ==
    /\ EndedIsTerminal
    /\ \A e \in Ends : ends[e].pc # "idle" => ended
    /\ \A g \in Gets : gets[g].pc # "idle" => ended
    /\ DOMAIN stored # {} => ended

(* the invariant: EndedIsTerminal freezes the flow, and with it everything  *)
(* that the pending reports and snapshots say                               *)
SettledInv == TypeInv /\ Ended /\ FilesTellOutcome /\ SnapshotIsConsistent

(* A step of a session that is ended already moves neither the flow nor the *)
(* turn number.                                                             *)
LEMMA EndedIsFrozen ==
    ASSUME SettledInv, ended, [Next]_vars
    PROVE  UNCHANGED flowVars /\ turn_index' = turn_index /\ ended'
<1>1. state \in Terminal
      BY DEF SettledInv, Ended, EndedIsTerminal
<1>2. CASE UNCHANGED vars
      BY <1>2 DEF vars, sessionVars
<1>3. ASSUME NEW t \in Turns, TurnStart(t) \/ TurnEmpty(t) PROVE FALSE
      BY <1>1, <1>3 DEF TurnStart, TurnEmpty, AcceptsTurn
<1>4. ASSUME NEW t \in Turns, NEW intent \in Intents, TurnFinish(t, intent)
      PROVE  UNCHANGED flowVars /\ turn_index' = turn_index /\ ended'
      BY <1>1, <1>4, TerminalStep DEF TurnFinish, FinalizeTurn
<1>5. ASSUME NEW e \in Ends, EndStart(e) \/ EndTxt(e) \/ EndJson(e) \/ EndReply(e)
      PROVE  UNCHANGED flowVars /\ turn_index' = turn_index /\ ended'
      BY <1>1, <1>5 DEF EndStart, EndTxt, EndJson, EndReply, ForceTerminal, sessionVars
<1>6. ASSUME NEW g \in Gets, GetStart(g) \/ GetReply(g)
      PROVE  UNCHANGED flowVars /\ turn_index' = turn_index /\ ended'
      BY <1>6 DEF GetStart, GetReply, sessionVars
<1> QED BY <1>2, <1>3, <1>4, <1>5, <1>6 DEF Next

(* Before the session is ended nothing is pending and nothing is stored.    *)
LEMMA OpenIsEmpty ==
    ASSUME SettledInv, ~ended
    PROVE  /\ \A e \in Ends : ends[e].pc = "idle"
           /\ \A g \in Gets : gets[g].pc = "idle"
           /\ DOMAIN stored = {}
BY DEF SettledInv, Ended

(* A turn changes neither the pending requests nor the stored files, and is *)
(* refused or answered without effect once the session is ended.            *)
LEMMA TurnKeepsSettled ==
    ASSUME SettledInv, [Next]_vars, TypeInv',
           UNCHANGED <<ended, ends, gets, stored>>
    PROVE  SettledInv'
<1>1. CASE ended
  <2>1. UNCHANGED flowVars /\ turn_index' = turn_index
        BY <1>1, EndedIsFrozen
  <2>2. Ended'
        BY <2>1 DEF SettledInv, Ended, EndedIsTerminal, flowVars
  <2>3. FilesTellOutcome'
        BY <2>1 DEF SettledInv, FilesTellOutcome, flowVars
  <2>4. SnapshotIsConsistent'
        BY <2>1 DEF SettledInv, SnapshotIsConsistent, flowVars
  <2> QED BY <2>2, <2>3, <2>4 DEF SettledInv
<1>2. CASE ~ended
  <2>1. /\ \A e \in Ends : ends'[e].pc = "idle"
        /\ \A g \in Gets : gets'[g].pc = "idle"
        /\ DOMAIN stored' = {}
        BY <1>2, OpenIsEmpty
  <2> QED BY <1>2, <2>1
          DEF SettledInv, Ended, EndedIsTerminal, FilesTellOutcome, SnapshotIsConsistent
<1> QED BY <1>1, <1>2

LEMMA SettledInvStep == SettledInv /\ [Next]_vars => SettledInv'
<1> SUFFICES ASSUME SettledInv, [Next]_vars PROVE SettledInv'
    OBVIOUS
<1>1. TypeInv'
      BY TypeInvStep DEF SettledInv
<1>2. CASE UNCHANGED <<ended, ends, gets, stored>>
      BY <1>1, <1>2, TurnKeepsSettled
<1>3. ASSUME NEW e \in Ends, EndStart(e) PROVE SettledInv'
  <2>1. state' \in Terminal /\ ended'
        BY <1>3 DEF EndStart, ForceTerminal, ForceFailed, flowVars, Terminal
  <2>2. Ended'
        BY <2>1 DEF Ended, EndedIsTerminal
  <2>3. Tells(TxtReport(state'), state', events_history')
        BY DEF Tells, TxtReport
  <2>4. UNCHANGED <<turn_index, gets, stored>>
        BY <1>3 DEF EndStart
  <2>5. CASE ended
    <3>1. UNCHANGED flowVars
          BY <2>5, EndedIsFrozen
    <3>2. \A f \in DOMAIN stored : Tells(stored[f], state', events_history')
          BY <3>1 DEF SettledInv, FilesTellOutcome, flowVars
    <3>3. \A d \in Ends : ends'[d].pc \in {"txt", "json"}
                            => Tells(ends'[d].data, state', events_history')
      <4> SUFFICES ASSUME NEW d \in Ends, ends'[d].pc \in {"txt", "json"}
                   PROVE  Tells(ends'[d].data, state', events_history')
          OBVIOUS
      <4>1. CASE d = e
            BY <1>3, <2>3, <4>1 DEF EndStart, SettledInv, TypeInv, SessionTypeOK
      <4>2. CASE d # e
        <5>1. ends'[d] = ends[d]
              BY <1>3, <4>2 DEF EndStart, SettledInv, TypeInv, SessionTypeOK
        <5> QED BY <3>1, <5>1 DEF SettledInv, FilesTellOutcome, flowVars
      <4> QED BY <4>1, <4>2
    <3>4. FilesTellOutcome'
          BY <2>4, <3>2, <3>3 DEF FilesTellOutcome
    <3> QED BY <1>1, <2>2, <2>4, <3>1, <3>4 DEF SettledInv, SnapshotIsConsistent, flowVars
  <2>6. CASE ~ended
    <3>1. \A d \in Ends : ends'[d].pc \in {"txt", "json"} => ends'[d].data = TxtReport(state')
          BY <1>3, <2>6, OpenIsEmpty DEF EndStart, SettledInv, TypeInv, SessionTypeOK
    <3>2. DOMAIN stored' = {} /\ \A g \in Gets : gets'[g].pc = "idle"
          BY <2>4, <2>6, OpenIsEmpty
    <3>3. FilesTellOutcome' /\ SnapshotIsConsistent'
          BY <2>3, <3>1, <3>2 DEF FilesTellOutcome, SnapshotIsConsistent
    <3> QED BY <1>1, <2>2, <3>3 DEF SettledInv
  <2> QED BY <2>5, <2>6
<1>4. ASSUME NEW e \in Ends, EndTxt(e) \/ EndJson(e) \/ EndReply(e) PROVE SettledInv'
  <2>1. ended /\ UNCHANGED <<flowVars, sessionVars, turns, gets>>
        BY <1>4 DEF EndTxt, EndJson, EndReply, SettledInv, Ended
  <2>2. Ended'
        BY <2>1 DEF SettledInv, Ended, EndedIsTerminal, flowVars, sessionVars
  <2>3. SnapshotIsConsistent'
        BY <2>1 DEF SettledInv, SnapshotIsConsistent, flowVars, sessionVars
  <2>4. ends[e].pc \in {"txt", "json"} => Tells(ends[e].data, state, events_history)
        BY DEF SettledInv, FilesTellOutcome
  <2>5. \A f \in DOMAIN stored' : Tells(stored'[f], state, events_history)
        BY <1>4, <2>4 DEF EndTxt, EndJson, EndReply, Upload, Put, SettledInv, FilesTellOutcome
  <2>6. Tells(JsonReport(state), state, events_history)
        BY DEF Tells, JsonReport
  <2>7. \A d \in Ends : ends'[d].pc \in {"txt", "json"}
                          => Tells(ends'[d].data, state, events_history)
        BY <1>4, <2>6 DEF EndTxt, EndJson, EndReply, EndIdle, SettledInv, TypeInv, SessionTypeOK,
                          FilesTellOutcome
  <2>8. FilesTellOutcome'
        BY <2>1, <2>5, <2>7 DEF FilesTellOutcome, flowVars
  <2> QED BY <1>1, <2>2, <2>3, <2>8 DEF SettledInv
<1>5. ASSUME NEW g \in Gets, GetStart(g) \/ GetReply(g) PROVE SettledInv'
  <2>1. ended /\ UNCHANGED <<flowVars, sessionVars, turns, ends, stored>>
        BY <1>5 DEF GetStart, GetReply, SettledInv, Ended
  <2>2. Ended'
        BY <2>1 DEF SettledInv, Ended, EndedIsTerminal, flowVars, sessionVars
  <2>3. SnapshotIsConsistent'
        BY <1>5, <2>1 DEF GetStart, GetReply, GetIdle, SettledInv, TypeInv, SessionTypeOK,
                          SnapshotIsConsistent, flowVars, sessionVars
  <2>4. FilesTellOutcome'
        BY <2>1 DEF SettledInv, FilesTellOutcome, flowVars
  <2> QED BY <1>1, <2>2, <2>3, <2>4 DEF SettledInv
<1> QED BY <1>2, <1>3, <1>4, <1>5
        DEF Next, vars, sessionVars, requestVars, TurnStart, TurnEmpty, TurnFinish

LEMMA SettledInvInit == Init => SettledInv
<1> SUFFICES ASSUME Init PROVE SettledInv
    OBVIOUS
<1>1. /\ \A e \in Ends : ends[e].pc = "idle"
      /\ \A g \in Gets : gets[g].pc = "idle"
      /\ DOMAIN stored = {} /\ ~ended
      BY DEF Init, EndIdle, GetIdle
<1> QED BY <1>1, TypeInvInit
        DEF SettledInv, Ended, EndedIsTerminal, FilesTellOutcome, SnapshotIsConsistent

(* What is settled by /end stays so.                                        *)
LEMMA SettledInvariant == Spec => []SettledInv
BY SettledInvInit, SettledInvStep, PTL DEF Spec

(* An ended session is terminal, however requests overlap                   *)
(* (sessions.py:171-176).                                                   *)
THEOREM EndedStaysTerminal == Spec => []EndedIsTerminal
<1>1. SettledInv => EndedIsTerminal
      BY DEF SettledInv, Ended
<1> QED BY SettledInvariant, <1>1, PTL

(* The transcript files of an ended session tell its outcome, whatever      *)
(* upload of whatever request comes last (recap.py).                        *)
THEOREM SessionSettles == Spec => []FilesTellOutcome
<1>1. SettledInv => FilesTellOutcome
      BY DEF SettledInv
<1> QED BY SettledInvariant, <1>1, PTL

(* A GET that waited for the recorder answers from one moment of the        *)
(* session (sessions.py:143-160).                                           *)
THEOREM SnapshotsAreConsistent == Spec => []SnapshotIsConsistent
<1>1. SettledInv => SnapshotIsConsistent
      BY DEF SettledInv
<1> QED BY SettledInvariant, <1>1, PTL

(* While no turn is under way, the text a GET finds is the phrase of the    *)
(* state (turn_service.py:109-121).                                         *)
THEOREM SessionTextIsCurrent == Spec => []QuietTextIsCurrent
<1>1. Init => QuietTextIsCurrent
      BY DEF Init, FlowInit, QuietTextIsCurrent
<1>2. TypeInv /\ QuietTextIsCurrent /\ [Next]_vars => QuietTextIsCurrent'
  <2> SUFFICES ASSUME TypeInv, QuietTextIsCurrent, [Next]_vars,
                      \A t \in Turns : turns'[t] = 0, state' \notin Terminal
               PROVE  agent_text' = state'
      BY DEF QuietTextIsCurrent
  <2>1. CASE UNCHANGED vars
        BY <2>1 DEF vars, flowVars, sessionVars, requestVars, QuietTextIsCurrent
  <2>2. ASSUME NEW t \in Turns, TurnStart(t) PROVE FALSE
    <3>1. turn_index \in Nat
          BY Zenon DEF TypeInv, SessionTypeOK, FieldsTypeOK
    <3>2. turns'[t] = turn_index + 1
          BY <2>2, Zenon DEF TurnStart, TypeInv, SessionTypeOK
    <3>3. turn_index + 1 # 0
          BY <3>1
    <3> QED BY <3>2, <3>3
  <2>3. ASSUME NEW t \in Turns, TurnEmpty(t) PROVE agent_text' = state'
        BY <2>3 DEF TurnEmpty, FinalizeTurn, Terminal
  <2>4. ASSUME NEW t \in Turns, NEW intent \in Intents, TurnFinish(t, intent)
        PROVE  agent_text' = state'
        BY <2>4 DEF TurnFinish, FinalizeTurn, Terminal
  <2>5. ASSUME NEW e \in Ends, EndStart(e) PROVE FALSE
        BY <2>5 DEF EndStart, ForceTerminal, ForceFailed, flowVars, Terminal
  <2>6. CASE \/ \E e \in Ends : EndTxt(e) \/ EndJson(e) \/ EndReply(e)
             \/ \E g \in Gets : GetStart(g) \/ GetReply(g)
        BY <2>6 DEF EndTxt, EndJson, EndReply, GetStart, GetReply, flowVars, sessionVars,
                    QuietTextIsCurrent
  <2> QED BY <2>1, <2>2, <2>3, <2>4, <2>5, <2>6 DEF Next
<1> QED BY <1>1, <1>2, TypeInvInit, TypeInvStep, PTL DEF Spec
=============================================================================
