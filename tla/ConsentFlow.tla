---------------------------- MODULE ConsentFlow ----------------------------
(****************************************************************************)
(* The verification flow of one call: ConsentVerificationFlow of            *)
(* brain/app/services/state_machine.py, with the list of events the route   *)
(* layer keeps of it (Session.events_history).                              *)
(*                                                                          *)
(* Step is the method step(), which /turn calls once per customer turn;     *)
(* ForceFailed is the assignment /end makes to the flow's state from the    *)
(* outside.  The wording of the phrases is left out: which text a step      *)
(* speaks is a function of the state it reaches.                            *)
(****************************************************************************)
EXTENDS Integers, Sequences

CONSTANT MAX_ATTEMPTS

ASSUME MaxAttemptsAssumption == MAX_ATTEMPTS \in Nat \ {0}

VARIABLES state,            \* flow.state
          attempts,         \* flow.attempts, 0 for a state not in the dict
          has_alt_mobile,   \* flow.has_alt_mobile
          events_history    \* session.events_history

flowVars == <<state, attempts, has_alt_mobile, events_history>>

----------------------------------------------------------------------------
(* The script.                                                              *)

Terminal == {"failed", "completed"}

(* Faulty variant: a flow that takes "failed" for one more state to retry.  *)
QuestionsAndFailed == {"greeting", "congrats", "declaration", "q_mobile", "q_alt_mobile",
                       "q_email", "q_address", "q_medical", "q_no_merge",
                       "q_own_discretion", "awareness", "failed"}

Questions == {"greeting", "congrats", "declaration", "q_mobile", "q_alt_mobile",
              "q_email", "q_address", "q_medical", "q_no_merge",
              "q_own_discretion", "awareness"}

States == Questions \cup {"closing"} \cup Terminal

Intents == {"yes", "no", "please_repeat"}

VERIFICATION_STEP_NAME ==
    [declaration      |-> "client_declaration",
     q_mobile         |-> "primary_mobile",
     q_alt_mobile     |-> "alternative_mobile",
     q_email          |-> "email_id",
     q_address        |-> "address",
     q_medical        |-> "medical_fitness",
     q_no_merge       |-> "no_policy_merging",
     q_own_discretion |-> "own_discretion",
     awareness        |-> "final_satisfaction"]

Verifies(s) == s \in DOMAIN VERIFICATION_STEP_NAME

(* _next_on_yes: the alternative number is asked for only when there is one *)
NextOnYes(alt) ==
    [greeting         |-> "congrats",
     congrats         |-> "declaration",
     declaration      |-> "q_mobile",
     q_mobile         |-> IF alt THEN "q_alt_mobile" ELSE "q_email",
     q_alt_mobile     |-> "q_email",
     q_email          |-> "q_address",
     q_address        |-> "q_medical",
     q_medical        |-> "q_no_merge",
     q_no_merge       |-> "q_own_discretion",
     q_own_discretion |-> "awareness",
     awareness        |-> "closing",
     closing          |-> "completed",
     failed           |-> "failed",
     completed        |-> "completed"]

----------------------------------------------------------------------------
(* The events of a step.                                                    *)

StepStatus == {"verified", "satisfied", "failed"}

StepEvent(name, status) ==
    [event_type |-> "record_verification_step", step |-> name, status |-> status]
Verified(yes) == [event_type |-> "consent_verified", verified |-> yes]
Plain(type)   == [event_type |-> type]

StepNames == {VERIFICATION_STEP_NAME[s] : s \in DOMAIN VERIFICATION_STEP_NAME}

Events ==
    [event_type : {"record_verification_step"},
     step : StepNames \cup {"greeting", "congrats"}, status : StepStatus]
    \cup [event_type : {"consent_verified"}, verified : BOOLEAN]
    \cup [event_type : {"greeting_finished", "customer_ready", "declaration_recorded",
                        "session_completed", "session_failed"}]

YesEvents(s) ==
    CASE s = "greeting"    -> <<Plain("greeting_finished")>>
      [] s = "congrats"    -> <<Plain("customer_ready")>>
      [] s = "declaration" -> <<Plain("declaration_recorded"),
                                StepEvent(VERIFICATION_STEP_NAME[s], "verified")>>
      [] s = "awareness"   -> <<StepEvent(VERIFICATION_STEP_NAME[s], "satisfied")>>
      [] s = "closing"     -> <<Verified(TRUE), Plain("session_completed")>>
      [] OTHER             -> <<StepEvent(VERIFICATION_STEP_NAME[s], "verified")>>

(* a state with no step of its own is reported under its own name           *)
FailureEvents(s) ==
    <<StepEvent(IF Verifies(s) THEN VERIFICATION_STEP_NAME[s] ELSE s, "failed"),
      Verified(FALSE), Plain("session_failed")>>

----------------------------------------------------------------------------
(* step(intent), one disjunct per return of the method.                     *)

StepTerminal == state \in Terminal /\ UNCHANGED flowVars

(* Faulty variant: the optional question returns to the one it follows.     *)
StepYesReturns ==
    /\ state \notin Terminal
    /\ state' = IF state = "q_alt_mobile" THEN "q_mobile" ELSE NextOnYes(has_alt_mobile)[state]
    /\ attempts' = [attempts EXCEPT ![state'] = 0]
    /\ events_history' = events_history \o YesEvents(state)
    /\ UNCHANGED has_alt_mobile

(* Faulty variant: the optional question is put to every customer.          *)
StepYesAsksAll ==
    /\ state \notin Terminal
    /\ state' = NextOnYes(TRUE)[state]
    /\ attempts' = [attempts EXCEPT ![state'] = 0]
    /\ events_history' = events_history \o YesEvents(state)
    /\ UNCHANGED has_alt_mobile

StepYes ==
    /\ state \notin Terminal
    /\ state' = NextOnYes(has_alt_mobile)[state]
    /\ attempts' = [attempts EXCEPT ![state'] = 0]
    /\ events_history' = events_history \o YesEvents(state)
    /\ UNCHANGED has_alt_mobile

StepClosing ==
    /\ state = "closing"
    /\ state' = "completed"
    /\ events_history' = Append(events_history, Plain("session_completed"))
    /\ UNCHANGED <<attempts, has_alt_mobile>>

CountMiss == attempts' = [attempts EXCEPT ![state] = @ + 1]

(* Faulty variant: the limit starts the count over and ends nothing.        *)
StepGiveUpStartsOver ==
    /\ state \in Questions
    /\ attempts[state] + 1 >= MAX_ATTEMPTS
    /\ attempts' = [attempts EXCEPT ![state] = 0]
    /\ UNCHANGED <<state, has_alt_mobile, events_history>>

StepGiveUp ==
    /\ state \in Questions
    /\ CountMiss
    /\ attempts'[state] >= MAX_ATTEMPTS
    /\ state' = "failed"
    /\ events_history' = events_history \o FailureEvents(state)
    /\ UNCHANGED has_alt_mobile

(* Faulty variant: the limit is compared with the count before this miss.   *)
StepRetryLate ==
    /\ state \in Questions
    /\ CountMiss
    /\ attempts[state] <= MAX_ATTEMPTS
    /\ UNCHANGED <<state, has_alt_mobile, events_history>>

StepRetry ==
    /\ state \in Questions
    /\ CountMiss
    /\ attempts'[state] < MAX_ATTEMPTS
    /\ UNCHANGED <<state, has_alt_mobile, events_history>>

Step(intent) ==
    \/ StepTerminal
    \/ intent = "yes" /\ StepYes
    \/ intent # "yes" /\ (StepClosing \/ StepGiveUp \/ StepRetry)

(* POST /end while the flow has not reached its end                         *)
ForceFailed ==
    /\ state \notin Terminal
    /\ state' = "failed"
    /\ UNCHANGED <<attempts, has_alt_mobile, events_history>>

----------------------------------------------------------------------------

FlowInit ==
    /\ state = "greeting"
    /\ attempts = [s \in States |-> 0]
    /\ has_alt_mobile \in BOOLEAN
    /\ events_history = <<>>

FlowNext == (\E intent \in Intents : Step(intent)) \/ ForceFailed

FlowSpec == FlowInit /\ [][FlowNext]_flowVars

(* The turns of the call go on: the gateway posts the next transcript until *)
(* the status it gets back is no longer "active" (turnloop.go, Run).        *)
FairFlowSpec == FlowSpec /\ WF_flowVars(\E intent \in Intents : Step(intent))

----------------------------------------------------------------------------
(* Properties.                                                              *)

Recorded == {events_history[i] : i \in 1..Len(events_history)}

FlowTypeOK ==
    /\ state \in States
    /\ attempts \in [States -> 0..MAX_ATTEMPTS]
    /\ has_alt_mobile \in BOOLEAN
    /\ events_history \in Seq(Events)

(* What the record says agrees with where the flow stands: the call's       *)
(* outcome is written once, as the last event, by the step that decides the *)
(* call (a call that /end cuts short has none), consent is reported as      *)
(* verified only on a completed call and as refused together with the one   *)
(* step that failed.                                                        *)
OutcomeRecordedOnce ==
    LET n == Len(events_history) IN
    /\ \A i \in 1..n : events_history[i].event_type \in {"session_completed", "session_failed"}
                          => i = n /\ state \in Terminal
    /\ state = "completed" <=> Plain("session_completed") \in Recorded
    /\ Plain("session_failed") \in Recorded =>
           state = "failed" /\ Verified(FALSE) \in Recorded
    /\ Verified(TRUE) \in Recorded => state = "completed"
    /\ Verified(FALSE) \in Recorded =>
           \E e \in Recorded : e.event_type = "record_verification_step" /\ e.status = "failed"

(* No step is reported twice: a retry after a miss does not confirm, or     *)
(* fail, the same point of the script again.                                *)
StepsReportedOnce ==
    \A i, j \in 1..Len(events_history) :
        /\ events_history[i].event_type = "record_verification_step"
        /\ events_history[j].event_type = "record_verification_step"
        /\ events_history[i].step = events_history[j].step
        => i = j

(* The flow keeps the promise of Consent.tla: it confirms the points of the *)
(* script in order, leaves none out and settles the call once.              *)
FlowScript ==
    <<"client_declaration", "primary_mobile", "alternative_mobile", "email_id", "address",
      "medical_fitness", "no_policy_merging", "own_discretion", "final_satisfaction">>

FlowRequired == IF has_alt_mobile THEN StepNames ELSE StepNames \ {"alternative_mobile"}

FlowConfirmed == {n \in StepNames : \E st \in {"verified", "satisfied"} :
                                        StepEvent(n, st) \in Recorded}

FlowVerdict ==
    CASE state = "completed" -> IF Verified(TRUE) \in Recorded THEN "verified" ELSE "completed"
      [] state = "failed"    -> IF Verified(FALSE) \in Recorded THEN "refused" ELSE "abandoned"
      [] OTHER               -> "open"

Promise == INSTANCE Consent WITH Script <- FlowScript, required <- FlowRequired,
                                 confirmed <- FlowConfirmed, verdict <- FlowVerdict

KeepsPromise == Promise!Spec

(* A call whose turns go on is decided: the misses of every question are    *)
(* counted, so that no answer, however often it is not understood, keeps    *)
(* the flow where it is.                                                    *)
Decided == <>(state \in Terminal)

=============================================================================
