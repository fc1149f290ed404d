---------------------------- MODULE BrainSession ----------------------------
(****************************************************************************)
(* One session of the brain: the handlers of brain/app/routes/sessions.py   *)
(* that share it once POST /start has returned.  The brain is one asyncio   *)
(* process, so a handler runs alone from one suspension to the next; what   *)
(* interleaves are the pieces between the awaits that really suspend:       *)
(*                                                                          *)
(*   /turn   TurnStart, then the intent service, then TurnFinish; a turn    *)
(*           with an empty transcript never leaves the loop (TurnEmpty)     *)
(*   /end    EndStart, then the upload of transcript.txt, EndTxt, then the  *)
(*           upload of transcript.json, EndJson, then the gateway's /close, *)
(*           EndReply                                                       *)
(*   GET     GetStart, then the recorder's /status, GetReply; before the    *)
(*           session has ended a GET is answered at once and changes        *)
(*           nothing                                                        *)
(*                                                                          *)
(* With the local storage backend the writes do not suspend: the behaviours *)
(* are those of this module in which EndTxt and EndJson follow at once.     *)
(* A text is represented by the state whose phrase it is.                   *)
(****************************************************************************)
EXTENDS ConsentFlow, FiniteSets

CONSTANTS Turns,        \* the /turn requests that can be open at a time
          Ends,         \* the /end requests that can be open at a time
          Gets,         \* the GET requests that can be open at a time
          MaxTurns,     \* bound of the model on the number of turns
          MaxMissed     \* bound of the model on the number of questions missed

ASSUME BoundsAssumption == MaxTurns \in Nat /\ MaxMissed \in Nat

VARIABLES turn_index,           \* session.turn_index
          agent_text,           \* session.pending_agent_text at turn_index, the one
                                \* entry that is ever read
          transcript,           \* the number of entries of session.transcript
          ended,                \* session.ended_at is not None
          turns,                \* per request: the number its turn was given, 0 if none
          ends,                 \* per request: where the handler stands
          gets,                 \* per request: where the handler stands
          stored                \* the transcript files, as the last write of each left it

sessionVars == <<turn_index, agent_text, transcript, ended>>
requestVars == <<turns, ends, gets>>
vars        == <<flowVars, sessionVars, requestVars, stored>>

----------------------------------------------------------------------------

Put(f, key, value) == [x \in DOMAIN f \cup {key} |-> IF x = key THEN value ELSE f[x]]

(* What the two files say when they are formatted: _format_transcript_txt   *)
(* and _format_transcript_json.  The entries and events that are there are  *)
(* the first ones of the session, whose lists only grow.                    *)
TxtReport(st)  == [final_state |-> st]
JsonReport(st) == [final_state |-> st, events |-> Len(events_history)]

EndIdle == [pc |-> "idle"]
GetIdle == [pc |-> "idle"]

----------------------------------------------------------------------------
(* POST /turn                                                               *)

(* bound of the model: misses are spent on at most MaxMissed questions      *)
MissBound(intent) ==
    intent # "yes" => Cardinality({s \in States : attempts[s] > 0} \cup {state}) <= MaxMissed

(* Faulty variant: the text is looked up before the flow has moved.         *)
FinalizeTurnStaleText(intent, text) ==
    /\ MissBound(intent)
    /\ Step(intent)
    /\ transcript' = transcript + 2
    /\ agent_text' = state

(* finalize_turn: the user's entry, the step, the agent's entry and text    *)
(* under the number the session has by now.  Nothing is said when the flow  *)
(* completes: the text stays what it is under that number.                  *)
FinalizeTurn(intent, text) ==
    /\ MissBound(intent)
    /\ Step(intent)
    /\ IF state' = "completed"
       THEN /\ transcript' = transcript + 1
            /\ agent_text' = text
       ELSE /\ transcript' = transcript + 2
            /\ agent_text' = state'

(* Faulty variant: the handler leaves the check to the flow.                *)
AcceptsAnyTurn == turn_index < MaxTurns

(* Anything else is answered with 410.                                      *)
AcceptsTurn == turn_index < MaxTurns /\ state \notin Terminal

TurnStart(t) ==
    /\ AcceptsTurn
    /\ turns[t] = 0
    /\ turn_index' = turn_index + 1
    /\ agent_text' = ""
    /\ turns' = [turns EXCEPT ![t] = turn_index']
    /\ UNCHANGED <<flowVars, transcript, ended, ends, gets, stored>>

(* classify_safely_async has an intent, its own or please_repeat            *)
TurnFinish(t, intent) ==
    /\ turns[t] # 0
    /\ FinalizeTurn(intent, agent_text)
    /\ turns' = [turns EXCEPT ![t] = 0]
    /\ UNCHANGED <<turn_index, ended, ends, gets, stored>>

TurnEmpty(t) ==
    /\ AcceptsTurn
    /\ turns[t] = 0
    /\ turn_index' = turn_index + 1
    /\ FinalizeTurn("please_repeat", "")
    /\ UNCHANGED <<ended, requestVars, stored>>

----------------------------------------------------------------------------
(* POST /end                                                                *)

(* Faulty variant: the state is left to the turn that is under way.         *)
ForceTerminalWhenQuiet ==
    IF state \in Terminal \/ \E t \in Turns : turns[t] # 0 THEN UNCHANGED flowVars
                                                         ELSE ForceFailed

ForceTerminal == IF state \in Terminal THEN UNCHANGED flowVars ELSE ForceFailed

(* The first file is formatted before the handler suspends for its upload.  *)
(* When recording is off, or the write to the disk raises, this request     *)
(* stores no further file and calls the gateway next.                       *)
EndStart(e) ==
    /\ ends[e].pc = "idle"
    /\ ForceTerminal
    /\ ended' = TRUE
    /\ \/ ends' = [ends EXCEPT ![e] = [pc |-> "txt", data |-> TxtReport(state')]]
       \/ ends' = [ends EXCEPT ![e] = [pc |-> "close"]]
    /\ UNCHANGED <<turn_index, agent_text, transcript, turns, gets, stored>>

(* S3Storage.write: what an upload brings to the bucket is there when the   *)
(* handler resumes; one that failed leaves what was stored before.          *)
Upload(file, data) == stored' \in {stored, Put(stored, file, data)}

EndTxt(e) ==
    /\ ends[e].pc = "txt"
    /\ Upload("txt", ends[e].data)
    /\ \/ ends' = [ends EXCEPT ![e] = [pc |-> "json", data |-> JsonReport(state)]]
       \/ ends' = [ends EXCEPT ![e] = [pc |-> "close"]]
    /\ UNCHANGED <<flowVars, sessionVars, turns, gets>>

EndJson(e) ==
    /\ ends[e].pc = "json"
    /\ Upload("json", ends[e].data)
    /\ ends' = [ends EXCEPT ![e] = [pc |-> "close"]]
    /\ UNCHANGED <<flowVars, sessionVars, turns, gets>>

(* the gateway has answered /close, or the two seconds are over             *)
EndReply(e) ==
    /\ ends[e].pc = "close"
    /\ ends' = [ends EXCEPT ![e] = EndIdle]
    /\ UNCHANGED <<flowVars, sessionVars, turns, gets, stored>>

----------------------------------------------------------------------------
(* GET, once the session has ended.  The agent text is read before the      *)
(* recorder is asked, the state and the turn after; seen_state and          *)
(* seen_turn keep, for the properties, what they were when the text was     *)
(* read.                                                                    *)

GetStart(g) ==
    /\ gets[g].pc = "idle"
    /\ ended
    /\ gets' = [gets EXCEPT ![g] = [pc |-> "status", agent_text |-> agent_text,
                                    seen_state |-> state, seen_turn |-> turn_index]]
    /\ UNCHANGED <<flowVars, sessionVars, turns, ends, stored>>

GetReply(g) ==
    /\ gets[g].pc = "status"
    /\ gets' = [gets EXCEPT ![g] = GetIdle]
    /\ UNCHANGED <<flowVars, sessionVars, turns, ends, stored>>

----------------------------------------------------------------------------

(* The session as POST /start leaves it: the greeting is turn 0.            *)
Init ==
    /\ FlowInit
    /\ turn_index = 0
    /\ agent_text = "greeting"
    /\ transcript = 1
    /\ ended = FALSE
    /\ turns = [t \in Turns |-> 0]
    /\ ends = [e \in Ends |-> EndIdle]
    /\ gets = [g \in Gets |-> GetIdle]
    /\ stored = <<>>

Next ==
    \/ \E t \in Turns : TurnStart(t) \/ TurnEmpty(t)
    \/ \E t \in Turns, intent \in Intents : TurnFinish(t, intent)
    \/ \E e \in Ends : EndStart(e) \/ EndTxt(e) \/ EndJson(e) \/ EndReply(e)
    \/ \E g \in Gets : GetStart(g) \/ GetReply(g)

Spec == Init /\ [][Next]_vars

----------------------------------------------------------------------------
(* Properties.                                                              *)

Texts == (States \ {"completed"}) \cup {""}

TxtReports  == [final_state : States]
JsonReports == [final_state : States, events : Nat]

EndPhases == [pc : {"idle", "close"}] \cup [pc : {"txt"}, data : TxtReports]
                \cup [pc : {"json"}, data : JsonReports]
GetPhases == [pc : {"idle"}] \cup [pc : {"status"}, agent_text : Texts, seen_state : States,
                                   seen_turn : Nat]

FieldsTypeOK == turn_index \in Nat /\ agent_text \in Texts /\ transcript \in Nat
                  /\ ended \in BOOLEAN
StoredTypeOK == /\ DOMAIN stored \subseteq {"txt", "json"}
                /\ "txt" \in DOMAIN stored => stored["txt"] \in TxtReports
                /\ "json" \in DOMAIN stored => stored["json"] \in JsonReports

SessionTypeOK ==
    /\ FlowTypeOK
    /\ FieldsTypeOK
    /\ turns \in [Turns -> Nat]
    /\ ends \in [Ends -> EndPhases]
    /\ gets \in [Gets -> GetPhases]
    /\ StoredTypeOK

(* A session that was ended is decided, and stays ended: the turn that was  *)
(* waiting for its intent while /end came finds a flow that no longer moves *)
(* (sessions.py:171-173).                                                   *)
EndedIsTerminal == ended => state \in Terminal

(* The outcome of a call never changes and nothing is added to its events,  *)
(* whatever turns and ends are still under way when it is reached           *)
(* (state_machine.py:127-134).                                              *)
TerminalIsFinal ==
    [][(state \in Terminal) => state' = state /\ events_history' = events_history]_vars

Tells(report, outcome, events) ==
    /\ report.final_state = outcome
    /\ "events" \in DOMAIN report => report.events = Len(events)

(* Every transcript file, whichever /end wrote it and however late, names   *)
(* the outcome the call has, and the JSON one holds all of its events:      *)
(* uploads that overtake one another cannot leave an older story behind.    *)
(* A turn answered later may still add entries that a file does not have.   *)
FilesTellOutcome ==
    /\ \A f \in DOMAIN stored : Tells(stored[f], state, events_history)
    /\ \A e \in Ends : ends[e].pc \in {"txt", "json"} => Tells(ends[e].data, state, events_history)

(* The fields of one GET answer belong together, though the handler waits   *)
(* for the recorder between reading the text and reading the state: it      *)
(* waits only when the session has ended, and then neither the state nor    *)
(* the turn number moves any more (sessions.py:144-159).                    *)
SnapshotIsConsistent ==
    \A g \in Gets : gets[g].pc = "status" =>
        gets[g].seen_state = state /\ gets[g].seen_turn = turn_index

(* While no turn is under way, the text the gateway bootstraps with is the  *)
(* phrase of the state the flow is in.                                      *)
QuietTextIsCurrent ==
    (\A t \in Turns : turns[t] = 0) /\ state \notin Terminal => agent_text = state

(* A turn is recorded under the number it was given: "session.turn_index    *)
(* must already be incremented to the user's turn before calling this"      *)
(* (turn_service.py:106-107).  Two turns at a time do not keep this.        *)
OwnTurnNumber ==
    [][\A t \in Turns : turns[t] # 0 /\ turns'[t] = 0 => turn_index = turns[t]]_vars

=============================================================================
