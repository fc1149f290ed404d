------------------------------ MODULE TurnLoop ------------------------------
(****************************************************************************)
(* One conversation: the browser page (web/index.html), the control socket  *)
(* with its inbox (control.go), the turn loop that greets, listens, asks    *)
(* and speaks (turnloop.go), and the reader goroutine of each turn's        *)
(* recognizer stream (stt.go).  The brain is the status of the session and  *)
(* may not answer.                                                          *)
(*                                                                          *)
(* The page is driven by messages; a promise that is resolved runs to its   *)
(* next await before the next message is handled, so each message is one    *)
(* step.  What is said is left out: a final is the number of the turn it    *)
(* answers, a transcript is the number of the stream it was heard on, 0 if  *)
(* empty.  START_SPEECH changes only an indicator.  END_SPEECH comes at     *)
(* most once a stream here; MicBuffer shows what depends on that.           *)
(****************************************************************************)
EXTENDS Integers, Sequences

CONSTANTS MaxTurns,   \* the brain ends the session by this turn
          MaxChunks,  \* chunks of audio in one utterance
          InboxSize   \* the capacity of Conn.inbox

ASSUME TurnLoopAssumption == /\ MaxTurns \in Nat \ {0}
                             /\ MaxChunks \in Nat
                             /\ InboxSize \in Nat \ {0}

VARIABLES page,        \* where the driver of the page is waiting
          pageStatus,  \* its sessionStatus
          asked,       \* turns it has started
          signals,     \* agentDoneSignals
          playing,     \* chunks scheduled and not yet heard
          drainLeft,   \* those of them waitForAgentPlaybackDrained waits for
          up,          \* control messages on their way to the gateway
          down,        \* messages on their way to the page
          sock,        \* the control socket
          inbox,       \* Conn.inbox
          loop,        \* where the turn loop is
          turn,        \* turns it has taken up
          said,        \* chunks of the utterance streamed so far
          status,      \* the status of the reply it is giving
          heard,       \* its transcript
          window,      \* the listening window is open
          reader,      \* the reader goroutine of each turn's stream
          events,      \* and the channel it fills
          brain,       \* the status of the session in the brain
          cancelled    \* the ctx of the call

pageVars == <<page, pageStatus, asked, signals, playing, drainLeft>>
sockVars == <<up, down, sock, inbox>>
loopVars == <<loop, turn, said, status, heard, window>>
sttVars == <<reader, events>>
vars == <<pageVars, sockVars, loopVars, sttVars, brain, cancelled>>

Turns == 1..MaxTurns
Live == {"opening", "greeting", "turn", "reply", "draining"}

(* A message to the page; n is the turn of a final and 0 otherwise.         *)
Msg(kind, n, st) == [kind |-> kind, turn |-> n, status |-> st]

(* Errors of a send are ignored, but for audio.                             *)
Send(m) == down' = IF sock = "open" THEN Append(down, m) ELSE down

----------------------------------------------------------------------------
(* The page.                                                                *)

(* Faulty variant: the buffered signal is not used up.                      *)
WaitForAgentDoneAgain(waiting) ==
    IF signals > 0
    THEN page' = "draining" /\ drainLeft' = playing /\ UNCHANGED signals
    ELSE page' = waiting /\ UNCHANGED <<signals, drainLeft>>

(* waitForAgentDone: a buffered signal is used up, or the next awaited; the *)
(* playback is drained after that.                                          *)
WaitForAgentDone(waiting) ==
    IF signals > 0
    THEN signals' = signals - 1 /\ page' = "draining" /\ drainLeft' = playing
    ELSE page' = waiting /\ UNCHANGED <<signals, drainLeft>>

(* The socket is open: startUnifiedMedia returns.                           *)
PageOpens ==
    /\ page = "opening"
    /\ WaitForAgentDone("greeting")
    /\ UNCHANGED <<pageStatus, asked, playing, sockVars, loopVars, sttVars, brain, cancelled>>

Receives(kind) ==
    /\ page \in Live
    /\ down # <<>>
    /\ Head(down).kind = kind
    /\ down' = Tail(down)
    /\ UNCHANGED <<up, sock, inbox, loopVars, sttVars, brain, cancelled>>

PlayAgentChunk ==
    /\ Receives("audio")
    /\ playing' = playing + 1
    /\ UNCHANGED <<page, pageStatus, asked, signals, drainLeft>>

(* Faulty variant: the next turn does not wait for agent_done.              *)
OnFinalEager ==
    /\ Receives("final")
    /\ pageStatus' = Head(down).status
    /\ IF page = "turn"
       THEN page' = "draining" /\ drainLeft' = playing /\ UNCHANGED signals
       ELSE UNCHANGED <<page, signals, drainLeft>>
    /\ UNCHANGED <<asked, playing>>

OnFinal ==
    /\ Receives("final")
    /\ pageStatus' = Head(down).status
    /\ IF page = "turn"
       THEN WaitForAgentDone("reply")
       ELSE UNCHANGED <<page, signals, drainLeft>>
    /\ UNCHANGED <<asked, playing>>

(* Faulty variant: a signal that is awaited is buffered as well.            *)
OnAgentDoneCounted ==
    /\ Receives("agent_done")
    /\ IF page \in {"greeting", "reply"}
       THEN page' = "draining" /\ drainLeft' = playing
       ELSE UNCHANGED <<page, drainLeft>>
    /\ signals' = signals + 1
    /\ UNCHANGED <<pageStatus, asked, playing>>

(* Its status is not read.                                                  *)
OnAgentDone ==
    /\ Receives("agent_done")
    /\ IF page \in {"greeting", "reply"}
       THEN page' = "draining" /\ drainLeft' = playing /\ UNCHANGED signals
       ELSE signals' = signals + 1 /\ UNCHANGED <<page, drainLeft>>
    /\ UNCHANGED <<pageStatus, asked, playing>>

(* An error rejects the turn that is open, which ends the driver's loop;    *)
(* without an open turn it is ignored.                                      *)
OnError ==
    /\ Receives("error")
    /\ page' = IF page = "turn" THEN "ending" ELSE page
    /\ UNCHANGED <<pageStatus, asked, signals, playing, drainLeft>>

ChunkPlayed ==
    /\ playing > 0
    /\ playing' = playing - 1
    /\ drainLeft' = IF drainLeft > 0 THEN drainLeft - 1 ELSE 0
    /\ UNCHANGED <<page, pageStatus, asked, signals, sockVars, loopVars, sttVars, brain,
                   cancelled>>

StartTurn ==
    /\ page' = "turn"
    /\ asked' = asked + 1
    /\ up' = IF sock = "open" THEN Append(up, "start_turn") ELSE up

(* Faulty variant: agent_done is taken for the end of the playback.         *)
PageGoesOnAtOnce ==
    /\ page = "draining"
    /\ IF pageStatus = "active" THEN StartTurn ELSE page' = "ending" /\ UNCHANGED <<asked, up>>
    /\ UNCHANGED <<pageStatus, signals, playing, drainLeft, down, sock, inbox, loopVars, sttVars,
                   brain, cancelled>>

(* The playback is drained: another turn, or the end of the session.        *)
PageGoesOn ==
    /\ page = "draining"
    /\ drainLeft = 0
    /\ IF pageStatus = "active" THEN StartTurn ELSE page' = "ending" /\ UNCHANGED <<asked, up>>
    /\ UNCHANGED <<pageStatus, signals, playing, drainLeft, down, sock, inbox, loopVars, sttVars,
                   brain, cancelled>>

(* The button that ends the session.                                        *)
UserEnds ==
    /\ page \in Live \ {"opening"}
    /\ page' = "ending"
    /\ UNCHANGED <<pageStatus, asked, signals, playing, drainLeft, sockVars, loopVars, sttVars,
                   brain, cancelled>>

(* endSession: stopUnifiedMedia ...                                         *)
StopMedia ==
    /\ page = "ending"
    /\ page' = "closing"
    /\ up' = IF sock = "open" THEN Append(up, "end") ELSE up
    /\ sock' = "closed"
    /\ down' = <<>>
    /\ signals' = 0
    /\ UNCHANGED <<pageStatus, asked, playing, drainLeft, inbox, loopVars, sttVars, brain,
                   cancelled>>

(* ... then POST /end to the brain, whose own /close cancels the call.      *)
PostEnd ==
    /\ page = "closing"
    /\ page' = "ended"
    /\ brain' = "over"
    /\ UNCHANGED <<pageStatus, asked, signals, playing, drainLeft, sockVars, loopVars, sttVars,
                   cancelled>>

Page == \/ PageOpens \/ PlayAgentChunk \/ OnFinal \/ OnAgentDone \/ OnError \/ ChunkPlayed
        \/ PageGoesOn \/ StopMedia \/ PostEnd

----------------------------------------------------------------------------
(* The control socket.                                                      *)

(* The read goroutine; a full inbox drops the message.                      *)
ControlRead ==
    /\ up # <<>>
    /\ up' = Tail(up)
    /\ inbox' = IF Len(inbox) < InboxSize THEN Append(inbox, Head(up)) ELSE inbox
    /\ UNCHANGED <<down, sock, pageVars, loopVars, sttVars, brain, cancelled>>

InboxClosed == sock = "closed" /\ up = <<>> /\ inbox = <<>>

(* The network fails, or the gateway closes the socket: what is on its way  *)
(* to the page may be lost in part.  The page is not told.                  *)
SockDrops ==
    /\ sock = "open"
    /\ sock' = "closed"
    /\ \E n \in 0..Len(down) : down' = SubSeq(down, 1, n)
    /\ \E n \in 0..Len(up) : up' = SubSeq(up, 1, n)
    /\ UNCHANGED <<inbox, pageVars, loopVars, sttVars, brain, cancelled>>

(* Close of the call: the peer has failed, or the brain asked for it.       *)
Cancel ==
    /\ ~cancelled
    /\ cancelled' = TRUE
    /\ UNCHANGED <<pageVars, sockVars, loopVars, sttVars, brain>>

----------------------------------------------------------------------------
(* The turn loop.                                                           *)

(* The snapshot came; its text may be empty.                                *)
Boot ==
    /\ loop = "boot"
    /\ ~cancelled
    /\ status' = brain
    /\ said' = 0
    /\ loop' \in {"greeting", "done"}
    /\ UNCHANGED <<turn, heard, window, pageVars, sockVars, sttVars, brain, cancelled>>

(* It did not come: an error, no agent_done, and no loop.                   *)
BootFails ==
    /\ loop = "boot"
    /\ Send(Msg("error", 0, "active"))
    /\ loop' = "unbooted"
    /\ UNCHANGED <<turn, said, status, heard, window, pageVars, up, sock, inbox, sttVars, brain,
                   cancelled>>

Speaking == loop \in {"greeting", "speaking"}

SpeakChunk ==
    /\ Speaking
    /\ said < MaxChunks
    /\ sock = "open"
    /\ Send(Msg("audio", 0, "active"))
    /\ said' = said + 1
    /\ UNCHANGED <<loop, turn, status, heard, window, pageVars, up, sock, inbox, sttVars, brain,
                   cancelled>>

SpeakEnds ==
    /\ Speaking
    /\ said = MaxChunks
    /\ loop' = "done"
    /\ UNCHANGED <<turn, said, status, heard, window, pageVars, sockVars, sttVars, brain,
                   cancelled>>

(* Faulty variant: a reply that could not be voiced ends the turn there.    *)
SpeakFailsForGood ==
    /\ Speaking
    /\ Send(Msg("error", 0, "active"))
    /\ loop' = "waiting"
    /\ UNCHANGED <<turn, said, status, heard, window, pageVars, up, sock, inbox, sttVars, brain,
                   cancelled>>

(* The vendor, the deadline, the ctx or the socket cut the utterance short. *)
SpeakFails ==
    /\ Speaking
    /\ Send(Msg("error", 0, "active"))
    /\ loop' = "done"
    /\ UNCHANGED <<turn, said, status, heard, window, pageVars, up, sock, inbox, sttVars, brain,
                   cancelled>>

(* agent_done; the loop goes on while the status of the reply is active.    *)
SayDone ==
    /\ loop = "done"
    /\ Send(Msg("agent_done", 0, status))
    /\ loop' = IF status = "active" THEN "waiting" ELSE "exited"
    /\ UNCHANGED <<turn, said, status, heard, window, pageVars, up, sock, inbox, sttVars, brain,
                   cancelled>>

(* Faulty variant: a closed inbox goes unnoticed.                           *)
LoopLeavesOnCancel ==
    /\ loop = "waiting"
    /\ cancelled
    /\ loop' = "exited"
    /\ UNCHANGED <<turn, said, status, heard, window, pageVars, sockVars, sttVars, brain,
                   cancelled>>

LoopLeaves ==
    /\ loop = "waiting"
    /\ cancelled \/ InboxClosed
    /\ loop' = "exited"
    /\ UNCHANGED <<turn, said, status, heard, window, pageVars, sockVars, sttVars, brain,
                   cancelled>>

TakesEnd ==
    /\ loop = "waiting"
    /\ inbox # <<>> /\ Head(inbox) = "end"
    /\ inbox' = Tail(inbox)
    /\ loop' = "exited"
    /\ UNCHANGED <<turn, said, status, heard, window, pageVars, up, down, sock, sttVars, brain,
                   cancelled>>

(* start_turn: the window opens, and Run connects.                          *)
TakesStartTurn ==
    /\ loop = "waiting"
    /\ inbox # <<>> /\ Head(inbox) = "start_turn"
    /\ inbox' = Tail(inbox)
    /\ turn' = turn + 1
    /\ window' = TRUE
    /\ heard' = 0
    /\ loop' = "dialing"
    /\ UNCHANGED <<said, status, pageVars, up, down, sock, sttVars, brain, cancelled>>

Connected ==
    /\ loop = "dialing"
    /\ loop' = "listening"
    /\ reader' = [reader EXCEPT ![turn] = "hearing"]
    /\ UNCHANGED <<turn, said, status, heard, window, pageVars, sockVars, events, brain,
                   cancelled>>

(* Run returns, and the SetMic(nil) after it.                               *)
EndListening(transcript) ==
    /\ heard' = transcript
    /\ window' = FALSE
    /\ loop' = "asking"

(* No connection, the deadline, the ctx: an empty transcript.               *)
ListenFails ==
    /\ loop \in {"dialing", "listening"}
    /\ EndListening(0)
    /\ UNCHANGED <<turn, said, status, pageVars, sockVars, sttVars, brain, cancelled>>

TakesEvent(kind) ==
    /\ loop = "listening"
    /\ events[turn] # <<>>
    /\ Head(events[turn])[1] = kind
    /\ events' = [events EXCEPT ![turn] = Tail(@)]
    /\ UNCHANGED <<turn, said, status, pageVars, sockVars, reader, brain, cancelled>>

EndSpeech == TakesEvent("end_speech") /\ window' = FALSE /\ UNCHANGED <<loop, heard>>

Heard == TakesEvent("final") /\ EndListening(Head(events[turn])[2])

HeardError == TakesEvent("error") /\ EndListening(0)

(* POST /turn is answered: the final, then the reply, if it has a text.     *)
BrainAnswers ==
    /\ loop = "asking"
    /\ ~cancelled
    /\ brain' \in IF turn = MaxTurns THEN {"over"} ELSE {brain, "over"}
    /\ status' = brain'
    /\ Send(Msg("final", turn, brain'))
    /\ said' = 0
    /\ loop' \in {"speaking", "done"}
    /\ UNCHANGED <<turn, heard, window, pageVars, up, sock, inbox, sttVars, cancelled>>

(* It is not, though the brain may have handled it: an error, and an        *)
(* agent_done that says active.                                             *)
BrainUnavailable ==
    /\ loop = "asking"
    /\ brain' \in {brain, "over"}
    /\ Send(Msg("error", 0, "active"))
    /\ status' = "active"
    /\ loop' = "done"
    /\ UNCHANGED <<turn, said, heard, window, pageVars, up, sock, inbox, sttVars, cancelled>>

Speak == SpeakChunk \/ SpeakEnds \/ SpeakFails
Listen == Connected \/ ListenFails \/ EndSpeech \/ Heard \/ HeardError
Ask == BrainAnswers \/ BrainUnavailable
Loop == \/ Boot \/ BootFails \/ Speak \/ SayDone \/ LoopLeaves \/ TakesEnd \/ TakesStartTurn
        \/ Listen \/ Ask

----------------------------------------------------------------------------
(* The reader goroutine of stream s, which may outlive its turn.            *)

(* Faulty variant: one channel serves every turn.                           *)
ReaderEmitsShared(s, kind, to) ==
    /\ reader' = [reader EXCEPT ![s] = to]
    /\ events' = [events EXCEPT ![turn] = Append(@, <<kind, s>>)]
    /\ UNCHANGED <<pageVars, sockVars, loopVars, brain, cancelled>>

ReaderEmits(s, kind, to) ==
    /\ reader' = [reader EXCEPT ![s] = to]
    /\ events' = [events EXCEPT ![s] = Append(@, <<kind, s>>)]
    /\ UNCHANGED <<pageVars, sockVars, loopVars, brain, cancelled>>

ReaderEndSpeech(s) == reader[s] = "hearing" /\ ReaderEmits(s, "end_speech", "ended")
ReaderFinal(s) == reader[s] \in {"hearing", "ended"} /\ ReaderEmits(s, "final", "exited")
ReaderError(s) == reader[s] \in {"hearing", "ended"} /\ ReaderEmits(s, "error", "exited")

Reader(s) == ReaderEndSpeech(s) \/ ReaderFinal(s) \/ ReaderError(s)

----------------------------------------------------------------------------

Init ==
    /\ page = "opening" /\ pageStatus = "active" /\ asked = 0
    /\ signals = 0 /\ playing = 0 /\ drainLeft = 0
    /\ up = <<>> /\ down = <<>> /\ sock = "open" /\ inbox = <<>>
    /\ loop = "boot" /\ turn = 0 /\ said = 0 /\ status = "active" /\ heard = 0
    /\ window = FALSE
    /\ reader = [s \in Turns |-> "none"]
    /\ events = [s \in Turns |-> <<>>]
    /\ brain = "active"
    /\ cancelled = FALSE

Next == \/ Page \/ UserEnds \/ ControlRead \/ SockDrops \/ Cancel \/ Loop
        \/ \E s \in Turns : Reader(s)

Spec == Init /\ [][Next]_vars

(* Page, socket and loop run on, and a call that is cancelled closes its    *)
(* socket.  The loop's waits end: listening and speaking by their           *)
(* deadlines; the brain answers or its connection breaks, since the client  *)
(* of brainclient.go has no deadline of its own.  Nothing is assumed of the *)
(* recognizer, the user or the network.                                     *)
FairSpec == /\ Spec
            /\ WF_vars(Page) /\ WF_vars(ControlRead) /\ WF_vars(Loop)
            /\ WF_vars(SockDrops /\ cancelled)

----------------------------------------------------------------------------
(* Properties.                                                              *)

Statuses == {"active", "over"}

TurnTypeOK ==
    /\ page \in Live \cup {"ending", "closing", "ended"}
    /\ pageStatus \in Statuses /\ status \in Statuses /\ brain \in Statuses
    /\ asked \in 0..MaxTurns /\ turn \in 0..asked /\ signals \in 0..1
    /\ playing \in Nat /\ drainLeft \in 0..playing /\ said \in 0..MaxChunks
    /\ up \in Seq({"start_turn", "end"}) /\ inbox \in Seq({"start_turn", "end"})
    /\ down \in Seq([kind : {"audio", "final", "agent_done", "error"},
                     turn : 0..MaxTurns, status : Statuses])
    /\ sock \in {"open", "closed"}
    /\ loop \in {"boot", "greeting", "done", "waiting", "dialing", "listening", "asking",
                 "speaking", "exited", "unbooted"}
    /\ heard \in 0..MaxTurns
    /\ window \in BOOLEAN /\ cancelled \in BOOLEAN
    /\ reader \in [Turns -> {"none", "hearing", "ended", "exited"}]
    /\ events \in [Turns -> Seq({"end_speech", "final", "error"} \X Turns)]

Holds(q, kind) == \E i \in 1..Len(q) : q[i].kind = kind

(* The microphone is never open while the agent is audible, "which fed the  *)
(* agent's own voice back into STT" (web/index.html:902-908): none of its   *)
(* audio is being streamed, on its way or still to be played.               *)
MicDeafToAgent ==
    window => playing = 0 /\ ~Holds(down, "audio") /\ ~Speaking

(* "control sent before agent_done" does not happen (control.go:61-66): a   *)
(* start_turn finds the loop waiting for it, or gone.                       *)
StartTurnExpected ==
    \A q \in {up, inbox} : \A i \in 1..Len(q) :
        q[i] = "start_turn" => loop \in {"waiting", "exited", "unbooted"}

(* Page and loop stay in step: a final answers the turn the page has open,  *)
(* and an agent_done is never left over for a later turn.                   *)
AnswersMatch ==
    page \in Live =>
        /\ \A i \in 1..Len(down) :
               down[i].kind = "final" => page = "turn" /\ down[i].turn = asked
        /\ page = "turn" => signals = 0
        /\ signals > 0 => ~Holds(down, "agent_done")

(* What a turn asks the brain was heard in that turn: a late event of an    *)
(* abandoned stream goes nowhere.                                           *)
OwnTranscript == loop = "asking" => heard \in {0, turn}

(* Page and loop hold a conversation in turns (Conversation.tla): the next  *)
(* turn is opened when the agent has been heard to its end, is taken up     *)
(* once, and is closed by its own answer or given up, though start_turn and *)
(* agent_done carry no number (web/index.html, turnloop.go).                *)
Closed == IF page = "turn" THEN asked - 1 ELSE asked
Stage == IF loop \in {"dialing", "listening"} THEN "user"
         ELSE IF loop = "asking" THEN "brain" ELSE "agent"
Audible == Speaking \/ playing > 0 \/ Holds(down, "audio")
Answers == {down[i].turn : i \in {j \in 1..Len(down) : down[j].kind = "final"}}

Conv == INSTANCE Conversation
          WITH opened <- asked, closed <- Closed, taken <- turn, stage <- Stage,
               mic <- window, audible <- Audible, answers <- Answers

TakesTurns == Conv!Spec

(* The page is never left waiting for a message that does not come, unless  *)
(* the socket or the bootstrap has failed.                                  *)
PageNeverHangs ==
    \A w \in {"greeting", "turn", "reply"} :
        page = w ~> page # w \/ sock = "closed" \/ loop = "unbooted"

(* A dropped socket ends the loop, in whatever turn (turnloop.go:45-46).    *)
LoopUnwinds == sock = "closed" ~> loop \in {"exited", "unbooted"}

(* The brain is not reached: "it sends a control error ... + agent_done,    *)
(* and the call continues" (docs/GATEWAY.md:95-97).                         *)
CallContinues == [][page = "turn" /\ OnError => page' # "ending"]_vars

=============================================================================
