---------------------------- MODULE GatewayCall ----------------------------
(****************************************************************************)
(* The life of a call in the media gateway: registry, offer, control        *)
(* socket, turn loop, peer, recorder stream and the ordered teardown of     *)
(* internal/gateway/call/call.go, with the handlers of cmd/gateway/main.go  *)
(* that run them.  All of it concerns one session id, under which several   *)
(* calls may live one after another.                                        *)
(*                                                                          *)
(* Every goroutine has its own program counter: the offer handlers, the     *)
(* control handlers, the turn loop each of these starts, the media readers, *)
(* the goroutines in Registry.End and the one among them that runs          *)
(* Call.Close, whose position is the call's stage.  What a turn says and    *)
(* hears is left out; what it holds open and what it may still send to the  *)
(* recorder is kept.                                                        *)
(****************************************************************************)
EXTENDS Integers, FiniteSets

CONSTANTS Calls,        \* the Call objects, one per Registry.Start
          Offers,       \* the /offer requests that can be open at a time
          Controls,     \* the control sockets the browser opens
          Closers,      \* the /close requests that can be open at a time
          None,         \* no call, no socket
          InboxSize,    \* the capacity of Conn.inbox
          BrowserKeepsOneSocket  \* web/index.html opens /control once per call

ASSUME GatewayAssumption == /\ None \notin Calls \cup Controls
                            /\ Calls \cap Closers = {}
                            /\ InboxSize \in Nat
                            /\ BrowserKeepsOneSocket \in BOOLEAN

VARIABLES registry,     \* Registry.m at the session's id
          offers,       \* per offer: the call that its Start is creating
          stage,        \* per call: what Close does next, see Stages
          conn,         \* per call: Call.conn
          loopDone,     \* per call: Call.loopDone, named by the loop that closes it
          waitFor,      \* per call: the loopDone that waitLoop has read
          peer,         \* per call: the connection state of its peer
          reading,      \* per call: the tracks that have a read goroutine
          mic,          \* per call: the loop whose turn owns Peer.mic
          handler,      \* per socket: where controlHandler stands
          callOf,       \* per socket: the call the handler has found
          sock,         \* per socket: its connection
          inbox,        \* per socket: the messages in Conn.inbox
          loop,         \* per socket: where the turn loop it started stands
          loopConn,     \* per socket: Deps.Conn of that loop
          ender,        \* per goroutine in Registry.End: where it stands
          ending        \* per goroutine in Registry.End: the call it has found

callVars    == <<stage, conn, loopDone, waitFor>>
peerVars    == <<peer, reading, mic>>
controlVars == <<handler, callOf>>
sockVars    == <<sock, inbox>>
loopVars    == <<loop, loopConn>>
endVars     == <<ender, ending>>
vars == <<registry, offers, callVars, peerVars, controlVars, sockVars, loopVars, endVars>>

----------------------------------------------------------------------------

(* From "live" on: the teardown step of Call.Close that is next.  "wait" is *)
(* on the loop, "readers" on the media readers; at "rec" the stream is      *)
(* still open, at "finalize" it is closed.                                  *)
Stages == {"unborn", "starting", "live", "conn", "loop", "wait", "peer", "readers", "rec",
           "finalize", "done"}

(* listen: the window is "opening", open ("listening"), "flushing" between  *)
(* END_SPEECH and the transcript, "closing" once the recognizer is done.    *)
LoopSteps == {"none", "start", "booting", "speaking", "waiting", "opening", "listening",
              "flushing", "closing", "asking", "exited"}

Tracks == {"audio", "video"}

(* Goroutines in Registry.End: one per /close request, and one per call,    *)
(* spawned by the terminal state of its peer (closeOnce: at most one).      *)
Enders == Closers \cup Calls

(* Call.ctx is cancelled by the first step of Close.                        *)
Cancelled(c) == stage[c] # "live"

(* A loop that has got past its bootstrap request may voice a text, and     *)
(* every chunk of it goes to the recorder first (Sink.WriteAgentAudio).     *)
CanSpeak(k) == loop[k] \notin {"none", "start", "exited"}

(* onClose, at most once per peer                                           *)
TerminalState(c) ==
    ender' = IF ender[c] = "idle" THEN [ender EXCEPT ![c] = "called"] ELSE ender

----------------------------------------------------------------------------
(* POST /offer.  A session that is known is re-offered on its peer, which   *)
(* changes nothing here; otherwise Start makes the call and, when the ICE   *)
(* candidates are gathered, registers it.                                   *)

OfferStart(o, c) ==
    /\ registry = None
    /\ offers[o] = None
    /\ stage[c] = "unborn"
    /\ offers' = [offers EXCEPT ![o] = c]
    /\ stage' = [stage EXCEPT ![c] = "starting"]
    /\ peer' = [peer EXCEPT ![c] = "open"]
    /\ UNCHANGED <<registry, conn, loopDone, waitFor, reading, mic, controlVars, sockVars,
                   loopVars, endVars>>

OfferRegister(o) ==
    /\ offers[o] # None
    /\ registry' = offers[o]
    /\ stage' = [stage EXCEPT ![offers[o]] = "live"]
    /\ offers' = [offers EXCEPT ![o] = None]
    /\ UNCHANGED <<conn, loopDone, waitFor, peerVars, controlVars, sockVars, loopVars, endVars>>

(* peer.New fails: the recorder stream is closed again, and the peer if     *)
(* there is one.  Its callback then finds nothing under the id, or ends     *)
(* what is there.                                                           *)
OfferFail(o) ==
    /\ offers[o] # None
    /\ stage' = [stage EXCEPT ![offers[o]] = "done"]
    /\ peer' = [peer EXCEPT ![offers[o]] = "closed"]
    /\ TerminalState(offers[o]) \/ UNCHANGED ender
    /\ offers' = [offers EXCEPT ![o] = None]
    /\ UNCHANGED <<registry, conn, loopDone, waitFor, reading, mic, controlVars, sockVars,
                   loopVars, ending>>

----------------------------------------------------------------------------
(* GET /control.  The handler suspends in the WebSocket handshake, then     *)
(* attaches the socket and starts the turn loop.                            *)

ControlLookup(k) ==
    /\ handler[k] = "idle"
    /\ registry # None
    /\ BrowserKeepsOneSocket => \A other \in Controls : callOf[other] # registry
    /\ handler' = [handler EXCEPT ![k] = "upgrading"]
    /\ callOf' = [callOf EXCEPT ![k] = registry]
    /\ UNCHANGED <<registry, offers, callVars, peerVars, sockVars, loopVars, endVars>>

ControlRefused(k) ==
    /\ handler[k] = "upgrading"
    /\ handler' = [handler EXCEPT ![k] = "idle"]
    /\ callOf' = [callOf EXCEPT ![k] = None]
    /\ UNCHANGED <<registry, offers, callVars, peerVars, sockVars, loopVars, endVars>>

AttachControl(k) ==
    /\ handler[k] = "upgrading"
    /\ handler' = [handler EXCEPT ![k] = "attached"]
    /\ sock' = [sock EXCEPT ![k] = "open"]
    /\ conn' = [conn EXCEPT ![callOf[k]] = k]
    /\ UNCHANGED <<registry, offers, stage, loopDone, waitFor, peerVars, callOf, inbox,
                   loopVars, endVars>>

StartTurnLoop(k) ==
    /\ handler[k] = "attached"
    /\ handler' = [handler EXCEPT ![k] = "started"]
    /\ loopDone' = [loopDone EXCEPT ![callOf[k]] = k]
    /\ loop' = [loop EXCEPT ![k] = "start"]
    /\ UNCHANGED <<registry, offers, stage, conn, waitFor, peerVars, callOf, sockVars,
                   loopConn, endVars>>

(* Faulty variant: the limit is one message more than the inbox holds.      *)
BrowserSendsUnbounded(k) ==
    /\ sock[k] = "open"
    /\ inbox[k] <= InboxSize
    /\ inbox' = [inbox EXCEPT ![k] = @ + 1]
    /\ UNCHANGED <<registry, offers, callVars, peerVars, controlVars, sock, loopVars, endVars>>

(* A start_turn or an end; one that finds the inbox full is dropped.        *)
BrowserSends(k) ==
    /\ sock[k] = "open"
    /\ inbox[k] < InboxSize
    /\ inbox' = [inbox EXCEPT ![k] = @ + 1]
    /\ UNCHANGED <<registry, offers, callVars, peerVars, controlVars, sock, loopVars, endVars>>

BrowserLeaves(k) ==
    /\ sock[k] = "open"
    /\ sock' = [sock EXCEPT ![k] = "closed"]
    /\ UNCHANGED <<registry, offers, callVars, peerVars, controlVars, inbox, loopVars, endVars>>

----------------------------------------------------------------------------
(* The turn loop: turnloop.Run on the goroutine of StartTurnLoop.           *)

LoopGoes(k, steps) == \E step \in steps : loop' = [loop EXCEPT ![k] = step]

(* Faulty variant: the bootstrap request is not bound to the call's ctx.    *)
LoopStartUnbound(k) ==
    /\ loop[k] = "start"
    /\ loopConn' = [loopConn EXCEPT ![k] = conn[callOf[k]]]
    /\ LoopGoes(k, {"booting"})
    /\ UNCHANGED <<registry, offers, callVars, peerVars, controlVars, sockVars, endVars>>

(* The deps are read, then Brain.Get is sent: not at all when the ctx is    *)
(* already cancelled.  One that was sent may be answered in spite of it.    *)
LoopStart(k) ==
    /\ loop[k] = "start"
    /\ loopConn' = [loopConn EXCEPT ![k] = conn[callOf[k]]]
    /\ LoopGoes(k, {IF Cancelled(callOf[k]) THEN "exited" ELSE "booting"})
    /\ UNCHANGED <<registry, offers, callVars, peerVars, controlVars, sockVars, endVars>>

(* the snapshot has come or not; the greeting has a text or not             *)
LoopBoot(k) ==
    /\ loop[k] = "booting"
    /\ LoopGoes(k, {"speaking", "waiting", "exited"})
    /\ UNCHANGED <<registry, offers, callVars, peerVars, controlVars, sockVars, loopConn, endVars>>

(* Speak has returned: all said, cut short, or the socket is gone.  The     *)
(* loop goes on while the status it was given is "active".                  *)
LoopSpoken(k) ==
    /\ loop[k] = "speaking"
    /\ LoopGoes(k, {"waiting", "exited"})
    /\ UNCHANGED <<registry, offers, callVars, peerVars, controlVars, sockVars, loopConn, endVars>>

(* the ctx is cancelled, or the socket is gone and its inbox read           *)
LoopLeave(k) ==
    /\ loop[k] = "waiting"
    /\ Cancelled(callOf[k]) \/ (sock[loopConn[k]] = "closed" /\ inbox[loopConn[k]] = 0)
    /\ LoopGoes(k, {"exited"})
    /\ UNCHANGED <<registry, offers, callVars, peerVars, controlVars, sockVars, loopConn, endVars>>

LoopTake(k) ==
    /\ loop[k] = "waiting"
    /\ inbox[loopConn[k]] > 0
    /\ inbox' = [inbox EXCEPT ![loopConn[k]] = @ - 1]
    /\ UNCHANGED <<registry, offers, callVars, peer, reading, controlVars, sock, loopConn, endVars>>

LoopEndMessage(k) == LoopTake(k) /\ LoopGoes(k, {"exited"}) /\ UNCHANGED mic

LoopTurn(k) == LoopTake(k) /\ LoopGoes(k, {"opening"}) /\ UNCHANGED mic

(* Peer.SetMic, called by the turn's listen                                 *)
SetMic(k, owner) ==
    /\ mic' = [mic EXCEPT ![callOf[k]] = owner]
    /\ UNCHANGED <<registry, offers, callVars, peer, reading, controlVars, sockVars, loopConn,
                   endVars>>

LoopOpensWindow(k) ==
    /\ loop[k] = "opening"
    /\ SetMic(k, k)
    /\ LoopGoes(k, {"listening"})

(* END_SPEECH while STT.Run goes on: the window closes before the flush     *)
LoopEndSpeech(k) ==
    /\ loop[k] = "listening"
    /\ SetMic(k, None)
    /\ LoopGoes(k, {"flushing"})

(* STT.Run returns: the final or an error has come, before END_SPEECH or    *)
(* after it, or the 15 s are over, or the ctx is cancelled.                 *)
LoopRunReturns(k) ==
    /\ loop[k] \in {"listening", "flushing"}
    /\ LoopGoes(k, {"closing"})
    /\ UNCHANGED <<registry, offers, callVars, peerVars, controlVars, sockVars, loopConn, endVars>>

(* Faulty variant: only END_SPEECH closes the window.                       *)
LoopLeavesWindow(k) ==
    /\ loop[k] = "closing"
    /\ SetMic(k, mic[callOf[k]])
    /\ LoopGoes(k, {"asking"})

LoopClosesWindow(k) ==
    /\ loop[k] = "closing"
    /\ SetMic(k, None)
    /\ LoopGoes(k, {"asking"})

Listen(k) == \/ LoopOpensWindow(k) \/ LoopEndSpeech(k) \/ LoopRunReturns(k)
             \/ LoopClosesWindow(k)

(* the brain's reply to /turn, or none                                      *)
LoopAnswered(k) ==
    /\ loop[k] = "asking"
    /\ LoopGoes(k, {"speaking", "waiting", "exited"})
    /\ UNCHANGED <<registry, offers, callVars, peerVars, controlVars, sockVars, loopConn, endVars>>

Loop(k) == \/ LoopStart(k) \/ LoopBoot(k) \/ LoopSpoken(k) \/ LoopLeave(k)
           \/ LoopEndMessage(k) \/ LoopTurn(k) \/ Listen(k) \/ LoopAnswered(k)

----------------------------------------------------------------------------
(* The peer.  Tracks come, and the connection fails, once the browser has   *)
(* the answer, that is once the call is registered.                         *)

OnTrack(c, t) ==
    /\ stage[c] \notin {"unborn", "starting"}
    /\ peer[c] = "open"
    /\ reading' = [reading EXCEPT ![c] = @ \cup {t}]
    /\ UNCHANGED <<registry, offers, callVars, peer, mic, controlVars, sockVars, loopVars, endVars>>

(* The read fails; the video reader has then sent its last access unit.     *)
ReaderExits(c, t) ==
    /\ t \in reading[c]
    /\ peer[c] # "open"
    /\ reading' = [reading EXCEPT ![c] = @ \ {t}]
    /\ UNCHANGED <<registry, offers, callVars, peer, mic, controlVars, sockVars, loopVars, endVars>>

(* Faulty variant: only a peer that is closed counts as gone.               *)
PeerFailsUnheard(c) ==
    /\ stage[c] \notin {"unborn", "starting"}
    /\ peer[c] = "open"
    /\ peer' = [peer EXCEPT ![c] = "failed"]
    /\ UNCHANGED <<registry, offers, callVars, reading, mic, controlVars, sockVars, loopVars,
                   endVars>>

PeerFails(c) ==
    /\ stage[c] \notin {"unborn", "starting"}
    /\ peer[c] = "open"
    /\ peer' = [peer EXCEPT ![c] = "failed"]
    /\ TerminalState(c)
    /\ UNCHANGED <<registry, offers, callVars, reading, mic, controlVars, sockVars, loopVars,
                   ending>>

----------------------------------------------------------------------------
(* Registry.End, called by /close and by the callback of a peer.            *)

(* A goroutine that finds no call under the id returns at once.             *)
EndLookup(e) ==
    /\ ender[e] = IF e \in Closers THEN "idle" ELSE "called"
    /\ IF registry = None
       THEN ender' = [ender EXCEPT ![e] = IF e \in Closers THEN "idle" ELSE "done"]
       ELSE ender' = [ender EXCEPT ![e] = "closing"]
    /\ ending' = [ending EXCEPT ![e] = registry]
    /\ UNCHANGED <<registry, offers, callVars, peerVars, controlVars, sockVars, loopVars>>

(* The first to reach once.Do runs Close, beginning with cancel(); the      *)
(* others wait in it until Close is done.                                   *)
EndClose(e) ==
    /\ ender[e] = "closing"
    /\ stage[ending[e]] = "live"
    /\ stage' = [stage EXCEPT ![ending[e]] = "conn"]
    /\ UNCHANGED <<registry, offers, conn, loopDone, waitFor, peerVars, controlVars, sockVars,
                   loopVars, endVars>>

(* Remove deletes the id, whichever call it names by now.                   *)
EndRemove(e) ==
    /\ ender[e] = "closing"
    /\ stage[ending[e]] = "done"
    /\ registry' = None
    /\ ender' = [ender EXCEPT ![e] = IF e \in Closers THEN "idle" ELSE "done"]
    /\ ending' = [ending EXCEPT ![e] = None]
    /\ UNCHANGED <<offers, callVars, peerVars, controlVars, sockVars, loopVars>>

----------------------------------------------------------------------------
(* Call.Close, once per call, after cancel().                               *)

StageGoes(c, from, to) == stage[c] = from /\ stage' = [stage EXCEPT ![c] = to]

CloseConn(c) ==
    /\ StageGoes(c, "conn", "loop")
    /\ sock' = IF conn[c] = None THEN sock ELSE [sock EXCEPT ![conn[c]] = "closed"]
    /\ UNCHANGED <<registry, offers, conn, loopDone, waitFor, peerVars, controlVars, inbox,
                   loopVars, endVars>>

ReadLoopDone(c) ==
    /\ StageGoes(c, "loop", "wait")
    /\ waitFor' = [waitFor EXCEPT ![c] = loopDone[c]]
    /\ UNCHANGED <<registry, offers, conn, loopDone, peerVars, controlVars, sockVars, loopVars,
                   endVars>>

WaitLoop(c) ==
    /\ StageGoes(c, "wait", "peer")
    /\ waitFor[c] # None => loop[waitFor[c]] = "exited"
    /\ UNCHANGED <<registry, offers, conn, loopDone, waitFor, peerVars, controlVars, sockVars,
                   loopVars, endVars>>

(* Faulty variant: the readers are waited for before the peer is closed.    *)
ClosePeerAfterReaders(c) ==
    /\ reading[c] = {}
    /\ StageGoes(c, "peer", "readers")
    /\ peer' = [peer EXCEPT ![c] = "closed"]
    /\ TerminalState(c)
    /\ UNCHANGED <<registry, offers, conn, loopDone, waitFor, reading, mic, controlVars,
                   sockVars, loopVars, ending>>

ClosePeer(c) ==
    /\ StageGoes(c, "peer", "readers")
    /\ peer' = [peer EXCEPT ![c] = "closed"]
    /\ TerminalState(c)
    /\ UNCHANGED <<registry, offers, conn, loopDone, waitFor, reading, mic, controlVars,
                   sockVars, loopVars, ending>>

WaitReaders(c) ==
    /\ StageGoes(c, "readers", "rec")
    /\ reading[c] = {}
    /\ UNCHANGED <<registry, offers, conn, loopDone, waitFor, peerVars, controlVars, sockVars,
                   loopVars, endVars>>

CloseRecorder(c) ==
    /\ StageGoes(c, "rec", "finalize")
    /\ UNCHANGED <<registry, offers, conn, loopDone, waitFor, peerVars, controlVars, sockVars,
                   loopVars, endVars>>

Finalize(c) ==
    /\ StageGoes(c, "finalize", "done")
    /\ UNCHANGED <<registry, offers, conn, loopDone, waitFor, peerVars, controlVars, sockVars,
                   loopVars, endVars>>

Close(c) == \/ CloseConn(c) \/ ReadLoopDone(c) \/ WaitLoop(c) \/ ClosePeer(c)
            \/ WaitReaders(c) \/ CloseRecorder(c) \/ Finalize(c)

----------------------------------------------------------------------------

Init ==
    /\ registry = None
    /\ offers = [o \in Offers |-> None]
    /\ stage = [c \in Calls |-> "unborn"]
    /\ conn = [c \in Calls |-> None]
    /\ loopDone = [c \in Calls |-> None]
    /\ waitFor = [c \in Calls |-> None]
    /\ peer = [c \in Calls |-> "none"]
    /\ reading = [c \in Calls |-> {}]
    /\ mic = [c \in Calls |-> None]
    /\ handler = [k \in Controls |-> "idle"]
    /\ callOf = [k \in Controls |-> None]
    /\ sock = [k \in Controls |-> "none"]
    /\ inbox = [k \in Controls |-> 0]
    /\ loop = [k \in Controls |-> "none"]
    /\ loopConn = [k \in Controls |-> None]
    /\ ender = [e \in Enders |-> "idle"]
    /\ ending = [e \in Enders |-> None]

Next ==
    \/ \E o \in Offers : (\E c \in Calls : OfferStart(o, c)) \/ OfferRegister(o) \/ OfferFail(o)
    \/ \E k \in Controls : \/ ControlLookup(k) \/ ControlRefused(k) \/ AttachControl(k)
                           \/ StartTurnLoop(k) \/ BrowserSends(k) \/ BrowserLeaves(k)
                           \/ Loop(k)
    \/ \E c \in Calls : PeerFails(c) \/ Close(c)
    \/ \E c \in Calls, t \in Tracks : OnTrack(c, t) \/ ReaderExits(c, t)
    \/ \E e \in Enders : EndLookup(e) \/ EndClose(e) \/ EndRemove(e)

Spec == Init /\ [][Next]_vars

(* The goroutines run on.  Of a turn loop this is asked only once its ctx   *)
(* is cancelled, which ends its request to the brain, the recognizer and    *)
(* Speak: before that a request to the brain may take for ever.  The        *)
(* recorder answers the half-close and the finalize request, or its         *)
(* connection breaks.  Nothing is assumed of the browser, nor that /close   *)
(* is ever called.                                                          *)
Fairness ==
    /\ \A k \in Controls : WF_vars(Loop(k) /\ Cancelled(callOf[k]))
    /\ \A c \in Calls : WF_vars(Close(c))
    /\ \A c \in Calls, t \in Tracks : WF_vars(ReaderExits(c, t))
    /\ \A e \in Enders : WF_vars(EndClose(e)) /\ WF_vars(EndRemove(e))
    /\ \A c \in Calls : WF_vars(EndLookup(c))

FairSpec == Spec /\ Fairness

----------------------------------------------------------------------------
(* Properties.                                                              *)

TypeOK ==
    /\ registry \in Calls \cup {None}
    /\ offers \in [Offers -> Calls \cup {None}]
    /\ stage \in [Calls -> Stages]
    /\ conn \in [Calls -> Controls \cup {None}]
    /\ loopDone \in [Calls -> Controls \cup {None}]
    /\ waitFor \in [Calls -> Controls \cup {None}]
    /\ peer \in [Calls -> {"none", "open", "failed", "closed"}]
    /\ reading \in [Calls -> SUBSET Tracks]
    /\ mic \in [Calls -> Controls \cup {None}]
    /\ handler \in [Controls -> {"idle", "upgrading", "attached", "started"}]
    /\ callOf \in [Controls -> Calls \cup {None}]
    /\ sock \in [Controls -> {"none", "open", "closed"}]
    /\ inbox \in [Controls -> 0..InboxSize]
    /\ loop \in [Controls -> LoopSteps]
    /\ loopConn \in [Controls -> Controls \cup {None}]
    /\ ender \in [Enders -> {"idle", "called", "closing", "done"}]
    /\ ending \in [Enders -> Calls \cup {None}]

(* The order of Close keeps its word: once the loop has been waited for no  *)
(* loop of the call can voice anything ("there is no agent producer left",  *)
(* call.go:64-65), and when the stream is closed no media reader is left    *)
(* either, so that no frame is sent on the closed channel.  This includes   *)
(* the loop of a socket that was attached while Close was under way.        *)
NoProducerLeft ==
    \A c \in Calls :
        /\ stage[c] \in {"peer", "readers", "rec", "finalize", "done"} =>
               \A k \in Controls : callOf[k] = c => ~CanSpeak(k)
        /\ stage[c] \in {"rec", "finalize", "done"} => reading[c] = {}

(* "STT hears the mic only during a turn, never the idle audio between      *)
(* turns" (peer.go:41-42).  A window is open for nobody but a loop of its   *)
(* own call that is in listen, before END_SPEECH: neither while the         *)
(* transcript or the brain is waited for nor while the agent speaks,        *)
(* whichever way the turn before ended (turnloop.go:130, 139), and the loop *)
(* that listens is not deaf.  Once Close has waited for the loop, the audio *)
(* that the readers still read feeds nothing, also when the teardown came   *)
(* in the middle of a turn.                                                 *)
MicFollowsTurn ==
    /\ \A c \in Calls : mic[c] # None =>
           /\ callOf[mic[c]] = c
           /\ loop[mic[c]] \in {"listening", "closing"}
           /\ stage[c] \notin {"peer", "readers", "rec", "finalize", "done"}
    /\ \A k \in Controls : loop[k] = "listening" => mic[callOf[k]] = k

(* Not so in this code when a second call of the id starts while two        *)
(* goroutines are in End: a call stays registered until it is torn down, so *)
(* that a /close or a disconnect still finds it: "Idempotent: Call.Close is once-guarded and   *)
(* Remove of an absent id is a no-op" (call.go:161-162).                    *)
RegisteredUntilDone ==
    [][registry # None /\ registry' # registry => stage[registry] = "done"]_vars

(* "An unexpected disconnect tears the call down without waiting for        *)
(* /close" (peer.go:67-68), to the last step, and the id is free again.     *)
DisconnectTearsDown ==
    \A c \in Calls : peer[c] = "failed" ~> stage[c] = "done" /\ registry # c

(* Nobody waits for ever: a goroutine in End, the first or one that found   *)
(* the teardown under way, returns whatever the loop was doing.             *)
EndReturns ==
    \A e \in Enders : ender[e] = "closing" ~> ender[e] # "closing"

=============================================================================
