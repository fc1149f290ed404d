------------------------- MODULE GatewayCallProofs -------------------------
(****************************************************************************)
(* Proofs about the life of a call in the media gateway, for any number of  *)
(* calls, offers, control sockets and goroutines in Registry.End.           *)
(****************************************************************************)
EXTENDS GatewayCall, TLAPS

----------------------------------------------------------------------------
(* Types.                                                                   *)

(* What a socket's handler and its loop have found on their way.            *)
Links ==
    \A k \in Controls :
        /\ handler[k] = "idle" <=> callOf[k] = None
        /\ handler[k] \in {"attached", "started"} => conn[callOf[k]] \in Controls
        /\ loop[k] # "none" => handler[k] = "started"
        /\ CanSpeak(k) => loopConn[k] \in Controls

TypeInv == TypeOK /\ Links

LEMMA TypeInit == Init => TypeInv
BY GatewayAssumption DEF Init, TypeInv, Links, CanSpeak, TypeOK, Stages, LoopSteps

LEMMA TypeOffer ==
    ASSUME TypeOK, NEW o \in Offers,
           (\E c \in Calls : OfferStart(o, c)) \/ OfferRegister(o) \/ OfferFail(o)
    PROVE  TypeOK'
<1>1. ASSUME NEW c \in Calls, OfferStart(o, c) PROVE TypeOK'
      BY <1>1 DEF OfferStart, TypeOK, Stages, controlVars, sockVars, loopVars, endVars
<1>2. CASE OfferRegister(o)
      BY <1>2 DEF OfferRegister, TypeOK, Stages, peerVars, controlVars, sockVars, loopVars,
                  endVars
<1>3. CASE OfferFail(o)
      BY <1>3 DEF OfferFail, TerminalState, Enders, TypeOK, Stages, controlVars, sockVars,
                  loopVars
<1> QED BY <1>1, <1>2, <1>3

LEMMA TypeControl ==
    ASSUME TypeOK, NEW k \in Controls,
           \/ ControlLookup(k) \/ ControlRefused(k) \/ AttachControl(k) \/ StartTurnLoop(k)
           \/ BrowserSends(k) \/ BrowserLeaves(k)
    PROVE  TypeOK'
<1>1. CASE ControlLookup(k) \/ ControlRefused(k)
      BY <1>1 DEF ControlLookup, ControlRefused, TypeOK, callVars, peerVars, sockVars,
                  loopVars, endVars
<1>2. CASE AttachControl(k)
      BY <1>2 DEF AttachControl, TypeOK, peerVars, loopVars, endVars
<1>3. CASE StartTurnLoop(k)
      BY <1>3 DEF StartTurnLoop, TypeOK, LoopSteps, peerVars, sockVars, endVars
<1>4. CASE BrowserSends(k)
  <2>1. inbox' \in [Controls -> 0..InboxSize]
        BY <1>4, GatewayAssumption DEF BrowserSends, TypeOK
  <2> QED BY <1>4, <2>1, Zenon
          DEF BrowserSends, TypeOK, callVars, peerVars, controlVars, loopVars, endVars
<1>5. CASE BrowserLeaves(k)
      BY <1>5 DEF BrowserLeaves, TypeOK, callVars, peerVars, controlVars, loopVars, endVars
<1> QED BY <1>1, <1>2, <1>3, <1>4, <1>5

LEMMA TypeLoop ==
    ASSUME TypeInv, NEW k \in Controls, Loop(k)
    PROVE  TypeOK'
<1> USE DEF TypeInv
<1>1. CASE LoopStart(k)
  <2>1. conn[callOf[k]] \in Controls
        BY <1>1 DEF LoopStart, Links
  <2> QED BY <1>1, <2>1 DEF LoopStart, LoopGoes, TypeOK, LoopSteps, callVars, peerVars,
                            controlVars, sockVars, endVars
<1>2. CASE LoopBoot(k) \/ LoopSpoken(k) \/ LoopLeave(k) \/ LoopAnswered(k)
      BY <1>2 DEF LoopBoot, LoopSpoken, LoopLeave, LoopAnswered, LoopGoes, TypeOK, LoopSteps,
                  callVars, peerVars, controlVars, sockVars, endVars
<1>3. ASSUME LoopTake(k) PROVE inbox' \in [Controls -> 0..InboxSize]
  <2>1. loopConn[k] \in Controls
        BY <1>3 DEF LoopTake, Links, CanSpeak
  <2>2. inbox[loopConn[k]] - 1 \in 0..InboxSize
        BY <1>3, <2>1, GatewayAssumption DEF LoopTake, TypeOK
  <2> QED BY <1>3, <2>1, <2>2 DEF LoopTake, TypeOK
<1>4. CASE LoopEndMessage(k) \/ LoopTurn(k)
      BY <1>3, <1>4 DEF LoopEndMessage, LoopTurn, LoopTake, LoopGoes, TypeOK, LoopSteps,
                  callVars, controlVars, endVars
<1>5. CASE LoopOpensWindow(k) \/ LoopEndSpeech(k) \/ LoopClosesWindow(k)
  <2>1. loop' \in [Controls -> LoopSteps]
        BY <1>5 DEF LoopOpensWindow, LoopEndSpeech, LoopClosesWindow, LoopGoes, TypeOK, LoopSteps
  <2>2. mic' \in [Calls -> Controls \cup {None}]
        BY <1>5 DEF LoopOpensWindow, LoopEndSpeech, LoopClosesWindow, SetMic, TypeOK
  <2> QED BY <1>5, <2>1, <2>2
          DEF LoopOpensWindow, LoopEndSpeech, LoopClosesWindow, SetMic, TypeOK, callVars,
              controlVars, sockVars, endVars
<1>6. CASE LoopRunReturns(k)
      BY <1>6 DEF LoopRunReturns, LoopGoes, TypeOK, LoopSteps, callVars, peerVars, controlVars,
                  sockVars, endVars
<1> QED BY <1>1, <1>2, <1>4, <1>5, <1>6 DEF Loop, Listen

LEMMA TypePeer ==
    ASSUME TypeOK, NEW c \in Calls,
           PeerFails(c) \/ \E t \in Tracks : OnTrack(c, t) \/ ReaderExits(c, t)
    PROVE  TypeOK'
BY DEF PeerFails, OnTrack, ReaderExits, TerminalState, Enders, TypeOK, callVars, controlVars,
       sockVars, loopVars, endVars

LEMMA TypeClose ==
    ASSUME TypeOK, NEW c \in Calls, Close(c)
    PROVE  TypeOK'
<1>1. CASE CloseConn(c)
      BY <1>1 DEF CloseConn, StageGoes, TypeOK, Stages, peerVars, controlVars, loopVars, endVars
<1>2. CASE ClosePeer(c)
      BY <1>2 DEF ClosePeer, StageGoes, TerminalState, Enders, TypeOK, Stages, controlVars,
                  sockVars, loopVars
<1>3. CASE \/ ReadLoopDone(c) \/ WaitLoop(c) \/ WaitReaders(c) \/ CloseRecorder(c)
           \/ Finalize(c)
      BY <1>3 DEF ReadLoopDone, WaitLoop, WaitReaders, CloseRecorder, Finalize, StageGoes,
                  TypeOK, Stages, peerVars, controlVars, sockVars, loopVars, endVars
<1> QED BY <1>1, <1>2, <1>3 DEF Close

LEMMA TypeEnd ==
    ASSUME TypeOK, NEW e \in Enders, EndLookup(e) \/ EndClose(e) \/ EndRemove(e)
    PROVE  TypeOK'
<1>1. CASE EndLookup(e) \/ EndRemove(e)
      BY <1>1 DEF EndLookup, EndRemove, TypeOK, callVars, peerVars, controlVars, sockVars,
                  loopVars
<1>2. CASE EndClose(e)
      BY <1>2 DEF EndClose, TypeOK, Stages, peerVars, controlVars, sockVars, loopVars, endVars
<1> QED BY <1>1, <1>2

LEMMA TypeStep == TypeInv /\ [Next]_vars => TypeOK'
<1> SUFFICES ASSUME TypeInv, [Next]_vars PROVE TypeOK'
    OBVIOUS
<1> USE DEF TypeInv
<1>1. CASE UNCHANGED vars
      BY <1>1 DEF TypeOK, vars, callVars, peerVars, controlVars, sockVars, loopVars, endVars
<1>2. CASE Next
      BY <1>2, TypeOffer, TypeControl, TypeLoop, TypePeer, TypeClose, TypeEnd DEF Next
<1> QED BY <1>1, <1>2

LEMMA LinksStep == TypeInv /\ [Next]_vars => Links'
<1> SUFFICES ASSUME TypeInv, [Next]_vars PROVE Links'
    OBVIOUS
<1> USE DEF TypeInv
<1>1. ASSUME UNCHANGED <<conn, controlVars, loopVars>> PROVE Links'
      BY <1>1 DEF Links, CanSpeak, controlVars, loopVars
<1>2. ASSUME NEW k \in Controls, ControlLookup(k) PROVE Links'
      BY <1>2, GatewayAssumption DEF ControlLookup, Links, CanSpeak, TypeOK, callVars, loopVars
<1>3. ASSUME NEW k \in Controls, ControlRefused(k) PROVE Links'
      BY <1>3 DEF ControlRefused, Links, CanSpeak, TypeOK, callVars, loopVars
<1>4. ASSUME NEW k \in Controls, AttachControl(k) PROVE Links'
      BY <1>4 DEF AttachControl, Links, CanSpeak, TypeOK, loopVars
<1>5. ASSUME NEW k \in Controls, StartTurnLoop(k) PROVE Links'
      BY <1>5 DEF StartTurnLoop, Links, CanSpeak, TypeOK
<1>6. ASSUME NEW k \in Controls, LoopStart(k) PROVE Links'
      BY <1>6 DEF LoopStart, LoopGoes, Links, CanSpeak, TypeOK, callVars, controlVars
<1>7. ASSUME NEW k \in Controls, Loop(k), ~LoopStart(k) PROVE Links'
  <2>1. /\ CanSpeak(k) /\ UNCHANGED <<conn, controlVars, loopConn>>
        /\ \E step \in LoopSteps \ {"none"} : loop' = [loop EXCEPT ![k] = step]
        BY <1>7 DEF Loop, LoopBoot, LoopSpoken, LoopLeave, LoopEndMessage, LoopTurn, LoopTake,
                    Listen, LoopOpensWindow, LoopEndSpeech, LoopRunReturns, LoopClosesWindow,
                    SetMic, LoopAnswered, LoopGoes, LoopSteps, CanSpeak, callVars
  <2> QED BY <2>1 DEF Links, CanSpeak, TypeOK, controlVars
<1>8. CASE UNCHANGED vars
      BY <1>1, <1>8 DEF vars, callVars
<1>9. ASSUME NEW o \in Offers, NEW c \in Calls, OfferStart(o, c) PROVE Links'
      BY <1>1, <1>9 DEF OfferStart
<1>10. ASSUME NEW k \in Controls, BrowserSends(k) \/ BrowserLeaves(k) PROVE Links'
       BY <1>1, <1>10 DEF BrowserSends, BrowserLeaves, callVars
<1>11. ASSUME NEW c \in Calls, NEW t \in Tracks,
              OnTrack(c, t) \/ ReaderExits(c, t)
       PROVE  Links'
       BY <1>1, <1>11 DEF OnTrack, ReaderExits, callVars
<1>12. ASSUME NEW c \in Calls, Close(c) PROVE Links'
       BY <1>1, <1>12 DEF Close, CloseConn, ReadLoopDone, WaitLoop, ClosePeer, WaitReaders,
                          CloseRecorder, Finalize
<1>13. ASSUME NEW e \in Enders, EndLookup(e) \/ EndClose(e) \/ EndRemove(e) PROVE Links'
       BY <1>1, <1>13 DEF EndLookup, EndClose, EndRemove, callVars
<1>14. ASSUME NEW o \in Offers, OfferRegister(o) \/ OfferFail(o) PROVE Links'
       BY <1>1, <1>14 DEF OfferRegister, OfferFail
<1>15. ASSUME NEW c \in Calls, PeerFails(c) PROVE Links'
       BY <1>1, <1>15 DEF PeerFails, callVars
<1> QED BY <1>2, <1>3, <1>4, <1>5, <1>6, <1>7, <1>8, <1>9, <1>10, <1>11, <1>12, <1>13, <1>14,
           <1>15 DEF Next

(* Every program counter, handle and queue of the gateway has its type in   *)
(* every state, whatever the number of calls and sockets (call.go:25-40).   *)
THEOREM GatewayTypeCorrect == Spec => []TypeOK
<1>1. TypeInv => TypeOK
      BY DEF TypeInv
<1>2. TypeInv /\ [Next]_vars => TypeInv'
      BY TypeStep, LinksStep DEF TypeInv
<1> QED BY TypeInit, <1>1, <1>2, PTL DEF Spec

----------------------------------------------------------------------------
(* The calls: an offer owns the call it creates until it registers it, and  *)
(* the peer is closed before its readers are waited for.                    *)

Early == {"unborn", "starting"}
PeerGone == {"readers", "rec", "finalize", "done"}
ReadersGone == {"rec", "finalize", "done"}

OffersInv ==
    /\ \A o \in Offers : offers[o] # None => stage[offers[o]] = "starting"
    /\ \A o1, o2 \in Offers : offers[o1] = offers[o2] /\ offers[o1] # None => o1 = o2

FoundInv ==
    /\ registry # None => stage[registry] \notin Early
    /\ \A k \in Controls : callOf[k] # None => stage[callOf[k]] \notin Early

ReadersInv ==
    \A c \in Calls : /\ stage[c] \in Early => reading[c] = {}
                     /\ stage[c] \in PeerGone => peer[c] = "closed"
                     /\ stage[c] \in ReadersGone => reading[c] = {}

CallInv == TypeInv /\ OffersInv /\ FoundInv /\ ReadersInv

LEMMA CallInvInit == Init => CallInv
BY TypeInit, GatewayAssumption
   DEF Init, CallInv, OffersInv, FoundInv, ReadersInv, Early, PeerGone, ReadersGone

(* What a step of the teardown does to the stage of its call.               *)
LEMMA CloseMoves ==
    ASSUME CallInv, NEW c \in Calls, Close(c)
    PROVE  /\ stage[c] \notin Early \cup {"live", "done"}
           /\ \E to \in Stages \ (Early \cup {"live"}) : stage' = [stage EXCEPT ![c] = to]
BY DEF Close, CloseConn, ReadLoopDone, WaitLoop, ClosePeer, WaitReaders, CloseRecorder,
       Finalize, StageGoes, Early, Stages

LEMMA OffersInvStep == CallInv /\ [Next]_vars => OffersInv'
<1> SUFFICES ASSUME CallInv, [Next]_vars PROVE OffersInv'
    OBVIOUS
<1> USE GatewayAssumption DEF CallInv, TypeInv, TypeOK
<1>1. ASSUME UNCHANGED offers,
             \A c \in Calls : stage[c] = "starting" => stage'[c] = "starting"
      PROVE  OffersInv'
      BY <1>1 DEF OffersInv
<1>2. ASSUME NEW o \in Offers, NEW c \in Calls, OfferStart(o, c) PROVE OffersInv'
      BY <1>2 DEF OfferStart, OffersInv
<1>3. ASSUME NEW o \in Offers, OfferRegister(o) \/ OfferFail(o) PROVE OffersInv'
      BY <1>3 DEF OfferRegister, OfferFail, OffersInv
<1>4. ASSUME NEW c \in Calls, Close(c) PROVE OffersInv'
  <2>1. UNCHANGED offers
        BY <1>4 DEF Close, CloseConn, ReadLoopDone, WaitLoop, ClosePeer, WaitReaders,
                    CloseRecorder, Finalize
  <2> QED BY <1>1, <1>4, <2>1, CloseMoves DEF Early
<1>5. ASSUME NEW e \in Enders, EndClose(e) PROVE OffersInv'
      BY <1>1, <1>5 DEF EndClose
<1>6. ASSUME UNCHANGED <<offers, stage>> PROVE OffersInv'
      BY <1>1, <1>6
<1>7. ASSUME NEW k \in Controls, Loop(k) PROVE OffersInv'
      BY <1>6, <1>7 DEF Loop, LoopStart, LoopBoot, LoopSpoken, LoopLeave, LoopEndMessage,
                        LoopTurn, LoopTake, Listen, LoopOpensWindow, LoopEndSpeech,
                        LoopRunReturns, LoopClosesWindow, SetMic, LoopAnswered, callVars
<1>8. ASSUME NEW k \in Controls,
             \/ ControlLookup(k) \/ ControlRefused(k) \/ AttachControl(k) \/ StartTurnLoop(k)
             \/ BrowserSends(k) \/ BrowserLeaves(k)
      PROVE  OffersInv'
      BY <1>6, <1>8 DEF ControlLookup, ControlRefused, AttachControl, StartTurnLoop,
                        BrowserSends, BrowserLeaves, callVars
<1>9. ASSUME NEW c \in Calls, PeerFails(c) \/ \E t \in Tracks : OnTrack(c, t) \/ ReaderExits(c, t)
      PROVE  OffersInv'
      BY <1>6, <1>9 DEF PeerFails, OnTrack, ReaderExits, callVars
<1>10. ASSUME NEW e \in Enders, EndLookup(e) \/ EndRemove(e) PROVE OffersInv'
       BY <1>6, <1>10 DEF EndLookup, EndRemove, callVars
<1>11. CASE UNCHANGED vars
       BY <1>6, <1>11 DEF vars, callVars
<1> QED BY <1>2, <1>3, <1>4, <1>5, <1>7, <1>8, <1>9, <1>10, <1>11 DEF Next

LEMMA FoundInvStep == CallInv /\ [Next]_vars => FoundInv'
<1> SUFFICES ASSUME CallInv, [Next]_vars PROVE FoundInv'
    OBVIOUS
<1> USE GatewayAssumption DEF CallInv, TypeInv, TypeOK
<1>1. ASSUME registry' \in {registry, None}, UNCHANGED callOf,
             \A c \in Calls : stage[c] \notin Early => stage'[c] \notin Early
      PROVE  FoundInv'
      BY <1>1 DEF FoundInv
<1>2. ASSUME NEW o \in Offers, NEW c \in Calls, OfferStart(o, c) PROVE FoundInv'
      BY <1>1, <1>2 DEF OfferStart, Early, controlVars
<1>3. ASSUME NEW o \in Offers, OfferRegister(o) PROVE FoundInv'
      BY <1>3 DEF OfferRegister, FoundInv, Early, controlVars
<1>4. ASSUME NEW o \in Offers, OfferFail(o) PROVE FoundInv'
      BY <1>1, <1>4 DEF OfferFail, Early, controlVars
<1>5. ASSUME NEW c \in Calls, Close(c) PROVE FoundInv'
  <2>1. UNCHANGED <<registry, callOf>>
        BY <1>5 DEF Close, CloseConn, ReadLoopDone, WaitLoop, ClosePeer, WaitReaders,
                    CloseRecorder, Finalize, controlVars
  <2> QED BY <1>1, <1>5, <2>1, CloseMoves
<1>6. ASSUME NEW e \in Enders, EndClose(e) PROVE FoundInv'
      BY <1>1, <1>6 DEF EndClose, Early, controlVars
<1>7. ASSUME NEW k \in Controls, ControlLookup(k) \/ ControlRefused(k) PROVE FoundInv'
      BY <1>7 DEF ControlLookup, ControlRefused, FoundInv, callVars
<1>8. ASSUME UNCHANGED <<callOf, stage>>, registry' \in {registry, None} PROVE FoundInv'
      BY <1>1, <1>8
<1>9. ASSUME NEW k \in Controls, Loop(k) PROVE FoundInv'
      BY <1>8, <1>9 DEF Loop, LoopStart, LoopBoot, LoopSpoken, LoopLeave, LoopEndMessage,
                        LoopTurn, LoopTake, Listen, LoopOpensWindow, LoopEndSpeech,
                        LoopRunReturns, LoopClosesWindow, SetMic, LoopAnswered, callVars,
                        controlVars
<1>10. ASSUME NEW k \in Controls,
              AttachControl(k) \/ StartTurnLoop(k) \/ BrowserSends(k) \/ BrowserLeaves(k)
       PROVE  FoundInv'
       BY <1>8, <1>10 DEF AttachControl, StartTurnLoop, BrowserSends, BrowserLeaves, callVars,
                          controlVars
<1>11. ASSUME NEW c \in Calls, PeerFails(c) \/ \E t \in Tracks : OnTrack(c, t) \/ ReaderExits(c, t)
       PROVE  FoundInv'
       BY <1>8, <1>11 DEF PeerFails, OnTrack, ReaderExits, callVars, controlVars
<1>12. ASSUME NEW e \in Enders, EndLookup(e) \/ EndRemove(e) PROVE FoundInv'
       BY <1>8, <1>12 DEF EndLookup, EndRemove, callVars, controlVars
<1>13. CASE UNCHANGED vars
       BY <1>8, <1>13 DEF vars, callVars, controlVars
<1> QED BY <1>2, <1>3, <1>4, <1>5, <1>6, <1>7, <1>9, <1>10, <1>11, <1>12, <1>13 DEF Next

LEMMA ReadersInvStep == CallInv /\ [Next]_vars => ReadersInv'
<1> SUFFICES ASSUME CallInv, [Next]_vars PROVE ReadersInv'
    OBVIOUS
<1> USE GatewayAssumption DEF CallInv, TypeInv, TypeOK
<1>1. ASSUME UNCHANGED <<stage, peer, reading>> PROVE ReadersInv'
      BY <1>1 DEF ReadersInv
<1>2. ASSUME NEW o \in Offers, NEW c \in Calls, OfferStart(o, c) PROVE ReadersInv'
      BY <1>2 DEF OfferStart, ReadersInv, Early, PeerGone, ReadersGone
<1>3. ASSUME NEW o \in Offers, OfferRegister(o) PROVE ReadersInv'
      BY <1>3 DEF OfferRegister, ReadersInv, OffersInv, Early, PeerGone, ReadersGone, peerVars
<1>4. ASSUME NEW o \in Offers, OfferFail(o) PROVE ReadersInv'
      BY <1>4 DEF OfferFail, ReadersInv, OffersInv, Early, PeerGone, ReadersGone
<1>5. ASSUME NEW c \in Calls, Close(c) PROVE ReadersInv'
      BY <1>5 DEF Close, CloseConn, ReadLoopDone, WaitLoop, ClosePeer, WaitReaders,
                  CloseRecorder, Finalize, StageGoes, peerVars, ReadersInv, Early, PeerGone,
                  ReadersGone
<1>6. ASSUME NEW e \in Enders, EndClose(e) PROVE ReadersInv'
      BY <1>6 DEF EndClose, ReadersInv, Early, PeerGone, ReadersGone, peerVars
<1>7. ASSUME NEW c \in Calls, NEW t \in Tracks, OnTrack(c, t) PROVE ReadersInv'
  <2>1. stage[c] \notin Early \cup PeerGone \cup ReadersGone
        BY <1>7 DEF OnTrack, ReadersInv, Early, PeerGone, ReadersGone
  <2> QED BY <1>7, <2>1 DEF OnTrack, ReadersInv, callVars
<1>8. ASSUME NEW c \in Calls, NEW t \in Tracks, ReaderExits(c, t) PROVE ReadersInv'
      BY <1>8 DEF ReaderExits, ReadersInv, callVars
<1>9. ASSUME NEW c \in Calls, PeerFails(c) PROVE ReadersInv'
      BY <1>9 DEF PeerFails, ReadersInv, callVars
<1>10. ASSUME NEW k \in Controls, Loop(k) PROVE ReadersInv'
       BY <1>1, <1>10 DEF Loop, LoopStart, LoopBoot, LoopSpoken, LoopLeave, LoopEndMessage,
                          LoopTurn, LoopTake, Listen, LoopOpensWindow, LoopEndSpeech,
                          LoopRunReturns, LoopClosesWindow, SetMic, LoopAnswered, callVars,
                          peerVars
<1>11. ASSUME NEW k \in Controls,
              \/ ControlLookup(k) \/ ControlRefused(k) \/ AttachControl(k) \/ StartTurnLoop(k)
              \/ BrowserSends(k) \/ BrowserLeaves(k)
       PROVE  ReadersInv'
       BY <1>1, <1>11 DEF ControlLookup, ControlRefused, AttachControl, StartTurnLoop,
                          BrowserSends, BrowserLeaves, callVars, peerVars
<1>12. ASSUME NEW e \in Enders, EndLookup(e) \/ EndRemove(e) PROVE ReadersInv'
       BY <1>1, <1>12 DEF EndLookup, EndRemove, callVars, peerVars
<1>13. CASE UNCHANGED vars
       BY <1>1, <1>13 DEF vars, callVars, peerVars
<1> QED BY <1>2, <1>3, <1>4, <1>5, <1>6, <1>7, <1>8, <1>9, <1>10, <1>11, <1>12, <1>13 DEF Next

LEMMA CallInvStep == CallInv /\ [Next]_vars => CallInv'
BY TypeStep, LinksStep, OffersInvStep, FoundInvStep, ReadersInvStep DEF CallInv, TypeInv

----------------------------------------------------------------------------
(* The loop of a call.  A loop that may speak sent its bootstrap request    *)
(* while the ctx of the call was alive, when its done channel was already   *)
(* in place: the teardown, which cancels before it reads the channel, finds *)
(* it and waits.  A loop that starts later is stopped by the ctx.  That the *)
(* channel it finds is the one of this loop needs the browser to open one   *)
(* socket per call.                                                         *)

BeforeWait == {"live", "conn", "loop"}

SocketInv == \A k1, k2 \in Controls : callOf[k1] = callOf[k2] /\ callOf[k1] # None => k1 = k2

LoopInv ==
    \A k \in Controls :
        /\ loop[k] # "none" => loopDone[callOf[k]] = k
        /\ CanSpeak(k) => \/ stage[callOf[k]] \in BeforeWait
                          \/ stage[callOf[k]] = "wait" /\ waitFor[callOf[k]] = k

(* The window, apart from the teardown: that follows from LoopInv.          *)
WindowInv ==
    /\ \A c \in Calls : mic[c] # None =>
           callOf[mic[c]] = c /\ loop[mic[c]] \in {"listening", "closing"}
    /\ \A k \in Controls : loop[k] = "listening" => mic[callOf[k]] = k

TeardownInv == CallInv /\ SocketInv /\ LoopInv /\ WindowInv

LEMMA TeardownInvInit == Init => TeardownInv
BY CallInvInit, GatewayAssumption DEF Init, TeardownInv, SocketInv, LoopInv, WindowInv, CanSpeak

LEMMA SocketInvStep ==
    ASSUME BrowserKeepsOneSocket, CallInv, SocketInv, [Next]_vars
    PROVE  SocketInv'
<1> USE GatewayAssumption DEF CallInv, TypeInv, TypeOK
<1>1. ASSUME UNCHANGED callOf PROVE SocketInv'
      BY <1>1 DEF SocketInv
<1>2. ASSUME NEW k \in Controls, ControlLookup(k) \/ ControlRefused(k) PROVE SocketInv'
      BY <1>2 DEF ControlLookup, ControlRefused, SocketInv
<1>3. ASSUME NEW k \in Controls, Loop(k) PROVE SocketInv'
      BY <1>1, <1>3 DEF Loop, LoopStart, LoopBoot, LoopSpoken, LoopLeave, LoopEndMessage,
                        LoopTurn, LoopTake, Listen, LoopOpensWindow, LoopEndSpeech,
                        LoopRunReturns, LoopClosesWindow, SetMic, LoopAnswered, controlVars
<1>4. ASSUME NEW k \in Controls,
             AttachControl(k) \/ StartTurnLoop(k) \/ BrowserSends(k) \/ BrowserLeaves(k)
      PROVE  SocketInv'
      BY <1>1, <1>4 DEF AttachControl, StartTurnLoop, BrowserSends, BrowserLeaves, controlVars
<1>5. ASSUME NEW o \in Offers,
             (\E c \in Calls : OfferStart(o, c)) \/ OfferRegister(o) \/ OfferFail(o)
      PROVE  SocketInv'
      BY <1>1, <1>5 DEF OfferStart, OfferRegister, OfferFail, controlVars
<1>6. ASSUME NEW c \in Calls,
             PeerFails(c) \/ Close(c) \/ \E t \in Tracks : OnTrack(c, t) \/ ReaderExits(c, t)
      PROVE  SocketInv'
      BY <1>1, <1>6 DEF PeerFails, OnTrack, ReaderExits, Close, CloseConn, ReadLoopDone,
                        WaitLoop, ClosePeer, WaitReaders, CloseRecorder, Finalize, controlVars
<1>7. ASSUME NEW e \in Enders, EndLookup(e) \/ EndClose(e) \/ EndRemove(e) PROVE SocketInv'
      BY <1>1, <1>7 DEF EndLookup, EndClose, EndRemove, controlVars
<1>8. CASE UNCHANGED vars
      BY <1>1, <1>8 DEF vars, controlVars
<1> QED BY <1>2, <1>3, <1>4, <1>5, <1>6, <1>7, <1>8 DEF Next

(* A loop that has begun belongs to a handler that has found its call.      *)
LEMMA LoopHasCall ==
    ASSUME TypeInv, NEW k \in Controls, loop[k] # "none"
    PROVE  callOf[k] \in Calls /\ handler[k] = "started"
BY DEF TypeInv, Links, TypeOK

LEMMA LoopInvStep ==
    ASSUME TeardownInv, [Next]_vars
    PROVE  LoopInv'
<1> USE GatewayAssumption DEF TeardownInv, CallInv, TypeInv, TypeOK
<1>1. ASSUME UNCHANGED <<loop, loopDone, callOf, stage, waitFor>> PROVE LoopInv'
      BY <1>1 DEF LoopInv, CanSpeak
<1>2. ASSUME NEW k \in Controls, ControlLookup(k) \/ ControlRefused(k) PROVE LoopInv'
  <2>1. loop[k] = "none"
        BY <1>2, LoopHasCall DEF ControlLookup, ControlRefused
  <2> QED BY <1>2, <2>1 DEF ControlLookup, ControlRefused, LoopInv, CanSpeak, callVars, loopVars
<1>3. ASSUME NEW k \in Controls, StartTurnLoop(k) PROVE LoopInv'
  <2>1. ASSUME NEW other \in Controls, other # k, loop[other] # "none"
        PROVE  callOf[other] # callOf[k]
        BY <2>1, LoopHasCall DEF SocketInv
  <2>2. callOf[k] \in Calls
        BY <1>3 DEF StartTurnLoop, Links
  <2> QED BY <1>3, <2>1, <2>2 DEF StartTurnLoop, LoopInv, CanSpeak
<1>4. ASSUME NEW k \in Controls, LoopStart(k) PROVE LoopInv'
      BY <1>4 DEF LoopStart, LoopGoes, LoopInv, CanSpeak, Cancelled, BeforeWait, callVars,
                  controlVars
<1>5. ASSUME NEW k \in Controls, Loop(k), ~LoopStart(k) PROVE LoopInv'
  <2>1. /\ CanSpeak(k) /\ UNCHANGED <<loopDone, callOf, stage, waitFor>>
        /\ \E step \in LoopSteps \ {"none"} : loop' = [loop EXCEPT ![k] = step]
        BY <1>5 DEF Loop, LoopBoot, LoopSpoken, LoopLeave, LoopEndMessage, LoopTurn, LoopTake,
                    Listen, LoopOpensWindow, LoopEndSpeech, LoopRunReturns, LoopClosesWindow,
                    SetMic, LoopAnswered, LoopGoes, LoopSteps, CanSpeak, callVars, controlVars
  <2> QED BY <2>1 DEF LoopInv, CanSpeak
<1>6. ASSUME NEW o \in Offers,
             (\E c \in Calls : OfferStart(o, c)) \/ OfferRegister(o) \/ OfferFail(o)
      PROVE  LoopInv'
  <2>1. PICK c \in Calls, to \in Stages :
            /\ stage[c] \in Early /\ stage' = [stage EXCEPT ![c] = to]
            /\ UNCHANGED <<loop, loopDone, callOf, waitFor>>
        BY <1>6 DEF OfferStart, OfferRegister, OfferFail, OffersInv, Early, Stages, loopVars,
                    controlVars
  <2>2. \A k \in Controls : loop[k] # "none" => callOf[k] # c
        BY <2>1, LoopHasCall DEF FoundInv
  <2> QED BY <2>1, <2>2 DEF LoopInv, CanSpeak
<1>7. ASSUME NEW e \in Enders, EndClose(e) PROVE LoopInv'
      BY <1>7 DEF EndClose, LoopInv, CanSpeak, BeforeWait, loopVars, controlVars
<1>8. ASSUME NEW c \in Calls, CloseConn(c) \/ ReadLoopDone(c) PROVE LoopInv'
  <2>1. ASSUME NEW k \in Controls, loop[k] # "none" PROVE loopDone[callOf[k]] = k
        BY <2>1 DEF LoopInv
  <2> QED BY <1>8, <2>1, LoopHasCall
          DEF CloseConn, ReadLoopDone, StageGoes, LoopInv, CanSpeak, BeforeWait, loopVars,
              controlVars
<1>9. ASSUME NEW c \in Calls,
             \/ WaitLoop(c) \/ ClosePeer(c) \/ WaitReaders(c) \/ CloseRecorder(c)
             \/ Finalize(c)
      PROVE  LoopInv'
  <2>1. \A k \in Controls : CanSpeak(k) => callOf[k] # c
    <3> SUFFICES ASSUME NEW k \in Controls, CanSpeak(k), callOf[k] = c PROVE FALSE
        OBVIOUS
    <3>1. stage[c] = "wait" /\ waitFor[c] = k
          BY <1>9 DEF LoopInv, BeforeWait, WaitLoop, ClosePeer, WaitReaders, CloseRecorder,
                      Finalize, StageGoes
    <3>2. loop[k] = "exited"
          BY <1>9, <3>1 DEF WaitLoop, ClosePeer, WaitReaders, CloseRecorder, Finalize, StageGoes
    <3> QED BY <3>2 DEF CanSpeak
  <2>2. /\ UNCHANGED <<loop, loopDone, callOf, waitFor>>
        /\ \E to \in Stages : stage' = [stage EXCEPT ![c] = to]
        BY <1>9 DEF WaitLoop, ClosePeer, WaitReaders, CloseRecorder, Finalize, StageGoes,
                    Stages, loopVars, controlVars
  <2> QED BY <2>1, <2>2 DEF LoopInv, CanSpeak
<1>10. ASSUME NEW k \in Controls, AttachControl(k) \/ BrowserSends(k) \/ BrowserLeaves(k)
       PROVE  LoopInv'
       BY <1>1, <1>10 DEF AttachControl, BrowserSends, BrowserLeaves, callVars, controlVars,
                          loopVars
<1>11. ASSUME NEW c \in Calls, PeerFails(c) \/ \E t \in Tracks : OnTrack(c, t) \/ ReaderExits(c, t)
       PROVE  LoopInv'
       BY <1>1, <1>11 DEF PeerFails, OnTrack, ReaderExits, callVars, controlVars, loopVars
<1>12. ASSUME NEW e \in Enders, EndLookup(e) \/ EndRemove(e) PROVE LoopInv'
       BY <1>1, <1>12 DEF EndLookup, EndRemove, callVars, controlVars, loopVars
<1>13. CASE UNCHANGED vars
       BY <1>1, <1>13 DEF vars, callVars, controlVars, loopVars
<1> QED BY <1>2, <1>3, <1>4, <1>5, <1>6, <1>7, <1>8, <1>9, <1>10, <1>11, <1>12, <1>13
        DEF Next, Close

LEMMA WindowStep ==
    ASSUME TeardownInv, [Next]_vars
    PROVE  WindowInv'
<1> USE GatewayAssumption DEF TeardownInv, CallInv, TypeInv, TypeOK
<1>1. ASSUME UNCHANGED <<loop, mic, callOf>> PROVE WindowInv'
      BY <1>1 DEF WindowInv
<1>2. ASSUME NEW k \in Controls, ControlLookup(k) \/ ControlRefused(k) PROVE WindowInv'
  <2>1. loop[k] = "none"
        BY <1>2, LoopHasCall DEF ControlLookup, ControlRefused
  <2> QED BY <1>2, <2>1 DEF ControlLookup, ControlRefused, WindowInv, peerVars, loopVars
<1>3. ASSUME NEW k \in Controls, UNCHANGED <<mic, callOf>>,
             loop[k] \notin {"listening", "closing"},
             \E step \in LoopSteps \ {"listening"} : loop' = [loop EXCEPT ![k] = step]
      PROVE  WindowInv'
      BY <1>3 DEF WindowInv
<1>4. ASSUME NEW k \in Controls, StartTurnLoop(k) PROVE WindowInv'
  <2>1. loop[k] \notin {"listening", "closing"}
        BY <1>4, LoopHasCall DEF StartTurnLoop
  <2> QED BY <1>3, <1>4, <2>1 DEF StartTurnLoop, LoopSteps, peerVars
<1>5. ASSUME NEW k \in Controls,
             \/ LoopStart(k) \/ LoopBoot(k) \/ LoopSpoken(k) \/ LoopLeave(k)
             \/ LoopEndMessage(k) \/ LoopTurn(k) \/ LoopAnswered(k)
      PROVE  WindowInv'
      BY <1>3, <1>5 DEF LoopStart, LoopBoot, LoopSpoken, LoopLeave, LoopEndMessage, LoopTurn,
                        LoopTake, LoopAnswered, LoopGoes, LoopSteps, peerVars, controlVars
<1>6. ASSUME NEW k \in Controls, Listen(k) PROVE WindowInv'
  <2>1. callOf[k] \in Calls /\ loop[k] # "none"
        BY <1>6, LoopHasCall
           DEF Listen, LoopOpensWindow, LoopEndSpeech, LoopRunReturns, LoopClosesWindow
  <2>2. \A other \in Controls : loop[other] # "none" /\ other # k => callOf[other] # callOf[k]
        BY <2>1, LoopHasCall DEF SocketInv
  <2>3. CASE LoopOpensWindow(k)
        BY <2>1, <2>2, <2>3 DEF LoopOpensWindow, SetMic, LoopGoes, WindowInv, controlVars
  <2>4. CASE LoopEndSpeech(k)
        BY <2>1, <2>2, <2>4 DEF LoopEndSpeech, SetMic, LoopGoes, WindowInv, controlVars
  <2>5. CASE LoopRunReturns(k)
        BY <2>5 DEF LoopRunReturns, LoopGoes, WindowInv, peerVars, controlVars
  <2>6. CASE LoopClosesWindow(k)
        BY <2>1, <2>2, <2>6 DEF LoopClosesWindow, SetMic, LoopGoes, WindowInv, controlVars
  <2> QED BY <1>6, <2>3, <2>4, <2>5, <2>6 DEF Listen
<1>7. ASSUME NEW k \in Controls, AttachControl(k) \/ BrowserSends(k) \/ BrowserLeaves(k)
      PROVE  WindowInv'
      BY <1>1, <1>7 DEF AttachControl, BrowserSends, BrowserLeaves, peerVars, controlVars,
                        loopVars
<1>8. ASSUME NEW o \in Offers,
             (\E c \in Calls : OfferStart(o, c)) \/ OfferRegister(o) \/ OfferFail(o)
      PROVE  WindowInv'
      BY <1>1, <1>8 DEF OfferStart, OfferRegister, OfferFail, peerVars, controlVars, loopVars
<1>9. ASSUME NEW c \in Calls,
             PeerFails(c) \/ Close(c) \/ \E t \in Tracks : OnTrack(c, t) \/ ReaderExits(c, t)
      PROVE  WindowInv'
      BY <1>1, <1>9 DEF PeerFails, OnTrack, ReaderExits, Close, CloseConn, ReadLoopDone,
                        WaitLoop, ClosePeer, WaitReaders, CloseRecorder, Finalize, peerVars,
                        controlVars, loopVars
<1>10. ASSUME NEW e \in Enders, EndLookup(e) \/ EndClose(e) \/ EndRemove(e)
       PROVE  WindowInv'
       BY <1>1, <1>10 DEF EndLookup, EndClose, EndRemove, peerVars, controlVars, loopVars
<1>11. CASE UNCHANGED vars
       BY <1>1, <1>11 DEF vars, peerVars, controlVars, loopVars
<1> QED BY <1>2, <1>4, <1>5, <1>6, <1>7, <1>8, <1>9, <1>10, <1>11 DEF Next, Loop

LEMMA TeardownInvStep ==
    ASSUME BrowserKeepsOneSocket
    PROVE  TeardownInv /\ [Next]_vars => TeardownInv'
BY CallInvStep, SocketInvStep, LoopInvStep, WindowStep DEF TeardownInv

LEMMA TeardownInvHolds == BrowserKeepsOneSocket => (Spec => []TeardownInv)
<1> SUFFICES ASSUME BrowserKeepsOneSocket PROVE Spec => []TeardownInv
    OBVIOUS
<1> QED BY TeardownInvInit, TeardownInvStep, PTL DEF Spec

(* With one control socket per call, no frame can reach the recorder once   *)
(* its stream is closed: the teardown order of call.go:76-89 keeps every    *)
(* producer ahead of it, also the loop of a socket that is attached while   *)
(* the teardown is under way.                                               *)
THEOREM TeardownLeavesNoProducer == BrowserKeepsOneSocket => (Spec => []NoProducerLeft)
<1>1. TeardownInv => NoProducerLeft
  <2> SUFFICES ASSUME TeardownInv, NEW c \in Calls
               PROVE  /\ stage[c] \in {"peer", "readers", "rec", "finalize", "done"} =>
                             \A k \in Controls : callOf[k] = c => ~CanSpeak(k)
                      /\ stage[c] \in {"rec", "finalize", "done"} => reading[c] = {}
      BY DEF NoProducerLeft
  <2>1. stage[c] \in {"rec", "finalize", "done"} => reading[c] = {}
        BY DEF TeardownInv, CallInv, ReadersInv, ReadersGone
  <2>2. ASSUME NEW k \in Controls, callOf[k] = c, CanSpeak(k)
        PROVE  stage[c] \in BeforeWait \cup {"wait"}
        BY <2>2 DEF TeardownInv, LoopInv
  <2> QED BY <2>1, <2>2 DEF BeforeWait
<1> QED BY <1>1, TeardownInvHolds, PTL

(* With one control socket per call a microphone window is open only for a  *)
(* loop of that call that is in listen, before END_SPEECH, and for none     *)
(* once Close has waited for the loop: whichever way a turn ends, also by   *)
(* the teardown in the middle of it, the window is closed before anything   *)
(* else goes on (turnloop.go:121-141, call.go:76-89).                       *)
THEOREM WindowFollowsTurn == BrowserKeepsOneSocket => (Spec => []MicFollowsTurn)
<1>1. TeardownInv => MicFollowsTurn
  <2> SUFFICES ASSUME TeardownInv, NEW c \in Calls, mic[c] # None
               PROVE  stage[c] \notin {"peer", "readers", "rec", "finalize", "done"}
      BY DEF MicFollowsTurn, TeardownInv, WindowInv
  <2>1. mic[c] \in Controls
        BY DEF TeardownInv, CallInv, TypeInv, TypeOK
  <2>2. callOf[mic[c]] = c /\ CanSpeak(mic[c])
        BY <2>1 DEF TeardownInv, WindowInv, CanSpeak
  <2> QED BY <2>1, <2>2 DEF TeardownInv, LoopInv, BeforeWait
<1> QED BY <1>1, TeardownInvHolds, PTL

=============================================================================
