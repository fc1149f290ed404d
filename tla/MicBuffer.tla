----------------------------- MODULE MicBuffer -----------------------------
(****************************************************************************)
(* One turn's microphone: the audio reader of peer.go that feeds it, the    *)
(* bounded drop-oldest MicBuffer of stt.go, the writer goroutine that       *)
(* empties it into the recognizer's socket, and listen() of turnloop.go,    *)
(* which opens and closes the window and closes the buffer.                 *)
(*                                                                          *)
(* A frame is its number, counted from the first one that is pushed.  Push  *)
(* is three selects on the channel, so it is three steps; the reader holds  *)
(* micMu from the first to the last, which is when push is not "idle".      *)
(****************************************************************************)
EXTENDS Integers, Sequences

CONSTANTS Capacity,      \* of the channel: micFrames
          MaxFrames,     \* how many frames the microphone delivers in a turn
          EndSpeechOnce  \* the recognizer reports END_SPEECH at most once a turn

ASSUME MicAssumption == /\ Capacity \in Nat \ {0}
                        /\ MaxFrames \in Nat
                        /\ EndSpeechOnce \in BOOLEAN

VARIABLES window,   \* peer.mic is set
          push,     \* where the audio reader is in Push
          frame,    \* the number of the last frame pushed
          queue,    \* MicBuffer.ch, the oldest first
          closed,   \* the channel is closed
          dropped,  \* frames dropped
          writer,   \* the writer goroutine
          held,     \* the frame the writer has taken, 0 for none
          sent,     \* frames written to the socket
          listen,   \* where listen() is
          runDone   \* runCtx is done

bufferVars == <<queue, closed, dropped>>
readerVars == <<window, push, frame>>
writerVars == <<writer, held, sent>>
micVars == <<readerVars, bufferVars, writerVars, listen, runDone>>

----------------------------------------------------------------------------
(* The audio reader: feedMic, then Push.  A frame that finds no window open *)
(* is discarded and no step of this module.                                 *)

FeedMic ==
    /\ push = "idle"
    /\ window
    /\ frame < MaxFrames
    /\ frame' = frame + 1
    /\ push' = "offer"
    /\ UNCHANGED <<window, bufferVars, writerVars, listen, runDone>>

Enqueue == queue' = Append(queue, frame) /\ push' = "idle" /\ UNCHANGED dropped

(* Faulty variant: the first select has no default and waits for room.      *)
PushOfferBlocking ==
    /\ push = "offer"
    /\ ~closed
    /\ Len(queue) < Capacity
    /\ Enqueue
    /\ UNCHANGED <<window, frame, closed, writerVars, listen, runDone>>

PushOffer ==
    /\ push = "offer"
    /\ ~closed
    /\ \/ Len(queue) < Capacity /\ Enqueue
       \/ Len(queue) = Capacity /\ push' = "evict" /\ UNCHANGED <<queue, dropped>>
    /\ UNCHANGED <<window, frame, closed, writerVars, listen, runDone>>

(* Faulty variant: the newest of the waiting frames goes, not the oldest.   *)
PushEvictNewest ==
    /\ push = "evict"
    /\ push' = "retry"
    /\ \/ /\ queue # <<>>
          /\ dropped' = dropped \cup {queue[Len(queue)]}
          /\ queue' = SubSeq(queue, 1, Len(queue) - 1)
       \/ queue = <<>> /\ UNCHANGED <<queue, dropped>>
    /\ UNCHANGED <<window, frame, closed, writerVars, listen, runDone>>

(* Faulty variant: the drop is not counted.                                 *)
PushEvictUncounted ==
    /\ push = "evict"
    /\ push' = "retry"
    /\ queue' = IF queue = <<>> THEN <<>> ELSE Tail(queue)
    /\ UNCHANGED <<dropped, window, frame, closed, writerVars, listen, runDone>>

(* The writer may have emptied the channel in between: then nothing goes.   *)
PushEvict ==
    /\ push = "evict"
    /\ push' = "retry"
    /\ \/ /\ queue # <<>>
          /\ dropped' = dropped \cup {Head(queue)}
          /\ queue' = Tail(queue)
       \/ queue = <<>> /\ UNCHANGED <<queue, dropped>>
    /\ UNCHANGED <<window, frame, closed, writerVars, listen, runDone>>

PushRetry ==
    /\ push = "retry"
    /\ ~closed
    /\ IF Len(queue) < Capacity
       THEN Enqueue
       ELSE dropped' = dropped \cup {frame} /\ push' = "idle" /\ UNCHANGED queue
    /\ UNCHANGED <<window, frame, closed, writerVars, listen, runDone>>

----------------------------------------------------------------------------
(* listen() and the loop of Run, which calls it back.  SetMic takes micMu,  *)
(* so it waits until the reader is out of Push.                             *)

(* Faulty variant: the handler is cleared without taking micMu.             *)
EndSpeechUnlocked ==
    /\ listen = "open" \/ (listen = "flushing" /\ ~EndSpeechOnce)
    /\ window' = FALSE
    /\ listen' = "closing"
    /\ UNCHANGED <<push, frame, bufferVars, writerVars, runDone>>

(* emit(END_SPEECH): SetMic(nil) ...                                        *)
EndSpeech ==
    /\ listen = "open" \/ (listen = "flushing" /\ ~EndSpeechOnce)
    /\ push = "idle"
    /\ window' = FALSE
    /\ listen' = "closing"
    /\ UNCHANGED <<push, frame, bufferVars, writerVars, runDone>>

(* ... then CloseInput                                                      *)
CloseInput ==
    /\ listen = "closing"
    /\ ~closed
    /\ closed' = TRUE
    /\ listen' = "flushing"
    /\ UNCHANGED <<readerVars, queue, dropped, writerVars, runDone>>

(* The budget of the turn is over or the call is being torn down, whatever  *)
(* listen() is doing.                                                       *)
Deadline ==
    /\ ~runDone
    /\ runDone' = TRUE
    /\ UNCHANGED <<readerVars, bufferVars, writerVars, listen>>

(* Run returns: a final, an error, the deadline.                            *)
RunReturns ==
    /\ listen \in {"open", "flushing"}
    /\ listen' = "leaving"
    /\ runDone' = TRUE
    /\ UNCHANGED <<readerVars, bufferVars, writerVars>>

(* The SetMic(nil) that follows it.                                         *)
CloseWindow ==
    /\ listen = "leaving"
    /\ push = "idle"
    /\ window' = FALSE
    /\ listen' = "returned"
    /\ UNCHANGED <<push, frame, bufferVars, writerVars, runDone>>

----------------------------------------------------------------------------
(* The writer goroutine.                                                    *)

(* Faulty variant: the receive does not ask whether the channel is closed.  *)
WriterTakesUnchecked ==
    /\ writer = "reading"
    /\ \/ queue # <<>> /\ held' = Head(queue) /\ queue' = Tail(queue)
       \/ closed /\ queue = <<>> /\ held' = 0 /\ UNCHANGED queue
    /\ writer' = "sending"
    /\ UNCHANGED <<readerVars, closed, dropped, sent, listen, runDone>>

WriterTakes ==
    /\ writer = "reading"
    /\ queue # <<>>
    /\ held' = Head(queue)
    /\ queue' = Tail(queue)
    /\ writer' = "sending"
    /\ UNCHANGED <<readerVars, closed, dropped, sent, listen, runDone>>

WriterSends ==
    /\ writer = "sending"
    /\ \/ sent' = sent \cup {held} /\ held' = 0 /\ writer' = "reading"
       \/ writer' = "gone" /\ UNCHANGED <<held, sent>>
    /\ UNCHANGED <<readerVars, bufferVars, listen, runDone>>

(* Faulty variant: a closed buffer is flushed without being emptied.        *)
WriterFlushesEarly ==
    /\ writer = "reading"
    /\ closed
    /\ writer' = "flushed"
    /\ UNCHANGED <<readerVars, bufferVars, held, sent, listen, runDone>>

WriterFlushes ==
    /\ writer = "reading"
    /\ closed
    /\ queue = <<>>
    /\ writer' = "flushed"
    /\ UNCHANGED <<readerVars, bufferVars, held, sent, listen, runDone>>

WriterStops ==
    /\ writer = "reading"
    /\ runDone
    /\ writer' = "gone"
    /\ UNCHANGED <<readerVars, bufferVars, held, sent, listen, runDone>>

----------------------------------------------------------------------------

Init ==
    /\ window = TRUE
    /\ push = "idle"
    /\ frame = 0
    /\ queue = <<>>
    /\ closed = FALSE
    /\ dropped = {}
    /\ writer = "reading"
    /\ held = 0
    /\ sent = {}
    /\ listen = "open"
    /\ runDone = FALSE

Reader == FeedMic \/ PushOffer \/ PushEvict \/ PushRetry
Listener == EndSpeech \/ CloseInput \/ RunReturns \/ CloseWindow
Writer == WriterTakes \/ WriterSends \/ WriterFlushes \/ WriterStops

Next == Reader \/ Listener \/ Writer \/ Deadline

Spec == Init /\ [][Next]_micVars

(* The goroutines run on.  That Run returns is due to its deadline, which   *)
(* it reaches if the recognizer says nothing.  Nothing is assumed of the    *)
(* writer, which may be stuck in a write to a slow socket.                  *)
FairSpec == /\ Spec
            /\ WF_micVars(PushOffer \/ PushEvict \/ PushRetry)
            /\ WF_micVars(CloseInput)
            /\ WF_micVars(RunReturns)
            /\ WF_micVars(CloseWindow)

----------------------------------------------------------------------------
(* Properties.                                                              *)

MicTypeOK ==
    /\ window \in BOOLEAN /\ closed \in BOOLEAN /\ runDone \in BOOLEAN
    /\ push \in {"idle", "offer", "evict", "retry"}
    /\ frame \in 0..MaxFrames
    /\ queue \in Seq(1..MaxFrames)
    /\ dropped \in SUBSET (1..MaxFrames)
    /\ sent \in SUBSET (1..MaxFrames)
    /\ writer \in {"reading", "sending", "flushed", "gone"}
    /\ held \in 0..MaxFrames
    /\ listen \in {"open", "closing", "flushing", "leaving", "returned"}

Waiting(q) == {q[i] : i \in 1..Len(q)}

(* The frame the reader is still trying to put in.                          *)
InHand == IF push = "idle" THEN {} ELSE {frame}

(* Neither of the two panics of a Go channel: no frame is pushed to a       *)
(* closed buffer and no buffer is closed twice, because SetMic(nil) is a    *)
(* barrier and precedes CloseInput (peer.go:50-54, turnloop.go:130-131).    *)
NoPanic == closed => push = "idle" /\ ~window /\ listen # "closing"

(* Backpressure costs the oldest speech and nothing else: what waits are    *)
(* the newest frames, in order and without a hole, and the writer is older  *)
(* than all of them (stt.go:71-72).                                         *)
QueueIsRecent ==
    LET newest == IF push = "idle" THEN frame ELSE frame - 1
    IN  /\ \A i \in 1..Len(queue) : queue[i] = newest - Len(queue) + i
        /\ held # 0 => held <= newest - Len(queue)
        /\ \A f \in sent \cup dropped : f <= newest - Len(queue)

(* "single producer -> the freed slot is ours" (stt.go:79): after a drop    *)
(* there is room, so the newest frame itself is never given up.             *)
NewestKept ==
    /\ Len(queue) <= Capacity
    /\ push = "retry" => Len(queue) < Capacity

(* No frame is sent twice, and none vanishes without being counted: every   *)
(* one is sent, with the writer, waiting, in hand or dropped.               *)
FramesAccounted ==
    /\ sent \cap dropped = {}
    /\ held # 0 => held \notin sent \cup dropped
    /\ 1..frame = sent \cup dropped \cup InHand \cup ({held} \ {0})
                  \cup Waiting(queue)

(* The recognizer is told to flush only after it was sent all the customer  *)
(* said in the window, less what backpressure dropped (turnloop.go:118-120).*)
FlushIsComplete == writer = "flushed" => 1..frame = sent \cup dropped

(* listen() gets through its SetMic calls, though the reader may hold micMu *)
(* and the writer may be stuck: "NEVER blocks it" (stt.go:58-59).           *)
ListenReturns == <>(listen = "returned")

=============================================================================
