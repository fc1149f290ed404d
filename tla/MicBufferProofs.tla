-------------------------- MODULE MicBufferProofs --------------------------
(****************************************************************************)
(* The safety properties of MicBuffer for every capacity and every number   *)
(* of frames.                                                               *)
(****************************************************************************)
EXTENDS MicBuffer, SequenceTheorems, TLAPS

(* The window, the lock and the closing of the buffer: what makes           *)
(* SetMic(nil) a barrier.                                                   *)
BarrierInv ==
    /\ push # "idle" => window /\ frame # 0
    /\ window => listen \in {"open", "leaving"} /\ ~closed
    /\ listen \in {"open", "closing"} => ~closed

(* What the writer holds.                                                   *)
WriterInv ==
    /\ writer = "sending" => held # 0
    /\ writer \in {"reading", "flushed"} => held = 0
    /\ writer = "flushed" => closed /\ queue = <<>>

MicInv == /\ MicTypeOK /\ BarrierInv /\ WriterInv
          /\ QueueIsRecent /\ NewestKept /\ FramesAccounted

----------------------------------------------------------------------------

(* What a receive takes out of the channel and what it leaves.              *)
LEMMA WaitingTail ==
    ASSUME NEW S, NEW q \in Seq(S), q # <<>>
    PROVE  /\ Head(q) = q[1] /\ Head(q) \in S /\ Len(q) >= 1 /\ Len(q) \in Nat
           /\ Tail(q) \in Seq(S) /\ Len(Tail(q)) = Len(q) - 1
           /\ \A i \in 1..Len(Tail(q)) : Tail(q)[i] = q[i + 1]
           /\ Waiting(q) = {Head(q)} \cup Waiting(Tail(q))
<1>1. /\ Head(q) \in S /\ Tail(q) \in Seq(S) /\ Len(Tail(q)) = Len(q) - 1
      /\ \A i \in 1..Len(Tail(q)) : Tail(q)[i] = q[i + 1]
  BY HeadTailProperties
<1>2. Head(q) = q[1] /\ Len(q) \in Nat /\ Len(q) >= 1
  BY EmptySeq, LenProperties
<1>3. \A i \in 1..Len(q) : i = 1 \/ (i - 1 \in 1..Len(Tail(q)) /\ Tail(q)[i - 1] = q[i])
  BY <1>1, <1>2
<1>4. \A i \in 1..Len(Tail(q)) : i + 1 \in 1..Len(q)
  BY <1>1, <1>2
<1>5. 1 \in 1..Len(q)
  BY <1>2
<1>6. Waiting(q) \subseteq {Head(q)} \cup Waiting(Tail(q))
  BY <1>2, <1>3 DEF Waiting
<1>7. {Head(q)} \cup Waiting(Tail(q)) \subseteq Waiting(q)
  BY <1>1, <1>2, <1>4, <1>5 DEF Waiting
<1> QED
  BY <1>1, <1>2, <1>6, <1>7

(* What a send puts into it.                                                *)
LEMMA WaitingAppend ==
    ASSUME NEW S, NEW q \in Seq(S), NEW e \in S
    PROVE  /\ Append(q, e) \in Seq(S) /\ Len(Append(q, e)) = Len(q) + 1 /\ Len(q) \in Nat
           /\ \A i \in 1..Len(q) : Append(q, e)[i] = q[i]
           /\ Append(q, e)[Len(q) + 1] = e
           /\ Waiting(Append(q, e)) = Waiting(q) \cup {e}
<1>1. /\ Append(q, e) \in Seq(S) /\ Len(Append(q, e)) = Len(q) + 1 /\ Len(q) \in Nat
      /\ \A i \in 1..Len(q) : Append(q, e)[i] = q[i]
      /\ Append(q, e)[Len(q) + 1] = e
  BY AppendProperties, LenProperties
<1>2. 1..(Len(q) + 1) = 1..Len(q) \cup {Len(q) + 1}
  BY <1>1
<1>3. Waiting(Append(q, e)) = Waiting(q) \cup {e}
  BY <1>1, <1>2 DEF Waiting
<1> QED
  BY <1>1, <1>3

(* A step that leaves frames, buffer and writer alone keeps what is said    *)
(* about them, provided the reader's position stays.                        *)
LEMMA FramesUntouched ==
    ASSUME MicInv, UNCHANGED <<push, frame, queue, dropped, held, sent>>
    PROVE  QueueIsRecent' /\ NewestKept' /\ FramesAccounted'
<1>1. QueueIsRecent'
  BY DEF MicInv, QueueIsRecent
<1>2. NewestKept'
  BY DEF MicInv, NewestKept
<1>3. FramesAccounted'
  BY DEF MicInv, FramesAccounted, InHand, Waiting
<1> QED
  BY <1>1, <1>2, <1>3

----------------------------------------------------------------------------

LEMMA MicInit == Init => MicInv
<1> SUFFICES ASSUME Init PROVE MicInv
  OBVIOUS
<1>1. MicTypeOK /\ BarrierInv /\ WriterInv
  <2>1. MicTypeOK
    <3>1. queue \in Seq(1..MaxFrames)
      BY EmptySeq DEF Init
    <3>2. frame \in 0..MaxFrames /\ held \in 0..MaxFrames
      BY MicAssumption DEF Init
    <3> QED
      BY <3>1, <3>2 DEF Init, MicTypeOK
  <2>2. BarrierInv
    BY MicAssumption DEF Init, MicTypeOK, BarrierInv, WriterInv
  <2>3. WriterInv
    BY MicAssumption DEF Init, MicTypeOK, BarrierInv, WriterInv
  <2> QED
    BY <2>1, <2>2, <2>3
<1>2. QueueIsRecent /\ NewestKept
  BY MicAssumption DEF Init, QueueIsRecent, NewestKept
<1>3. FramesAccounted
  <2>1. Waiting(queue) = {} /\ 1..frame = {}
    BY DEF Init, Waiting
  <2> QED
    BY <2>1 DEF Init, FramesAccounted, InHand
<1> QED
  BY <1>1, <1>2, <1>3 DEF MicInv

(* The reader enters Push with the next frame in hand.                      *)
LEMMA MicFeed == MicInv /\ FeedMic => MicInv'
<1> SUFFICES ASSUME MicInv, FeedMic PROVE MicInv'
  OBVIOUS
<1> USE MicAssumption
<1>1. MicTypeOK'
  BY DEF MicInv, MicTypeOK, FeedMic, bufferVars, writerVars
<1>2. BarrierInv' /\ WriterInv'
  BY DEF MicInv, MicTypeOK, BarrierInv, WriterInv, FeedMic, bufferVars, writerVars
<1>3. QueueIsRecent' /\ NewestKept'
  BY DEF MicInv, MicTypeOK, QueueIsRecent, NewestKept, FeedMic, bufferVars, writerVars
<1>4. FramesAccounted'
  <2>1. 1..frame' = 1..frame \cup {frame'} /\ InHand = {} /\ InHand' = {frame'}
    BY DEF MicInv, MicTypeOK, FeedMic, InHand
  <2> QED
    BY <2>1 DEF MicInv, FramesAccounted, FeedMic, bufferVars, writerVars, Waiting
<1> QED
  BY <1>1, <1>2, <1>3, <1>4 DEF MicInv

(* The frame in hand goes into the channel.                                 *)
LEMMA MicEnqueue ==
    ASSUME MicInv, push \in {"offer", "retry"}, Len(queue) < Capacity, Enqueue,
           UNCHANGED <<window, frame, closed, writerVars, listen, runDone>>
    PROVE  MicInv'
<1> USE MicAssumption
<1>1. queue \in Seq(1..MaxFrames) /\ frame \in 1..MaxFrames
  BY DEF MicInv, MicTypeOK, BarrierInv
<1>2. /\ queue' \in Seq(1..MaxFrames) /\ Len(queue') = Len(queue) + 1 /\ Len(queue) \in Nat
      /\ \A i \in 1..Len(queue) : queue'[i] = queue[i]
      /\ queue'[Len(queue) + 1] = frame
      /\ Waiting(queue') = Waiting(queue) \cup {frame}
  BY <1>1, WaitingAppend DEF Enqueue
<1>3. MicTypeOK'
  BY <1>2 DEF MicInv, MicTypeOK, Enqueue, writerVars
<1>4. BarrierInv' /\ WriterInv'
  BY DEF MicInv, MicTypeOK, BarrierInv, WriterInv, Enqueue, writerVars
<1>5. QueueIsRecent'
  <2>1. /\ \A i \in 1..Len(queue) : queue[i] = frame - 1 - Len(queue) + i
        /\ held # 0 => held <= frame - 1 - Len(queue)
        /\ \A f \in sent \cup dropped : f <= frame - 1 - Len(queue)
    BY DEF MicInv, QueueIsRecent
  <2>2. frame' - Len(queue') = frame - 1 - Len(queue) /\ push' = "idle"
    BY <1>1, <1>2 DEF Enqueue
  <2>3. \A i \in 1..Len(queue') : queue'[i] = frame' - Len(queue') + i
    <3>1. frame' = frame
      OBVIOUS
    <3>2. \A i \in 1..Len(queue') : i \in 1..Len(queue) \/ i = Len(queue) + 1
      BY <1>2
    <3>3. \A i \in 1..Len(queue) : queue'[i] = frame - 1 - Len(queue) + i
      BY <1>2, <2>1
    <3>4. queue'[Len(queue) + 1] = frame - 1 - Len(queue) + (Len(queue) + 1)
      BY <1>1, <1>2
    <3>5. frame - 1 - Len(queue) = frame' - Len(queue')
      BY <1>1, <1>2, <3>1
    <3> QED
      BY <3>2, <3>3, <3>4, <3>5
  <2> QED
    BY <2>1, <2>2, <2>3 DEF QueueIsRecent, Enqueue, writerVars
<1>6. NewestKept'
  BY <1>2 DEF NewestKept, Enqueue
<1>7. FramesAccounted'
  <2>1. InHand = {frame} /\ InHand' = {}
    BY DEF InHand, Enqueue
  <2> QED
    BY <1>2, <2>1 DEF MicInv, FramesAccounted, Enqueue, writerVars
<1> QED
  BY <1>3, <1>4, <1>5, <1>6, <1>7 DEF MicInv

LEMMA MicOffer == MicInv /\ PushOffer => MicInv'
<1> SUFFICES ASSUME MicInv, PushOffer PROVE MicInv'
  OBVIOUS
<1>1. CASE Len(queue) < Capacity /\ Enqueue
  BY <1>1, MicEnqueue DEF PushOffer
<1>2. CASE push' = "evict" /\ UNCHANGED <<queue, dropped>>
  <2>1. MicTypeOK' /\ BarrierInv' /\ WriterInv'
    <3>1. MicTypeOK'
      BY <1>2 DEF MicInv, MicTypeOK, BarrierInv, WriterInv, PushOffer, writerVars
    <3>2. BarrierInv'
      BY <1>2 DEF MicInv, MicTypeOK, BarrierInv, WriterInv, PushOffer, writerVars
    <3>3. WriterInv'
      BY <1>2 DEF MicInv, MicTypeOK, BarrierInv, WriterInv, PushOffer, writerVars
    <3> QED
      BY <3>1, <3>2, <3>3
  <2>2. QueueIsRecent' /\ NewestKept'
    BY <1>2 DEF MicInv, QueueIsRecent, NewestKept, PushOffer, writerVars
  <2>3. FramesAccounted'
    BY <1>2 DEF MicInv, FramesAccounted, InHand, Waiting, PushOffer, writerVars
  <2> QED
    BY <2>1, <2>2, <2>3 DEF MicInv
<1> QED
  BY <1>1, <1>2 DEF PushOffer

(* The oldest frame goes, and with one producer the room it leaves stays.   *)
LEMMA MicEvict == MicInv /\ PushEvict => MicInv'
<1> SUFFICES ASSUME MicInv, PushEvict PROVE MicInv'
  OBVIOUS
<1> USE MicAssumption
<1>1. queue \in Seq(1..MaxFrames) /\ frame \in 1..MaxFrames
  BY DEF MicInv, MicTypeOK, BarrierInv, PushEvict
<1>2. BarrierInv'
  BY DEF MicInv, BarrierInv, PushEvict
<1>3. CASE queue = <<>> /\ UNCHANGED <<queue, dropped>>
  <2>1. MicTypeOK' /\ WriterInv'
    BY <1>3 DEF MicInv, MicTypeOK, WriterInv, PushEvict, writerVars
  <2>2. QueueIsRecent'
    BY <1>3 DEF MicInv, QueueIsRecent, PushEvict, writerVars
  <2>3. NewestKept'
    BY <1>3 DEF NewestKept, PushEvict
  <2>4. FramesAccounted'
    BY <1>3 DEF MicInv, FramesAccounted, InHand, Waiting, PushEvict, writerVars
  <2> QED
    BY <1>2, <2>1, <2>2, <2>3, <2>4 DEF MicInv
<1>4. CASE queue # <<>> /\ dropped' = dropped \cup {Head(queue)} /\ queue' = Tail(queue)
  <2>1. /\ Head(queue) = queue[1] /\ Head(queue) \in 1..MaxFrames
        /\ Len(queue) >= 1 /\ Len(queue) \in Nat
        /\ queue' \in Seq(1..MaxFrames) /\ Len(queue') = Len(queue) - 1
        /\ \A i \in 1..Len(queue') : queue'[i] = queue[i + 1]
        /\ Waiting(queue) = {Head(queue)} \cup Waiting(queue')
    BY <1>1, <1>4, WaitingTail
  <2>2. MicTypeOK' /\ WriterInv'
    BY <1>4, <2>1 DEF MicInv, MicTypeOK, WriterInv, PushEvict, writerVars
  <2>3. /\ \A i \in 1..Len(queue) : queue[i] = frame - 1 - Len(queue) + i
        /\ held # 0 => held <= frame - 1 - Len(queue)
        /\ \A f \in sent \cup dropped : f <= frame - 1 - Len(queue)
    BY DEF MicInv, QueueIsRecent, PushEvict
  <2>4. Head(queue) = frame - 1 - Len(queue) + 1
    BY <2>1, <2>3
  <2>5. QueueIsRecent'
    <3>1. \A i \in 1..Len(queue') : queue'[i] = frame - 1 - Len(queue') + i
      BY <1>1, <2>1, <2>3
    <3>2. held # 0 => held <= frame - 1 - Len(queue')
      BY <1>1, <2>1, <2>3 DEF MicInv, MicTypeOK
    <3>3. \A f \in sent \cup dropped' : f <= frame - 1 - Len(queue')
      BY <1>1, <1>4, <2>1, <2>3, <2>4 DEF MicInv, MicTypeOK
    <3> QED
      BY <3>1, <3>2, <3>3 DEF QueueIsRecent, PushEvict, writerVars
  <2>6. NewestKept'
    BY <2>1 DEF MicInv, NewestKept, PushEvict
  <2>7. FramesAccounted'
    <3>1. Head(queue) \notin sent /\ (held # 0 => Head(queue) # held)
      BY <1>1, <2>1, <2>3, <2>4 DEF MicInv, MicTypeOK
    <3>2. InHand' = InHand
      BY DEF InHand, PushEvict
    <3> QED
      BY <1>4, <2>1, <3>1, <3>2 DEF MicInv, FramesAccounted, PushEvict, writerVars
  <2> QED
    BY <1>2, <2>2, <2>5, <2>6, <2>7 DEF MicInv
<1> QED
  BY <1>3, <1>4 DEF PushEvict

LEMMA MicRetry == MicInv /\ PushRetry => MicInv'
<1> SUFFICES ASSUME MicInv, PushRetry PROVE MicInv'
  OBVIOUS
<1>1. Len(queue) < Capacity
  BY DEF MicInv, NewestKept, PushRetry
<1> QED
  BY <1>1, MicEnqueue DEF PushRetry

(* The steps of listen(), the deadline, and the writer's steps that move no *)
(* frame.  Only here does it matter that END_SPEECH comes once.             *)
LEMMA MicListener ==
    ASSUME EndSpeechOnce, MicInv, Listener \/ Deadline \/ WriterFlushes \/ WriterStops
    PROVE  MicInv'
<1>1. UNCHANGED <<push, frame, queue, dropped, held, sent>>
  BY DEF Listener, EndSpeech, CloseInput, RunReturns, CloseWindow, Deadline, WriterFlushes,
         WriterStops, readerVars, bufferVars, writerVars
<1>2. MicTypeOK'
  BY DEF MicInv, MicTypeOK, Listener, EndSpeech, CloseInput, RunReturns, CloseWindow, Deadline,
         WriterFlushes, WriterStops, readerVars, bufferVars, writerVars
<1>3. BarrierInv'
  BY DEF MicInv, MicTypeOK, BarrierInv, Listener, EndSpeech, CloseInput, RunReturns,
         CloseWindow, Deadline, WriterFlushes, WriterStops, readerVars, bufferVars, writerVars
<1>4. WriterInv'
  BY DEF MicInv, MicTypeOK, WriterInv, Listener, EndSpeech, CloseInput, RunReturns,
         CloseWindow, Deadline, WriterFlushes, WriterStops, readerVars, bufferVars, writerVars
<1> QED
  BY <1>1, <1>2, <1>3, <1>4, FramesUntouched DEF MicInv

LEMMA MicTakes == MicInv /\ WriterTakes => MicInv'
<1> SUFFICES ASSUME MicInv, WriterTakes PROVE MicInv'
  OBVIOUS
<1> USE MicAssumption
<1>1. /\ Head(queue) = queue[1] /\ Head(queue) \in 1..MaxFrames
      /\ Len(queue) >= 1 /\ Len(queue) \in Nat
      /\ queue' \in Seq(1..MaxFrames) /\ Len(queue') = Len(queue) - 1
      /\ \A i \in 1..Len(queue') : queue'[i] = queue[i + 1]
      /\ Waiting(queue) = {Head(queue)} \cup Waiting(queue')
  BY WaitingTail DEF MicInv, MicTypeOK, WriterTakes
<1>2. MicTypeOK' /\ BarrierInv' /\ WriterInv'
  <2>1. MicTypeOK'
    BY <1>1 DEF MicInv, MicTypeOK, BarrierInv, WriterInv, WriterTakes, readerVars
  <2>2. BarrierInv'
    BY <1>1 DEF MicInv, MicTypeOK, BarrierInv, WriterInv, WriterTakes, readerVars
  <2>3. WriterInv'
    BY <1>1 DEF MicInv, MicTypeOK, BarrierInv, WriterInv, WriterTakes, readerVars
  <2> QED
    BY <2>1, <2>2, <2>3
<1> DEFINE newest == IF push = "idle" THEN frame ELSE frame - 1
<1>3. /\ \A i \in 1..Len(queue) : queue[i] = newest - Len(queue) + i
      /\ \A f \in sent \cup dropped : f <= newest - Len(queue)
      /\ newest \in Int
  BY DEF MicInv, MicTypeOK, QueueIsRecent
<1> HIDE DEF newest
<1>4. Head(queue) = newest - Len(queue) + 1
  BY <1>1, <1>3
<1>5. /\ \A i \in 1..Len(queue') : queue'[i] = newest - Len(queue') + i
      /\ held' <= newest - Len(queue')
      /\ \A f \in sent \cup dropped : f <= newest - Len(queue')
  BY <1>1, <1>3, <1>4 DEF WriterTakes, MicInv, MicTypeOK
<1>6. QueueIsRecent'
  BY <1>5 DEF QueueIsRecent, WriterTakes, readerVars, newest
<1>7. NewestKept'
  BY <1>1 DEF MicInv, NewestKept, WriterTakes, readerVars
<1>8. FramesAccounted'
  <2>1. Head(queue) \notin sent \cup dropped
    BY <1>1, <1>3, <1>4 DEF MicInv, MicTypeOK
  <2>2. InHand' = InHand /\ held = 0 /\ held' = Head(queue) /\ held' # 0
    BY <1>1 DEF MicInv, WriterInv, InHand, WriterTakes, readerVars
  <2> QED
    BY <1>1, <2>1, <2>2 DEF MicInv, FramesAccounted, WriterTakes, readerVars
<1> QED
  BY <1>2, <1>6, <1>7, <1>8 DEF MicInv

LEMMA MicSends == MicInv /\ WriterSends => MicInv'
<1> SUFFICES ASSUME MicInv, WriterSends PROVE MicInv'
  OBVIOUS
<1> USE MicAssumption
<1>1. MicTypeOK' /\ BarrierInv' /\ WriterInv'
  <2>1. MicTypeOK'
    <3>1. held \in 1..MaxFrames
      BY DEF MicInv, MicTypeOK, WriterInv, WriterSends
    <3>2. sent' \in SUBSET (1..MaxFrames)
      BY <3>1 DEF MicInv, MicTypeOK, WriterSends
    <3>3. held' \in 0..MaxFrames
      BY <3>1 DEF WriterSends
    <3>4. writer' \in {"reading", "gone"}
      BY DEF WriterSends
    <3> QED
      BY <3>2, <3>3, <3>4 DEF MicInv, MicTypeOK, WriterSends, readerVars, bufferVars
  <2>2. BarrierInv'
    BY DEF MicInv, MicTypeOK, BarrierInv, WriterInv, WriterSends, readerVars, bufferVars
  <2>3. WriterInv'
    BY DEF MicInv, MicTypeOK, BarrierInv, WriterInv, WriterSends, readerVars, bufferVars
  <2> QED
    BY <2>1, <2>2, <2>3
<1>2. NewestKept'
  BY DEF MicInv, NewestKept, WriterSends, readerVars, bufferVars
<1>3. QueueIsRecent'
  BY DEF MicInv, MicTypeOK, WriterInv, QueueIsRecent, WriterSends, readerVars, bufferVars
<1>4. FramesAccounted'
  <2>1. InHand' = InHand /\ Waiting(queue') = Waiting(queue)
    BY DEF InHand, WriterSends, readerVars, bufferVars
  <2> QED
    BY <2>1 DEF MicInv, WriterInv, FramesAccounted, WriterSends, readerVars, bufferVars
<1> QED
  BY <1>1, <1>2, <1>3, <1>4 DEF MicInv

LEMMA MicStutter == MicInv /\ UNCHANGED micVars => MicInv'
<1> SUFFICES ASSUME MicInv, UNCHANGED micVars PROVE MicInv'
  OBVIOUS
<1>1. MicTypeOK' /\ BarrierInv' /\ WriterInv'
  <2>1. MicTypeOK'
    BY DEF MicInv, MicTypeOK, BarrierInv, WriterInv, micVars, readerVars, bufferVars, writerVars
  <2>2. BarrierInv'
    BY DEF MicInv, MicTypeOK, BarrierInv, WriterInv, micVars, readerVars, bufferVars, writerVars
  <2>3. WriterInv'
    BY DEF MicInv, MicTypeOK, BarrierInv, WriterInv, micVars, readerVars, bufferVars, writerVars
  <2> QED
    BY <2>1, <2>2, <2>3
<1> QED
  BY <1>1, FramesUntouched DEF MicInv, micVars, readerVars, bufferVars, writerVars

LEMMA MicStep == EndSpeechOnce /\ MicInv /\ [Next]_micVars => MicInv'
  BY MicFeed, MicOffer, MicEvict, MicRetry, MicListener, MicTakes, MicSends, MicStutter
     DEF Next, Reader, Writer

----------------------------------------------------------------------------

(* The invariant of a turn's microphone holds for every capacity, number of *)
(* frames and order of the three goroutines.                                *)
THEOREM MicInvariant == EndSpeechOnce /\ Spec => []MicInv
<1> SUFFICES ASSUME EndSpeechOnce PROVE Spec => []MicInv
  OBVIOUS
<1>1. MicInv /\ [Next]_micVars => MicInv'
  BY MicStep
<1> QED
  BY <1>1, MicInit, PTL DEF Spec

(* No push to a closed buffer and no second close of it: the barrier        *)
(* SetMic(nil) of peer.go works, if END_SPEECH is reported once.            *)
THEOREM BufferNeverPanics == EndSpeechOnce /\ Spec => []NoPanic
<1>1. MicInv => NoPanic
  BY DEF MicInv, MicTypeOK, BarrierInv, NoPanic
<1> QED
  BY <1>1, MicInvariant, PTL

(* Backpressure drops the oldest frames only, and never the one that is     *)
(* being pushed (stt.go:71-88).                                             *)
THEOREM OnlyOldestDropped == EndSpeechOnce /\ Spec => [](QueueIsRecent /\ NewestKept)
<1>1. MicInv => QueueIsRecent /\ NewestKept
  BY DEF MicInv
<1> QED
  BY <1>1, MicInvariant, PTL

(* Every frame of the window is queued, in hand, sent, or counted as        *)
(* dropped (stt.go:71-88).                                                  *)
THEOREM FramesAreAccounted == EndSpeechOnce /\ Spec => []FramesAccounted
<1>1. MicInv => FramesAccounted
  BY DEF MicInv
<1> QED
  BY <1>1, MicInvariant, PTL

(* The variables of a turn's microphone keep their types (stt.go).          *)
THEOREM MicTypeCorrect == EndSpeechOnce /\ Spec => []MicTypeOK
<1>1. MicInv => MicTypeOK
  BY DEF MicInv
<1> QED
  BY <1>1, MicInvariant, PTL

(* When the recognizer is told to flush it has been sent all that was said  *)
(* in the window, less what was dropped and counted.                        *)
THEOREM FlushFollowsSpeech == EndSpeechOnce /\ Spec => []FlushIsComplete
<1>1. ASSUME MicInv PROVE FlushIsComplete
  <2>1. FramesAccounted
    BY <1>1 DEF MicInv
  <2>2. ASSUME writer = "flushed" PROVE 1..frame = sent \cup dropped
    <3>1. held = 0 /\ queue = <<>> /\ push = "idle"
      BY <1>1, <2>2 DEF MicInv, MicTypeOK, WriterInv, BarrierInv
    <3>2. Waiting(queue) = {} /\ InHand = {}
      BY <3>1 DEF Waiting, InHand
    <3> QED
      BY <2>1, <3>1, <3>2 DEF FramesAccounted
  <2> QED
    BY <2>1, <2>2 DEF FlushIsComplete
<1> QED
  BY <1>1, MicInvariant, PTL

=============================================================================
