--------------------------- MODULE TurnLoopProofs ---------------------------
(****************************************************************************)
(* The safety properties of TurnLoop for any number of turns, any length of *)
(* an utterance and any capacity of the inbox.                              *)
(*                                                                          *)
(* Page and loop hand each other one token: a start_turn on its way up, the *)
(* turn in the loop, the final and the agent_done on their way down, and    *)
(* the page again.  The invariant says at each place of the token what the  *)
(* other places may hold; a broken socket loses the token for good, so that *)
(* a message that is missing never breaks it.  The conversation in turns    *)
(* that it implements follows at the end.                                   *)
(****************************************************************************)
EXTENDS TurnLoop, SequenceLemmas, TLAPS

Controls == {"start_turn", "end"}
Messages == [kind : {"audio", "final", "agent_done", "error"},
             turn : 0..MaxTurns, status : Statuses]

InTurn == {"dialing", "listening", "asking"}
Idle == {"waiting", "exited"}
Replying == Idle \cup {"speaking", "done"}
Over == {"ending", "closing", "ended"}

(* A start_turn is on its way.                                              *)
Pending == \E q \in {up, inbox} : \E i \in 1..Len(q) : q[i] = "start_turn"

(* What is on its way to the loop: at most one start_turn, before any end,  *)
(* and then nothing comes down and the page is silent.                      *)
UpOK ==
    /\ \A i \in 1..Len(up) : up[i] = "start_turn" => i = 1 /\ inbox = <<>>
    /\ \A i \in 1..Len(inbox) : inbox[i] = "start_turn" => i = 1
    /\ \A q \in {up, inbox} : \A i \in 1..Len(q) : q[i] = "end" => page \in {"closing", "ended"}
    /\ Pending => /\ page \in {"turn"} \cup Over /\ loop \in Idle
                  /\ down = <<>> /\ playing = 0 /\ asked = turn + 1

(* Where the page can be while the loop is in one place.                    *)
LoopOK ==
    /\ loop \in InTurn => /\ page \in {"turn"} \cup Over
                          /\ down = <<>> /\ playing = 0 /\ asked = turn /\ turn > 0
    /\ window => loop \in {"dialing", "listening"}
    /\ loop = "speaking" => page \in {"turn", "reply"} \cup Over /\ asked = turn
    /\ loop \in {"boot", "greeting", "unbooted"} => page \in {"opening", "greeting"} \cup Over
    /\ loop = "done" => page # "draining"

(* What is on its way to the page: agent_done is the last thing the loop    *)
(* says, a final the first thing the page reads in its turn.                *)
DownOK ==
    /\ \A i \in 1..Len(down) :
         /\ down[i].kind = "agent_done" => i = Len(down) /\ loop \in Idle
         /\ down[i].kind = "final" => /\ i = 1 /\ page \in {"turn", "ending"}
                                      /\ down[i].turn = asked
                                      /\ down[i].status = "active" => asked < MaxTurns
    /\ signals > 0 => page = "opening" /\ down = <<>> /\ loop \in Idle

(* Where the loop can be while the page is in one place.                    *)
PageOK ==
    /\ page \in {"opening", "greeting"} =>
         asked = 0 /\ turn = 0 /\ loop \in Idle \cup {"boot", "greeting", "done", "unbooted"}
    /\ page = "turn" /\ down # <<>> =>
         Head(down).kind \in {"final", "error"} /\ asked = turn /\ loop \in Replying
    /\ page = "turn" /\ loop \in {"speaking", "done"} =>
         asked = turn /\ (sock = "open" => down # <<>>)
    /\ page \in {"reply", "draining"} =>
         asked = turn /\ loop \in Replying /\ (pageStatus = "active" => asked < MaxTurns)
    /\ page = "draining" => down = <<>> /\ drainLeft = playing /\ loop \in Idle
    /\ page \in {"closing", "ended"} => down = <<>> /\ sock = "closed"

TurnInv == TurnTypeOK /\ UpOK /\ LoopOK /\ DownOK /\ PageOK

----------------------------------------------------------------------------
(* The messages.                                                            *)

LEMMA QueuesTyped ==
    ASSUME TurnTypeOK
    PROVE  /\ down \in Seq(Messages) /\ up \in Seq(Controls) /\ inbox \in Seq(Controls)
           /\ Len(down) \in Nat /\ Len(up) \in Nat /\ Len(inbox) \in Nat
<1>1. down \in Seq(Messages) /\ up \in Seq(Controls) /\ inbox \in Seq(Controls)
  BY DEF TurnTypeOK, Messages, Controls
<1> QED
  BY <1>1, LenProperties

(* A message to the page comes behind those on their way, or nowhere.       *)
LEMMA Sending ==
    ASSUME NEW m \in Messages, Send(m), down \in Seq(Messages)
    PROVE  /\ down' \in Seq(Messages) /\ Len(down) \in Nat
           /\ sock # "open" => down' = down
           /\ sock = "open" => /\ down' # <<>>
                               /\ Len(down') = Len(down) + 1
                               /\ down'[Len(down) + 1] = m
                               /\ \A i \in 1..Len(down) : down'[i] = down[i]
                               /\ down # <<>> => Head(down') = Head(down)
                               /\ down = <<>> => Head(down') = m /\ Len(down) = 0
<1>1. Len(down) \in Nat /\ (down = <<>> <=> Len(down) = 0)
  BY LenProperties, EmptySeq
<1>2. down' \in Seq(Messages) /\ (sock # "open" => down' = down)
  BY AppendItems DEF Send
<1>3. ASSUME sock = "open"
      PROVE  /\ down' # <<>> /\ Len(down') = Len(down) + 1 /\ down'[Len(down) + 1] = m
             /\ \A i \in 1..Len(down) : down'[i] = down[i]
  BY <1>3, AppendItems DEF Send
<1>4. sock = "open" => Head(down') = down'[1]
  BY <1>2, <1>3, TailItems
<1>5. down # <<>> => Head(down) = down[1] /\ 1 \in 1..Len(down)
  BY <1>1, TailItems
<1> QED
  BY <1>1, <1>2, <1>3, <1>4, <1>5

----------------------------------------------------------------------------
(* The page.                                                                *)

(* What a message tells of the loop and of the rest of the queue when the   *)
(* page takes it.                                                           *)
LEMMA Receiving ==
    ASSUME TurnInv, NEW kind, Receives(kind)
    PROVE  /\ Head(down) \in Messages /\ down' \in Seq(Messages)
           /\ page \in Live /\ page # "draining" /\ signals = 0
           /\ ~Pending /\ loop \notin InTurn
           /\ \A i \in 1..Len(down') :
                  /\ down'[i].kind # "final"
                  /\ down'[i].kind = "agent_done" => i = Len(down') /\ loop \in Idle
           /\ kind = "agent_done" => down' = <<>> /\ loop \in Idle
           /\ kind = "final" => /\ page = "turn" /\ asked = turn
                                /\ Head(down).status = "active" => asked < MaxTurns
           /\ page = "turn" => kind \in {"final", "error"} /\ asked = turn /\ loop \in Replying
<1>1. /\ down \in Seq(Messages) /\ down # <<>> /\ down' = Tail(down)
      /\ page \in Live /\ Head(down).kind = kind
  BY QueuesTyped DEF TurnInv, Receives
<1>2. /\ Head(down) = down[1] /\ Head(down) \in Messages /\ down' \in Seq(Messages)
      /\ Len(down) \in Nat \ {0} /\ Len(down') = Len(down) - 1
      /\ \A i \in 1..Len(down') : down'[i] = down[i + 1] /\ i + 1 \in 1..Len(down)
      /\ Len(down) = 1 => down' = <<>>
  BY <1>1, TailItems
<1>3. \A i \in 1..Len(down) :
          /\ down[i].kind = "agent_done" => i = Len(down) /\ loop \in Idle
          /\ down[i].kind = "final" => i = 1
  BY DEF TurnInv, DownOK
<1>4. 1 \in 1..Len(down)
  BY <1>2
<1>5. \A i \in 1..Len(down') :
          /\ down'[i].kind # "final"
          /\ down'[i].kind = "agent_done" => i = Len(down') /\ loop \in Idle
  <2> TAKE i \in 1..Len(down')
  <2>1. down'[i] = down[i + 1] /\ i + 1 \in 1..Len(down) /\ i + 1 # 1
    BY <1>2
  <2>2. i + 1 = Len(down) => i = Len(down')
    BY <1>2
  <2> QED
    BY <1>3, <2>1, <2>2
<1>6. kind = "agent_done" => down' = <<>> /\ loop \in Idle
  BY <1>1, <1>2, <1>3, <1>4
<1>7. page = "turn" => kind \in {"final", "error"} /\ asked = turn /\ loop \in Replying
  BY <1>1 DEF TurnInv, PageOK
<1>8. kind = "final" => page = "turn" /\ (Head(down).status = "active" => asked < MaxTurns)
  BY <1>1, <1>2, <1>4 DEF TurnInv, DownOK, Live
<1>9. signals = 0
  BY <1>1 DEF TurnInv, TurnTypeOK, DownOK
<1>10. page # "draining" /\ ~Pending /\ loop \notin InTurn
  BY <1>1 DEF TurnInv, PageOK, UpOK, LoopOK
<1> QED
  BY <1>1, <1>2, <1>5, <1>6, <1>7, <1>8, <1>9, <1>10

LEMMA PlayAgentChunkKeeps ==
    ASSUME TurnInv, PlayAgentChunk
    PROVE  TurnInv'
<1>1. Receives("audio")
  BY DEF PlayAgentChunk
<1>2. /\ Head(down) \in Messages /\ down' \in Seq(Messages)
      /\ page \in Live /\ page # "draining" /\ signals = 0
      /\ ~Pending /\ loop \notin InTurn
      /\ \A i \in 1..Len(down') :
             /\ down'[i].kind # "final"
             /\ down'[i].kind = "agent_done" => i = Len(down') /\ loop \in Idle
      /\ page # "turn"
  BY <1>1, Receiving
<1>3. UNCHANGED <<up, sock, inbox, loopVars, sttVars, brain, cancelled>>
  BY <1>1 DEF Receives
<1>4. TurnTypeOK'
  BY <1>2, <1>3
     DEF TurnInv, TurnTypeOK, Messages, Statuses, Live, PlayAgentChunk, loopVars, sttVars
<1>5. UpOK'
  BY <1>2, <1>3 DEF TurnInv, UpOK, Pending, Live, Over, PlayAgentChunk, loopVars
<1>6. LoopOK'
  BY <1>2, <1>3 DEF TurnInv, LoopOK, InTurn, Live, Over, Idle, PlayAgentChunk, loopVars
<1>7. DownOK'
  BY <1>2, <1>3 DEF TurnInv, DownOK, Idle, Live, PlayAgentChunk, loopVars
<1>8. PageOK'
  BY <1>2, <1>3, TurnLoopAssumption
     DEF TurnInv, PageOK, TurnTypeOK, InTurn, Idle, Replying, Live, PlayAgentChunk, loopVars
<1> QED
  BY <1>4, <1>5, <1>6, <1>7, <1>8 DEF TurnInv

LEMMA OnFinalKeeps ==
    ASSUME TurnInv, OnFinal
    PROVE  TurnInv'
<1>1. Receives("final")
  BY DEF OnFinal
<1>2. /\ Head(down) \in Messages /\ down' \in Seq(Messages)
      /\ page \in Live /\ page # "draining" /\ signals = 0
      /\ ~Pending /\ loop \notin InTurn
      /\ \A i \in 1..Len(down') :
             /\ down'[i].kind # "final"
             /\ down'[i].kind = "agent_done" => i = Len(down') /\ loop \in Idle
      /\ page = "turn" /\ asked = turn /\ loop \in Replying
      /\ Head(down).status = "active" => asked < MaxTurns
  BY <1>1, Receiving
<1>3. UNCHANGED <<up, sock, inbox, loopVars, sttVars, brain, cancelled>>
  BY <1>1 DEF Receives
<1>4. TurnTypeOK'
  BY <1>2, <1>3
     DEF TurnInv, TurnTypeOK, Messages, Statuses, Live, OnFinal, WaitForAgentDone, loopVars,
         sttVars
<1>5. UpOK'
  BY <1>2, <1>3 DEF TurnInv, UpOK, Pending, Live, Over, OnFinal, WaitForAgentDone, loopVars
<1>6. LoopOK'
  BY <1>2, <1>3
     DEF TurnInv, LoopOK, InTurn, Live, Over, Idle, OnFinal, WaitForAgentDone, loopVars
<1>7. DownOK'
  BY <1>2, <1>3 DEF TurnInv, DownOK, Idle, Live, OnFinal, WaitForAgentDone, loopVars
<1>8. PageOK'
  BY <1>2, <1>3, TurnLoopAssumption
     DEF TurnInv, PageOK, TurnTypeOK, InTurn, Idle, Replying, Live, OnFinal,
         WaitForAgentDone, loopVars
<1> QED
  BY <1>4, <1>5, <1>6, <1>7, <1>8 DEF TurnInv

LEMMA OnAgentDoneKeeps ==
    ASSUME TurnInv, OnAgentDone
    PROVE  TurnInv'
<1>1. Receives("agent_done")
  BY DEF OnAgentDone
<1>2. /\ Head(down) \in Messages /\ down' \in Seq(Messages)
      /\ page \in Live /\ page # "draining" /\ signals = 0
      /\ ~Pending /\ loop \notin InTurn
      /\ \A i \in 1..Len(down') :
             /\ down'[i].kind # "final"
             /\ down'[i].kind = "agent_done" => i = Len(down') /\ loop \in Idle
      /\ down' = <<>> /\ loop \in Idle /\ page # "turn"
  BY <1>1, Receiving
<1>3. UNCHANGED <<up, sock, inbox, loopVars, sttVars, brain, cancelled>>
  BY <1>1 DEF Receives
<1>4. TurnTypeOK'
  BY <1>2, <1>3
     DEF TurnInv, TurnTypeOK, Messages, Statuses, Live, OnAgentDone, loopVars, sttVars
<1>5. UpOK'
  BY <1>2, <1>3 DEF TurnInv, UpOK, Pending, Live, Over, OnAgentDone, loopVars
<1>6. LoopOK'
  BY <1>2, <1>3 DEF TurnInv, LoopOK, InTurn, Live, Over, Idle, OnAgentDone, loopVars
<1>7. DownOK'
  BY <1>2, <1>3 DEF TurnInv, DownOK, Idle, Live, OnAgentDone, loopVars
<1>8. PageOK'
  BY <1>2, <1>3, TurnLoopAssumption
     DEF TurnInv, PageOK, TurnTypeOK, InTurn, Idle, Replying, Live, OnAgentDone, loopVars
<1> QED
  BY <1>4, <1>5, <1>6, <1>7, <1>8 DEF TurnInv

LEMMA OnErrorKeeps ==
    ASSUME TurnInv, OnError
    PROVE  TurnInv'
<1>1. Receives("error")
  BY DEF OnError
<1>2. /\ Head(down) \in Messages /\ down' \in Seq(Messages)
      /\ page \in Live /\ page # "draining" /\ signals = 0
      /\ ~Pending /\ loop \notin InTurn
      /\ \A i \in 1..Len(down') :
             /\ down'[i].kind # "final"
             /\ down'[i].kind = "agent_done" => i = Len(down') /\ loop \in Idle
      /\ page = "turn" => asked = turn /\ loop \in Replying
  BY <1>1, Receiving
<1>3. UNCHANGED <<up, sock, inbox, loopVars, sttVars, brain, cancelled>>
  BY <1>1 DEF Receives
<1>4. TurnTypeOK'
  BY <1>2, <1>3
     DEF TurnInv, TurnTypeOK, Messages, Statuses, Live, OnError, loopVars, sttVars
<1>5. UpOK'
  BY <1>2, <1>3 DEF TurnInv, UpOK, Pending, Live, Over, OnError, loopVars
<1>6. LoopOK'
  BY <1>2, <1>3 DEF TurnInv, LoopOK, InTurn, Live, Over, Idle, OnError, loopVars
<1>7. DownOK'
  BY <1>2, <1>3 DEF TurnInv, DownOK, Idle, Live, OnError, loopVars
<1>8. PageOK'
  BY <1>2, <1>3, TurnLoopAssumption
     DEF TurnInv, PageOK, TurnTypeOK, InTurn, Idle, Replying, Live, OnError, loopVars
<1> QED
  BY <1>4, <1>5, <1>6, <1>7, <1>8 DEF TurnInv

LEMMA PageOpensKeeps ==
    ASSUME TurnInv, PageOpens
    PROVE  TurnInv'
<1>1. signals \in 0..1 /\ (signals > 0 => down = <<>> /\ loop \in Idle)
  BY DEF TurnInv, TurnTypeOK, DownOK
<1>2. TurnTypeOK'
  BY <1>1
     DEF TurnInv, TurnTypeOK, Statuses, Live, PageOpens, WaitForAgentDone, sockVars,
         loopVars, sttVars
<1>3. UpOK'
  BY <1>1
     DEF TurnInv, UpOK, Pending, Over, PageOK, PageOpens, WaitForAgentDone, sockVars,
         loopVars
<1>4. LoopOK'
  BY <1>1
     DEF TurnInv, LoopOK, PageOK, InTurn, Over, Idle, Replying, PageOpens, WaitForAgentDone,
         sockVars, loopVars
<1>5. DownOK'
  BY <1>1 DEF TurnInv, DownOK, PageOK, Idle, PageOpens, WaitForAgentDone, sockVars, loopVars
<1>6. PageOK'
  BY <1>1, TurnLoopAssumption
     DEF TurnInv, PageOK, TurnTypeOK, DownOK, Idle, Replying, Live, PageOpens,
         WaitForAgentDone, sockVars, loopVars
<1> QED
  BY <1>2, <1>3, <1>4, <1>5, <1>6 DEF TurnInv

LEMMA ChunkPlayedKeeps ==
    ASSUME TurnInv, ChunkPlayed
    PROVE  TurnInv'
<1>1. drainLeft \in 0..playing /\ playing \in Nat
  BY DEF TurnInv, TurnTypeOK
<1>2. TurnTypeOK'
  BY <1>1 DEF TurnInv, TurnTypeOK, Statuses, Live, ChunkPlayed, sockVars, loopVars, sttVars
<1>3. UpOK'
  BY <1>1 DEF TurnInv, UpOK, Pending, Over, PageOK, ChunkPlayed, sockVars, loopVars
<1>4. LoopOK'
  BY <1>1
     DEF TurnInv, LoopOK, PageOK, InTurn, Over, Idle, Replying, ChunkPlayed, sockVars,
         loopVars
<1>5. DownOK'
  BY <1>1 DEF TurnInv, DownOK, PageOK, Idle, ChunkPlayed, sockVars, loopVars
<1>6. PageOK'
  BY <1>1, TurnLoopAssumption
     DEF TurnInv, PageOK, TurnTypeOK, DownOK, Idle, Replying, Live, ChunkPlayed, sockVars,
         loopVars
<1> QED
  BY <1>2, <1>3, <1>4, <1>5, <1>6 DEF TurnInv

LEMMA UserEndsKeeps ==
    ASSUME TurnInv, UserEnds
    PROVE  TurnInv'
<1>1. signals \in 0..1 /\ ~(signals > 0)
  BY DEF TurnInv, TurnTypeOK, DownOK, UserEnds
<1>2. TurnTypeOK'
  BY <1>1 DEF TurnInv, TurnTypeOK, Statuses, Live, UserEnds, sockVars, loopVars, sttVars
<1>3. UpOK'
  BY <1>1 DEF TurnInv, UpOK, Pending, Live, Over, PageOK, UserEnds, sockVars, loopVars
<1>4. LoopOK'
  BY <1>1
     DEF TurnInv, LoopOK, PageOK, InTurn, Live, Over, Idle, Replying, UserEnds, sockVars,
         loopVars
<1>5. DownOK'
  BY <1>1 DEF TurnInv, DownOK, PageOK, Idle, Live, UserEnds, sockVars, loopVars
<1>6. PageOK'
  BY <1>1, TurnLoopAssumption
     DEF TurnInv, PageOK, TurnTypeOK, DownOK, Idle, Replying, Live, UserEnds, sockVars,
         loopVars
<1> QED
  BY <1>2, <1>3, <1>4, <1>5, <1>6 DEF TurnInv

LEMMA PostEndKeeps ==
    ASSUME TurnInv, PostEnd
    PROVE  TurnInv'
<1>1. signals \in 0..1 /\ ~(signals > 0)
  BY DEF TurnInv, TurnTypeOK, DownOK, PostEnd
<1>2. TurnTypeOK'
  BY <1>1 DEF TurnInv, TurnTypeOK, Statuses, Live, PostEnd, sockVars, loopVars, sttVars
<1>3. UpOK'
  BY <1>1 DEF TurnInv, UpOK, Pending, Over, PageOK, PostEnd, sockVars, loopVars
<1>4. LoopOK'
  BY <1>1
     DEF TurnInv, LoopOK, PageOK, InTurn, Over, Idle, Replying, PostEnd, sockVars, loopVars
<1>5. DownOK'
  BY <1>1 DEF TurnInv, DownOK, PageOK, Idle, PostEnd, sockVars, loopVars
<1>6. PageOK'
  BY <1>1, TurnLoopAssumption
     DEF TurnInv, PageOK, TurnTypeOK, DownOK, Idle, Replying, Live, PostEnd, sockVars,
         loopVars
<1> QED
  BY <1>2, <1>3, <1>4, <1>5, <1>6 DEF TurnInv

(* A start_turn goes up only on an empty way.                              *)
LEMMA PageGoesOnKeeps ==
    ASSUME TurnInv, PageGoesOn
    PROVE  TurnInv'
<1>1. /\ page = "draining" /\ down = <<>> /\ playing = 0 /\ signals = 0
      /\ asked = turn /\ loop \in Idle /\ (pageStatus = "active" => asked < MaxTurns)
  BY DEF TurnInv, PageOK, DownOK, TurnTypeOK, PageGoesOn
<1>2. up = <<>> /\ inbox = <<>>
  <2>1. ASSUME NEW q \in {up, inbox} PROVE \A i \in 1..Len(q) : FALSE
    <3>1. q \in Seq(Controls)
      BY <2>1, QueuesTyped DEF TurnInv
    <3>2. \A i \in 1..Len(q) : q[i] \in Controls
      BY <3>1, ElementOfSeq
    <3> QED
      BY <1>1, <2>1, <3>2 DEF TurnInv, UpOK, Pending, Over, Controls
  <2>2. up \in Seq(Controls) /\ inbox \in Seq(Controls) /\ Len(up) \in Nat /\ Len(inbox) \in Nat
    BY QueuesTyped DEF TurnInv
  <2>3. Len(up) = 0 /\ Len(inbox) = 0
    BY <2>1, <2>2
  <2> QED
    BY <2>2, <2>3, EmptySeq
<1>3. /\ up' \in Seq(Controls) /\ inbox' = <<>>
      /\ \A i \in 1..Len(up') : i = 1 /\ up'[i] = "start_turn" /\ page' = "turn" /\ asked' = turn + 1
      /\ Len(inbox') = 0
  <2>1. Append(<<>>, "start_turn") = <<"start_turn">>
    OBVIOUS
  <2>2. up' = <<>> \/ (up' = <<"start_turn">> /\ page' = "turn" /\ asked' = turn + 1)
    BY <1>1, <1>2, <2>1 DEF PageGoesOn, StartTurn
  <2>3. inbox' = <<>>
    BY <1>2 DEF PageGoesOn
  <2>4. CASE up' = <<>>
    BY <2>3, <2>4
  <2>5. CASE up' = <<"start_turn">> /\ page' = "turn" /\ asked' = turn + 1
    <3>1. Len(up') = 1 /\ up'[1] = "start_turn"
      BY <2>5
    <3>2. up' \in Seq(Controls)
      BY <2>5 DEF Controls
    <3> QED
      BY <2>3, <2>5, <3>1, <3>2
  <2> QED
    BY <2>2, <2>4, <2>5
<1>4. TurnTypeOK'
  <2>1. asked' \in 0..MaxTurns /\ turn' \in 0..asked'
    BY <1>1, TurnLoopAssumption DEF TurnInv, TurnTypeOK, PageGoesOn, StartTurn, loopVars
  <2>2. page' \in {"turn", "ending"} /\ down' = down /\ sock' = sock
    BY DEF PageGoesOn, StartTurn
  <2> QED
    BY <1>3, <2>1, <2>2
       DEF TurnInv, TurnTypeOK, Controls, Live, PageGoesOn, loopVars, sttVars
<1>5. UpOK'
  BY <1>1, <1>2, <1>3
     DEF TurnInv, UpOK, Pending, Over, PageGoesOn, StartTurn, loopVars, sttVars
<1>6. LoopOK'
  BY <1>1, <1>2, <1>3
     DEF TurnInv, LoopOK, PageOK, InTurn, Over, Idle, Replying, PageGoesOn, StartTurn,
         loopVars, sttVars
<1>7. DownOK'
  BY <1>1, <1>2, <1>3
     DEF TurnInv, DownOK, PageOK, Idle, PageGoesOn, StartTurn, loopVars, sttVars
<1>8. PageOK'
  BY <1>1, <1>2, <1>3, TurnLoopAssumption
     DEF TurnInv, PageOK, TurnTypeOK, DownOK, Idle, Replying, Live, PageGoesOn, StartTurn,
         loopVars, sttVars
<1> QED
  BY <1>4, <1>5, <1>6, <1>7, <1>8 DEF TurnInv

LEMMA StopMediaKeeps ==
    ASSUME TurnInv, StopMedia
    PROVE  TurnInv'
<1>1. /\ up \in Seq(Controls) /\ Len(up) \in Nat /\ Len(inbox) \in Nat
  BY QueuesTyped DEF TurnInv
<1>2. /\ up' \in Seq(Controls)
      /\ \A i \in 1..Len(up') : up'[i] = "start_turn" => i \in 1..Len(up) /\ up[i] = "start_turn"
  BY <1>1, AppendItems DEF StopMedia, Controls
<1>3. down' = <<>> /\ Len(down') = 0 /\ down' \in Seq(Messages)
  BY EmptySeq DEF StopMedia
<1>4. TurnTypeOK'
  BY <1>1, <1>2, <1>3
     DEF TurnInv, TurnTypeOK, Messages, Controls, Statuses, Live, StopMedia, loopVars,
         sttVars
<1>5. UpOK'
  BY <1>1, <1>2, <1>3 DEF TurnInv, UpOK, Pending, Over, StopMedia, loopVars, sttVars
<1>6. LoopOK'
  BY <1>1, <1>2, <1>3
     DEF TurnInv, LoopOK, PageOK, InTurn, Over, Idle, Replying, StopMedia, loopVars, sttVars
<1>7. DownOK'
  BY <1>1, <1>2, <1>3 DEF TurnInv, DownOK, PageOK, Idle, StopMedia, loopVars, sttVars
<1>8. PageOK'
  BY <1>1, <1>2, <1>3, TurnLoopAssumption
     DEF TurnInv, PageOK, TurnTypeOK, DownOK, Idle, Replying, Live, StopMedia, loopVars,
         sttVars
<1> QED
  BY <1>4, <1>5, <1>6, <1>7, <1>8 DEF TurnInv

(* The start_turn passes from the socket to the inbox, which has room for it. *)
LEMMA ControlReadKeeps ==
    ASSUME TurnInv, ControlRead
    PROVE  TurnInv'
<1>1. /\ up \in Seq(Controls) /\ inbox \in Seq(Controls) /\ up # <<>> /\ up' = Tail(up)
      /\ inbox' = inbox \/ inbox' = Append(inbox, Head(up))
      /\ inbox = <<>> => inbox' = Append(inbox, Head(up))
  <2>1. inbox = <<>> => Len(inbox) < InboxSize
    BY TurnLoopAssumption
  <2> QED
    BY <2>1, QueuesTyped DEF TurnInv, ControlRead
<1>2. /\ Head(up) = up[1] /\ Head(up) \in Controls /\ up' \in Seq(Controls)
      /\ \A i \in 1..Len(up') : up'[i] = up[i + 1] /\ i + 1 \in 1..Len(up) /\ i + 1 # 1
      /\ 1 \in 1..Len(up)
  BY <1>1, TailItems
<1>3. /\ inbox' \in Seq(Controls) /\ Len(inbox) \in Nat
      /\ \A i \in 1..Len(inbox') : \/ i \in 1..Len(inbox) /\ inbox'[i] = inbox[i]
                                   \/ i = Len(inbox) + 1 /\ inbox'[i] = up[1]
  <2>1. Len(inbox) \in Nat
    BY <1>1, LenProperties
  <2>2. CASE inbox' = inbox
    BY <1>1, <2>1, <2>2
  <2>3. CASE inbox' = Append(inbox, Head(up))
    BY <1>1, <1>2, <2>1, <2>3, AppendItems
  <2> QED
    BY <1>1, <2>2, <2>3
<1>4. /\ \A i \in 1..Len(up') : up'[i] # "start_turn" 
      /\ \A i \in 1..Len(inbox') : inbox'[i] = "start_turn" => i = 1 /\ Pending
      /\ \A q \in {up', inbox'} : \A i \in 1..Len(q) : q[i] = "end" => page \in {"closing", "ended"}
  <2>1. \A i \in 1..Len(up') : up'[i] # "start_turn"
    BY <1>2 DEF TurnInv, UpOK
  <2>2. ASSUME NEW i \in 1..Len(inbox'), inbox'[i] = "start_turn" PROVE i = 1 /\ Pending
    <3>1. CASE i \in 1..Len(inbox) /\ inbox'[i] = inbox[i]
      BY <2>2, <3>1 DEF TurnInv, UpOK, Pending
    <3>2. CASE i = Len(inbox) + 1 /\ inbox'[i] = up[1]
      <4>1. inbox = <<>>
        BY <1>2, <2>2, <3>2 DEF TurnInv, UpOK
      <4>2. Len(inbox) = 0
        BY <4>1
      <4> QED
        BY <1>2, <2>2, <3>2, <4>2 DEF Pending
    <3> QED
      BY <1>3, <3>1, <3>2
  <2>3. \A i \in 1..Len(up') : up'[i] = "end" => page \in {"closing", "ended"}
    BY <1>2 DEF TurnInv, UpOK
  <2>4. \A i \in 1..Len(inbox') : inbox'[i] = "end" => page \in {"closing", "ended"}
    BY <1>2, <1>3 DEF TurnInv, UpOK
  <2> QED
    BY <2>1, <2>2, <2>3, <2>4
<1>5. TurnTypeOK'
  BY <1>4, <1>2, <1>3
     DEF TurnInv, TurnTypeOK, Controls, Statuses, Live, ControlRead, pageVars, loopVars,
         sttVars
<1>6. UpOK'
  BY <1>4, <1>2, <1>3
     DEF TurnInv, UpOK, Pending, Over, ControlRead, pageVars, loopVars, sttVars
<1>7. LoopOK'
  BY <1>4, <1>2, <1>3
     DEF TurnInv, LoopOK, PageOK, InTurn, Over, Idle, Replying, ControlRead, pageVars,
         loopVars, sttVars
<1>8. DownOK'
  BY <1>4, <1>2, <1>3
     DEF TurnInv, DownOK, PageOK, Idle, ControlRead, pageVars, loopVars, sttVars
<1>9. PageOK'
  BY <1>4, <1>2, <1>3, TurnLoopAssumption
     DEF TurnInv, PageOK, TurnTypeOK, DownOK, Idle, Replying, Live, ControlRead, pageVars,
         loopVars, sttVars
<1> QED
  BY <1>5, <1>6, <1>7, <1>8, <1>9 DEF TurnInv

(* What gets through is the first of what was on its way.                   *)
LEMMA SockDropsKeeps ==
    ASSUME TurnInv, SockDrops
    PROVE  TurnInv'
<1>1. /\ down \in Seq(Messages) /\ up \in Seq(Controls) /\ Len(down) \in Nat /\ Len(up) \in Nat
  BY QueuesTyped DEF TurnInv
<1>2. /\ down' \in Seq(Messages) /\ (down = <<>> => down' = <<>>)
      /\ \A i \in 1..Len(down') : /\ down'[i] = down[i] /\ i \in 1..Len(down)
                                  /\ i = Len(down) => i = Len(down')
      /\ down' # <<>> => Head(down') = Head(down)
  <2>1. PICK n \in 0..Len(down) : down' = SubSeq(down, 1, n)
    BY DEF SockDrops
  <2>2. /\ down' \in Seq(Messages) /\ Len(down') = n /\ (down = <<>> => down' = <<>>)
        /\ \A i \in 1..n : down'[i] = down[i] /\ i \in 1..Len(down)
    BY <1>1, <2>1, PrefixItems
  <2>3. \A i \in 1..n : i = Len(down) => i = n
    BY <1>1
  <2>4. down' # <<>> => Head(down') = down'[1] /\ 1 \in 1..Len(down')
    BY <2>2, TailItems
  <2>5. down # <<>> => Head(down) = down[1]
    BY <1>1, TailItems
  <2> QED
    BY <2>2, <2>3, <2>4, <2>5
<1>3. /\ up' \in Seq(Controls)
      /\ \A i \in 1..Len(up') : up'[i] = up[i] /\ i \in 1..Len(up)
  <2>1. PICK n \in 0..Len(up) : up' = SubSeq(up, 1, n)
    BY DEF SockDrops
  <2> QED
    BY <1>1, <2>1, PrefixItems
<1>4. TurnTypeOK'
  BY <1>1, <1>2, <1>3
     DEF TurnInv, TurnTypeOK, Messages, Controls, Statuses, Live, SockDrops, pageVars,
         loopVars, sttVars
<1>5. UpOK'
  BY <1>1, <1>2, <1>3
     DEF TurnInv, UpOK, Pending, Over, SockDrops, pageVars, loopVars, sttVars
<1>6. LoopOK'
  BY <1>1, <1>2, <1>3
     DEF TurnInv, LoopOK, PageOK, InTurn, Over, Idle, Replying, SockDrops, pageVars,
         loopVars, sttVars
<1>7. DownOK'
  BY <1>1, <1>2, <1>3
     DEF TurnInv, DownOK, PageOK, Idle, SockDrops, pageVars, loopVars, sttVars
<1>8. PageOK'
  BY <1>1, <1>2, <1>3, TurnLoopAssumption
     DEF TurnInv, PageOK, TurnTypeOK, DownOK, Idle, Replying, Live, SockDrops, pageVars,
         loopVars, sttVars
<1> QED
  BY <1>4, <1>5, <1>6, <1>7, <1>8 DEF TurnInv

LEMMA CancelKeeps ==
    ASSUME TurnInv, Cancel
    PROVE  TurnInv'
<1>1. TurnTypeOK'
  BY TurnLoopAssumption
     DEF TurnInv, TurnTypeOK, Statuses, Live, Cancel, pageVars, sockVars, loopVars, sttVars
<1>2. UpOK'
  BY TurnLoopAssumption
     DEF TurnInv, UpOK, Pending, Over, Cancel, pageVars, sockVars, loopVars, sttVars
<1>3. LoopOK'
  BY TurnLoopAssumption
     DEF TurnInv, LoopOK, PageOK, InTurn, Over, Idle, Replying, Cancel, pageVars, sockVars,
         loopVars, sttVars
<1>4. DownOK'
  BY TurnLoopAssumption
     DEF TurnInv, DownOK, PageOK, Idle, Cancel, pageVars, sockVars, loopVars, sttVars
<1>5. PageOK'
  BY TurnLoopAssumption
     DEF TurnInv, PageOK, TurnTypeOK, DownOK, Idle, Replying, Live, Cancel, pageVars,
         sockVars, loopVars, sttVars
<1> QED
  BY <1>1, <1>2, <1>3, <1>4, <1>5 DEF TurnInv

----------------------------------------------------------------------------
(* The turn loop.                                                           *)

(* Before its agent_done the loop only ever adds behind a queue without one. *)
LEMMA SendingOn ==
    ASSUME TurnInv, NEW m \in Messages, m.kind \in {"audio", "error"}, loop \notin Idle, Send(m)
    PROVE  /\ down' \in Seq(Messages) /\ signals = 0 /\ ~Pending
           /\ sock # "open" => down' = down
           /\ \A i \in 1..Len(down') :
                  /\ down'[i].kind # "agent_done"
                  /\ down'[i].kind = "final" => i \in 1..Len(down) /\ down'[i] = down[i]
           /\ sock = "open" => down' # <<>>
           /\ down # <<>> => down' # <<>> /\ Head(down') = Head(down)
           /\ down = <<>> /\ down' # <<>> => Head(down') = m
<1>1. down \in Seq(Messages)
  BY QueuesTyped DEF TurnInv
<1>2. /\ down' \in Seq(Messages) /\ Len(down) \in Nat
      /\ sock # "open" => down' = down
      /\ sock = "open" => /\ down' # <<>>
                          /\ Len(down') = Len(down) + 1
                          /\ down'[Len(down) + 1] = m
                          /\ \A i \in 1..Len(down) : down'[i] = down[i]
                          /\ down # <<>> => Head(down') = Head(down)
                          /\ down = <<>> => Head(down') = m /\ Len(down) = 0
  BY <1>1, Sending
<1>3. \A i \in 1..Len(down') : \/ i \in 1..Len(down) /\ down'[i] = down[i]
                               \/ down'[i] = m
  BY <1>2
<1>4. signals = 0 /\ ~Pending /\ \A i \in 1..Len(down) : down[i].kind # "agent_done"
  BY DEF TurnInv, TurnTypeOK, DownOK, UpOK
<1> QED
  BY <1>2, <1>3, <1>4

LEMMA PlainMessages ==
    /\ Msg("error", 0, "active") \in Messages /\ Msg("error", 0, "active").kind = "error"
    /\ Msg("audio", 0, "active") \in Messages /\ Msg("audio", 0, "active").kind = "audio"
BY TurnLoopAssumption DEF Msg, Messages, Statuses

LEMMA BootKeeps ==
    ASSUME TurnInv, Boot
    PROVE  TurnInv'
<1>1. TurnTypeOK'
  BY TurnLoopAssumption
     DEF TurnInv, TurnTypeOK, Statuses, Live, Boot, pageVars, sockVars, sttVars
<1>2. UpOK'
  BY TurnLoopAssumption
     DEF TurnInv, UpOK, Pending, Idle, Over, Boot, pageVars, sockVars, sttVars
<1>3. LoopOK'
  BY TurnLoopAssumption
     DEF TurnInv, LoopOK, PageOK, InTurn, Over, Idle, Replying, Boot, pageVars, sockVars,
         sttVars
<1>4. DownOK'
  BY TurnLoopAssumption DEF TurnInv, DownOK, Idle, Boot, pageVars, sockVars, sttVars
<1>5. PageOK'
  BY TurnLoopAssumption
     DEF TurnInv, PageOK, LoopOK, InTurn, Idle, Over, Replying, Boot, pageVars, sockVars,
         sttVars
<1> QED
  BY <1>1, <1>2, <1>3, <1>4, <1>5 DEF TurnInv

LEMMA BootFailsKeeps ==
    ASSUME TurnInv, BootFails
    PROVE  TurnInv'
<1>1. loop \in {"boot"} /\ UNCHANGED <<page, pageStatus, asked, signals, playing, drainLeft>>
  BY DEF BootFails, pageVars
<1>2. /\ down' \in Seq(Messages) /\ signals = 0 /\ ~Pending
      /\ sock # "open" => down' = down
      /\ \A i \in 1..Len(down') :
             /\ down'[i].kind # "agent_done"
             /\ down'[i].kind = "final" => i \in 1..Len(down) /\ down'[i] = down[i]
      /\ sock = "open" => down' # <<>>
      /\ down # <<>> => down' # <<>> /\ Head(down') = Head(down)
      /\ down = <<>> /\ down' # <<>> => Head(down').kind = "error"
  BY <1>1, SendingOn, PlainMessages DEF BootFails, Idle
<1>3. TurnTypeOK'
  BY <1>1, <1>2, TurnLoopAssumption
     DEF TurnInv, TurnTypeOK, Messages, Statuses, Live, BootFails, sttVars
<1>4. UpOK'
  BY <1>1, <1>2 DEF TurnInv, UpOK, Pending, Idle, Over, BootFails, sttVars
<1>5. LoopOK'
  BY <1>1, <1>2
     DEF TurnInv, LoopOK, PageOK, InTurn, Over, Idle, Replying, BootFails, sttVars
<1>6. DownOK'
  BY <1>1, <1>2 DEF TurnInv, DownOK, Idle, BootFails, sttVars
<1>7. PageOK'
  BY <1>1, <1>2
     DEF TurnInv, PageOK, LoopOK, InTurn, Idle, Over, Replying, BootFails, sttVars
<1> QED
  BY <1>3, <1>4, <1>5, <1>6, <1>7 DEF TurnInv

LEMMA SpeakChunkKeeps ==
    ASSUME TurnInv, SpeakChunk
    PROVE  TurnInv'
<1>1. loop \in {"greeting", "speaking"} /\ UNCHANGED <<page, pageStatus, asked, signals, playing, drainLeft>>
  BY DEF SpeakChunk, Speaking, pageVars
<1>2. /\ down' \in Seq(Messages) /\ signals = 0 /\ ~Pending
      /\ sock # "open" => down' = down
      /\ \A i \in 1..Len(down') :
             /\ down'[i].kind # "agent_done"
             /\ down'[i].kind = "final" => i \in 1..Len(down) /\ down'[i] = down[i]
      /\ sock = "open" => down' # <<>>
      /\ down # <<>> => down' # <<>> /\ Head(down') = Head(down)
      /\ down = <<>> /\ down' # <<>> => Head(down').kind = "audio"
  BY <1>1, SendingOn, PlainMessages DEF SpeakChunk, Idle
<1>3. TurnTypeOK'
  BY <1>1, <1>2, TurnLoopAssumption
     DEF TurnInv, TurnTypeOK, Messages, Statuses, Live, SpeakChunk, sttVars
<1>4. UpOK'
  BY <1>1, <1>2 DEF TurnInv, UpOK, Pending, Idle, Over, SpeakChunk, sttVars
<1>5. LoopOK'
  BY <1>1, <1>2
     DEF TurnInv, LoopOK, PageOK, InTurn, Over, Idle, Replying, SpeakChunk, sttVars
<1>6. DownOK'
  BY <1>1, <1>2 DEF TurnInv, DownOK, Idle, SpeakChunk, sttVars
<1>7. PageOK'
  BY <1>1, <1>2
     DEF TurnInv, PageOK, LoopOK, InTurn, Idle, Over, Replying, SpeakChunk, sttVars
<1> QED
  BY <1>3, <1>4, <1>5, <1>6, <1>7 DEF TurnInv

LEMMA SpeakEndsKeeps ==
    ASSUME TurnInv, SpeakEnds
    PROVE  TurnInv'
<1>1. TurnTypeOK'
  BY TurnLoopAssumption
     DEF TurnInv, TurnTypeOK, Statuses, Live, SpeakEnds, pageVars, sockVars, sttVars,
         Speaking
<1>2. UpOK'
  BY TurnLoopAssumption
     DEF TurnInv, UpOK, Pending, Idle, Over, SpeakEnds, pageVars, sockVars, sttVars,
         Speaking
<1>3. LoopOK'
  BY TurnLoopAssumption
     DEF TurnInv, LoopOK, PageOK, InTurn, Over, Idle, Replying, SpeakEnds, pageVars,
         sockVars, sttVars, Speaking
<1>4. DownOK'
  BY TurnLoopAssumption
     DEF TurnInv, DownOK, Idle, SpeakEnds, pageVars, sockVars, sttVars, Speaking
<1>5. PageOK'
  BY TurnLoopAssumption
     DEF TurnInv, PageOK, LoopOK, InTurn, Idle, Over, Replying, SpeakEnds, pageVars,
         sockVars, sttVars, Speaking
<1> QED
  BY <1>1, <1>2, <1>3, <1>4, <1>5 DEF TurnInv

LEMMA SpeakFailsKeeps ==
    ASSUME TurnInv, SpeakFails
    PROVE  TurnInv'
<1>1. loop \in {"greeting", "speaking"} /\ UNCHANGED <<page, pageStatus, asked, signals, playing, drainLeft>>
  BY DEF SpeakFails, Speaking, pageVars
<1>2. /\ down' \in Seq(Messages) /\ signals = 0 /\ ~Pending
      /\ sock # "open" => down' = down
      /\ \A i \in 1..Len(down') :
             /\ down'[i].kind # "agent_done"
             /\ down'[i].kind = "final" => i \in 1..Len(down) /\ down'[i] = down[i]
      /\ sock = "open" => down' # <<>>
      /\ down # <<>> => down' # <<>> /\ Head(down') = Head(down)
      /\ down = <<>> /\ down' # <<>> => Head(down').kind = "error"
  BY <1>1, SendingOn, PlainMessages DEF SpeakFails, Idle
<1>3. TurnTypeOK'
  BY <1>1, <1>2, TurnLoopAssumption
     DEF TurnInv, TurnTypeOK, Messages, Statuses, Live, SpeakFails, sttVars
<1>4. UpOK'
  BY <1>1, <1>2 DEF TurnInv, UpOK, Pending, Idle, Over, SpeakFails, sttVars
<1>5. LoopOK'
  BY <1>1, <1>2
     DEF TurnInv, LoopOK, PageOK, InTurn, Over, Idle, Replying, SpeakFails, sttVars
<1>6. DownOK'
  BY <1>1, <1>2 DEF TurnInv, DownOK, Idle, SpeakFails, sttVars
<1>7. PageOK'
  BY <1>1, <1>2
     DEF TurnInv, PageOK, LoopOK, InTurn, Idle, Over, Replying, SpeakFails, sttVars
<1> QED
  BY <1>3, <1>4, <1>5, <1>6, <1>7 DEF TurnInv

LEMMA SayDoneKeeps ==
    ASSUME TurnInv, SayDone
    PROVE  TurnInv'
<1>1. /\ Msg("agent_done", 0, status) \in Messages
      /\ Msg("agent_done", 0, status).kind = "agent_done"
  BY TurnLoopAssumption DEF TurnInv, TurnTypeOK, Msg, Messages
<1>2. down \in Seq(Messages)
  BY QueuesTyped DEF TurnInv
<1>3. /\ down' \in Seq(Messages) /\ Len(down) \in Nat
      /\ sock # "open" => down' = down
      /\ sock = "open" => /\ down' # <<>> /\ Len(down') = Len(down) + 1
                          /\ down'[Len(down) + 1].kind = "agent_done"
                          /\ \A i \in 1..Len(down) : down'[i] = down[i]
                          /\ down # <<>> => Head(down') = Head(down)
  BY <1>1, <1>2, Sending DEF SayDone
<1>4. \A i \in 1..Len(down') : \/ i \in 1..Len(down) /\ down'[i] = down[i] /\ down[i].kind # "agent_done"
                               \/ i = Len(down') /\ down'[i].kind = "agent_done"
  <2>1. \A i \in 1..Len(down) : down[i].kind # "agent_done"
    BY DEF TurnInv, DownOK, SayDone, Idle
  <2> QED
    BY <1>3, <2>1
<1>5. signals = 0 /\ ~Pending /\ loop = "done" /\ page # "draining" /\ loop' \in Idle
  BY DEF TurnInv, TurnTypeOK, DownOK, UpOK, LoopOK, SayDone, Idle
<1>6. UNCHANGED <<page, pageStatus, asked, signals, playing, drainLeft>>
  BY DEF SayDone, pageVars
<1>7. TurnTypeOK'
  BY <1>3, <1>4, <1>5, <1>6, TurnLoopAssumption
     DEF TurnInv, TurnTypeOK, Messages, Statuses, Live, SayDone, sttVars
<1>8. UpOK'
  BY <1>3, <1>4, <1>5, <1>6 DEF TurnInv, UpOK, Pending, Idle, Over, SayDone, sttVars
<1>9. LoopOK'
  BY <1>3, <1>4, <1>5, <1>6
     DEF TurnInv, LoopOK, PageOK, InTurn, Over, Idle, Replying, SayDone, sttVars
<1>10. DownOK'
  BY <1>3, <1>4, <1>5, <1>6 DEF TurnInv, DownOK, Idle, SayDone, sttVars
<1>11. PageOK'
  BY <1>3, <1>4, <1>5, <1>6
     DEF TurnInv, PageOK, LoopOK, InTurn, Idle, Over, Replying, SayDone, sttVars
<1> QED
  BY <1>7, <1>8, <1>9, <1>10, <1>11 DEF TurnInv

LEMMA LoopLeavesKeeps ==
    ASSUME TurnInv, LoopLeaves
    PROVE  TurnInv'
<1>1. TurnTypeOK'
  BY TurnLoopAssumption
     DEF TurnInv, TurnTypeOK, Statuses, Live, LoopLeaves, pageVars, sockVars, sttVars
<1>2. UpOK'
  BY TurnLoopAssumption
     DEF TurnInv, UpOK, Pending, Idle, Over, LoopLeaves, pageVars, sockVars, sttVars
<1>3. LoopOK'
  BY TurnLoopAssumption
     DEF TurnInv, LoopOK, PageOK, InTurn, Over, Idle, Replying, LoopLeaves, pageVars,
         sockVars, sttVars
<1>4. DownOK'
  BY TurnLoopAssumption DEF TurnInv, DownOK, Idle, LoopLeaves, pageVars, sockVars, sttVars
<1>5. PageOK'
  BY TurnLoopAssumption
     DEF TurnInv, PageOK, LoopOK, InTurn, Idle, Over, Replying, LoopLeaves, pageVars,
         sockVars, sttVars
<1> QED
  BY <1>1, <1>2, <1>3, <1>4, <1>5 DEF TurnInv

LEMMA TakesEndKeeps ==
    ASSUME TurnInv, TakesEnd
    PROVE  TurnInv'
<1>1. /\ inbox \in Seq(Controls) /\ inbox # <<>> /\ inbox' = Tail(inbox)
  BY QueuesTyped DEF TurnInv, TakesEnd
<1>2. /\ Head(inbox) = inbox[1] /\ inbox' \in Seq(Controls) /\ 1 \in 1..Len(inbox)
      /\ \A i \in 1..Len(inbox') : inbox'[i] = inbox[i + 1] /\ i + 1 \in 1..Len(inbox) /\ i + 1 # 1
  BY <1>1, TailItems
<1>3. /\ \A i \in 1..Len(inbox') : inbox'[i] # "start_turn"
      /\ \A i \in 1..Len(inbox') : inbox'[i] = "end" => page \in {"closing", "ended"}
      /\ \A i \in 1..Len(up) : up[i] # "start_turn"
  BY <1>1, <1>2 DEF TurnInv, UpOK
<1>4. TurnTypeOK'
  BY <1>1, <1>2, <1>3, TurnLoopAssumption
     DEF TurnInv, TurnTypeOK, Controls, Statuses, Live, TakesEnd, pageVars, sttVars
<1>5. UpOK'
  BY <1>1, <1>2, <1>3 DEF TurnInv, UpOK, Pending, Idle, Over, TakesEnd, pageVars, sttVars
<1>6. LoopOK'
  BY <1>1, <1>2, <1>3
     DEF TurnInv, LoopOK, PageOK, InTurn, Over, Idle, Replying, TakesEnd, pageVars, sttVars
<1>7. DownOK'
  BY <1>1, <1>2, <1>3 DEF TurnInv, DownOK, Idle, TakesEnd, pageVars, sttVars
<1>8. PageOK'
  BY <1>1, <1>2, <1>3
     DEF TurnInv, PageOK, LoopOK, InTurn, Idle, Over, Replying, TakesEnd, pageVars, sttVars
<1> QED
  BY <1>4, <1>5, <1>6, <1>7, <1>8 DEF TurnInv

LEMMA TakesStartTurnKeeps ==
    ASSUME TurnInv, TakesStartTurn
    PROVE  TurnInv'
<1>1. /\ inbox \in Seq(Controls) /\ inbox # <<>> /\ inbox' = Tail(inbox)
  BY QueuesTyped DEF TurnInv, TakesStartTurn
<1>2. /\ Head(inbox) = inbox[1] /\ inbox' \in Seq(Controls) /\ 1 \in 1..Len(inbox)
      /\ \A i \in 1..Len(inbox') : inbox'[i] = inbox[i + 1] /\ i + 1 \in 1..Len(inbox) /\ i + 1 # 1
  BY <1>1, TailItems
<1>3. /\ \A i \in 1..Len(inbox') : inbox'[i] # "start_turn"
      /\ \A i \in 1..Len(inbox') : inbox'[i] = "end" => page \in {"closing", "ended"}
      /\ \A i \in 1..Len(up) : up[i] # "start_turn"
  BY <1>1, <1>2 DEF TurnInv, UpOK
<1>4. Pending
  BY <1>2 DEF Pending, TakesStartTurn
<1>5. /\ page \in {"turn"} \cup Over /\ down = <<>> /\ playing = 0 /\ asked = turn + 1
      /\ turn' = turn + 1
  BY <1>4 DEF TurnInv, UpOK, TakesStartTurn
<1>6. turn \in Nat /\ asked \in 0..MaxTurns
  BY DEF TurnInv, TurnTypeOK
<1>7. signals = 0 /\ Len(down) = 0
  BY <1>5 DEF TurnInv, DownOK, TurnTypeOK, Over
<1>8. TurnTypeOK'
  BY <1>1, <1>2, <1>3, <1>5, <1>6, <1>7, TurnLoopAssumption
     DEF TurnInv, TurnTypeOK, Controls, Statuses, Live, TakesStartTurn, pageVars, sttVars
<1>9. UpOK'
  BY <1>1, <1>2, <1>3, <1>5, <1>6, <1>7
     DEF TurnInv, UpOK, Pending, Idle, Over, TakesStartTurn, pageVars, sttVars
<1>10. LoopOK'
  BY <1>1, <1>2, <1>3, <1>5, <1>6, <1>7
     DEF TurnInv, LoopOK, PageOK, InTurn, Over, Idle, Replying, TakesStartTurn, pageVars,
         sttVars
<1>11. DownOK'
  BY <1>1, <1>2, <1>3, <1>5, <1>6, <1>7
     DEF TurnInv, DownOK, Idle, Over, TakesStartTurn, pageVars, sttVars
<1>12. PageOK'
  BY <1>1, <1>2, <1>3, <1>5, <1>6, <1>7
     DEF TurnInv, PageOK, LoopOK, InTurn, Idle, Over, Replying, TakesStartTurn, pageVars,
         sttVars
<1> QED
  BY <1>8, <1>9, <1>10, <1>11, <1>12 DEF TurnInv

LEMMA ConnectedKeeps ==
    ASSUME TurnInv, Connected
    PROVE  TurnInv'
<1>1. TurnTypeOK'
  BY TurnLoopAssumption
     DEF TurnInv, TurnTypeOK, Statuses, Live, Connected, pageVars, sockVars
<1>2. UpOK'
  BY TurnLoopAssumption
     DEF TurnInv, UpOK, Pending, Idle, Over, Connected, pageVars, sockVars
<1>3. LoopOK'
  BY TurnLoopAssumption
     DEF TurnInv, LoopOK, PageOK, InTurn, Over, Idle, Replying, Connected, pageVars,
         sockVars
<1>4. DownOK'
  BY TurnLoopAssumption DEF TurnInv, DownOK, Idle, Connected, pageVars, sockVars
<1>5. PageOK'
  BY TurnLoopAssumption
     DEF TurnInv, PageOK, LoopOK, InTurn, Idle, Over, Replying, Connected, pageVars,
         sockVars
<1> QED
  BY <1>1, <1>2, <1>3, <1>4, <1>5 DEF TurnInv

LEMMA ListenFailsKeeps ==
    ASSUME TurnInv, ListenFails
    PROVE  TurnInv'
<1>1. heard' = 0 /\ 0 \in 0..MaxTurns /\ window' = FALSE /\ loop' = "asking"
  BY TurnLoopAssumption DEF ListenFails, EndListening
<1>2. TurnTypeOK'
  BY <1>1, TurnLoopAssumption
     DEF TurnInv, TurnTypeOK, Statuses, Live, ListenFails, pageVars, sockVars, sttVars
<1>3. UpOK'
  BY <1>1 DEF TurnInv, UpOK, Pending, Idle, Over, ListenFails, pageVars, sockVars, sttVars
<1>4. LoopOK'
  BY <1>1
     DEF TurnInv, LoopOK, PageOK, InTurn, Over, Idle, Replying, ListenFails, pageVars,
         sockVars, sttVars
<1>5. DownOK'
  BY <1>1 DEF TurnInv, DownOK, Idle, ListenFails, pageVars, sockVars, sttVars
<1>6. PageOK'
  BY <1>1
     DEF TurnInv, PageOK, LoopOK, InTurn, Idle, Over, Replying, ListenFails, pageVars,
         sockVars, sttVars
<1> QED
  BY <1>2, <1>3, <1>4, <1>5, <1>6 DEF TurnInv

LEMMA EndSpeechKeeps ==
    ASSUME TurnInv, EndSpeech
    PROVE  TurnInv'
<1>1. /\ loop = "listening" /\ turn \in Turns /\ events[turn] # <<>>
      /\ events[turn] \in Seq({"end_speech", "final", "error"} \X Turns)
      /\ events' = [events EXCEPT ![turn] = Tail(events[turn])]
      /\ UNCHANGED <<turn, said, status, pageVars, sockVars, reader, brain, cancelled>>
  BY SMTT(30), ZenonT(60) DEF TurnInv, TurnTypeOK, LoopOK, InTurn, Turns, EndSpeech, TakesEvent
<1>2. /\ Tail(events[turn]) \in Seq({"end_speech", "final", "error"} \X Turns)
      /\ Head(events[turn]) \in {"end_speech", "final", "error"} \X Turns
  BY <1>1, TailItems
<1>3. events' \in [Turns -> Seq({"end_speech", "final", "error"} \X Turns)]
  BY <1>1, <1>2 DEF TurnInv, TurnTypeOK
<1>4. Head(events[turn])[2] \in 0..MaxTurns /\ 0 \in 0..MaxTurns
  <2>1. Head(events[turn])[2] \in Turns
    BY <1>2
  <2> QED
    BY <2>1, TurnLoopAssumption DEF Turns
<1>5. TurnTypeOK'
  BY <1>1, <1>2, <1>3, <1>4, TurnLoopAssumption
     DEF TurnInv, TurnTypeOK, Statuses, Live, EndSpeech, pageVars, sockVars
<1>6. UpOK'
  BY <1>1, <1>2, <1>3, <1>4
     DEF TurnInv, UpOK, Pending, Idle, Over, EndSpeech, pageVars, sockVars
<1>7. LoopOK'
  BY <1>1, <1>2, <1>3, <1>4
     DEF TurnInv, LoopOK, PageOK, InTurn, Over, Idle, Replying, EndSpeech, pageVars,
         sockVars
<1>8. DownOK'
  BY <1>1, <1>2, <1>3, <1>4 DEF TurnInv, DownOK, Idle, EndSpeech, pageVars, sockVars
<1>9. PageOK'
  BY <1>1, <1>2, <1>3, <1>4
     DEF TurnInv, PageOK, LoopOK, InTurn, Idle, Over, Replying, EndSpeech, pageVars,
         sockVars
<1> QED
  BY <1>5, <1>6, <1>7, <1>8, <1>9 DEF TurnInv

LEMMA HeardKeeps ==
    ASSUME TurnInv, Heard
    PROVE  TurnInv'
<1>1. /\ loop = "listening" /\ turn \in Turns /\ events[turn] # <<>>
      /\ events[turn] \in Seq({"end_speech", "final", "error"} \X Turns)
      /\ events' = [events EXCEPT ![turn] = Tail(events[turn])]
      /\ UNCHANGED <<turn, said, status, pageVars, sockVars, reader, brain, cancelled>>
  BY SMTT(30), ZenonT(60) DEF TurnInv, TurnTypeOK, LoopOK, InTurn, Turns, Heard, TakesEvent
<1>2. /\ Tail(events[turn]) \in Seq({"end_speech", "final", "error"} \X Turns)
      /\ Head(events[turn]) \in {"end_speech", "final", "error"} \X Turns
  BY <1>1, TailItems
<1>3. events' \in [Turns -> Seq({"end_speech", "final", "error"} \X Turns)]
  BY <1>1, <1>2 DEF TurnInv, TurnTypeOK
<1>4. Head(events[turn])[2] \in 0..MaxTurns /\ 0 \in 0..MaxTurns
  <2>1. Head(events[turn])[2] \in Turns
    BY <1>2
  <2> QED
    BY <2>1, TurnLoopAssumption DEF Turns
<1>5. TurnTypeOK'
  BY <1>1, <1>2, <1>3, <1>4, TurnLoopAssumption
     DEF TurnInv, TurnTypeOK, Statuses, Live, Heard, pageVars, sockVars, EndListening
<1>6. UpOK'
  BY <1>1, <1>2, <1>3, <1>4
     DEF TurnInv, UpOK, Pending, Idle, Over, Heard, pageVars, sockVars, EndListening
<1>7. LoopOK'
  BY <1>1, <1>2, <1>3, <1>4
     DEF TurnInv, LoopOK, PageOK, InTurn, Over, Idle, Replying, Heard, pageVars, sockVars,
         EndListening
<1>8. DownOK'
  BY <1>1, <1>2, <1>3, <1>4
     DEF TurnInv, DownOK, Idle, Heard, pageVars, sockVars, EndListening
<1>9. PageOK'
  BY <1>1, <1>2, <1>3, <1>4
     DEF TurnInv, PageOK, LoopOK, InTurn, Idle, Over, Replying, Heard, pageVars, sockVars,
         EndListening
<1> QED
  BY <1>5, <1>6, <1>7, <1>8, <1>9 DEF TurnInv

LEMMA HeardErrorKeeps ==
    ASSUME TurnInv, HeardError
    PROVE  TurnInv'
<1>1. /\ loop = "listening" /\ turn \in Turns /\ events[turn] # <<>>
      /\ events[turn] \in Seq({"end_speech", "final", "error"} \X Turns)
      /\ events' = [events EXCEPT ![turn] = Tail(events[turn])]
      /\ UNCHANGED <<turn, said, status, pageVars, sockVars, reader, brain, cancelled>>
  BY SMTT(30), ZenonT(60) DEF TurnInv, TurnTypeOK, LoopOK, InTurn, Turns, HeardError, TakesEvent
<1>2. /\ Tail(events[turn]) \in Seq({"end_speech", "final", "error"} \X Turns)
      /\ Head(events[turn]) \in {"end_speech", "final", "error"} \X Turns
  BY <1>1, TailItems
<1>3. events' \in [Turns -> Seq({"end_speech", "final", "error"} \X Turns)]
  BY <1>1, <1>2 DEF TurnInv, TurnTypeOK
<1>4. Head(events[turn])[2] \in 0..MaxTurns /\ 0 \in 0..MaxTurns
  <2>1. Head(events[turn])[2] \in Turns
    BY <1>2
  <2> QED
    BY <2>1, TurnLoopAssumption DEF Turns
<1>5. TurnTypeOK'
  BY <1>1, <1>2, <1>3, <1>4, TurnLoopAssumption
     DEF TurnInv, TurnTypeOK, Statuses, Live, HeardError, pageVars, sockVars, EndListening
<1>6. UpOK'
  BY <1>1, <1>2, <1>3, <1>4
     DEF TurnInv, UpOK, Pending, Idle, Over, HeardError, pageVars, sockVars, EndListening
<1>7. LoopOK'
  BY <1>1, <1>2, <1>3, <1>4
     DEF TurnInv, LoopOK, PageOK, InTurn, Over, Idle, Replying, HeardError, pageVars,
         sockVars, EndListening
<1>8. DownOK'
  BY <1>1, <1>2, <1>3, <1>4
     DEF TurnInv, DownOK, Idle, HeardError, pageVars, sockVars, EndListening
<1>9. PageOK'
  BY <1>1, <1>2, <1>3, <1>4
     DEF TurnInv, PageOK, LoopOK, InTurn, Idle, Over, Replying, HeardError, pageVars,
         sockVars, EndListening
<1> QED
  BY <1>5, <1>6, <1>7, <1>8, <1>9 DEF TurnInv

LEMMA BrainAnswersKeeps ==
    ASSUME TurnInv, BrainAnswers
    PROVE  TurnInv'
<1>1. /\ loop = "asking" /\ down = <<>> /\ asked = turn /\ turn \in 0..MaxTurns
      /\ page \in {"turn"} \cup Over /\ ~Pending /\ signals = 0 /\ brain' \in Statuses
      /\ brain' = "active" => turn < MaxTurns
      /\ page \in {"closing", "ended"} => sock = "closed"
  BY TurnLoopAssumption
     DEF TurnInv, TurnTypeOK, LoopOK, DownOK, UpOK, PageOK, InTurn, Idle, Statuses,
         BrainAnswers
<1>2. Msg("final", turn, brain') \in Messages
  BY <1>1 DEF Msg, Messages
<1>3. /\ down' \in Seq(Messages)
      /\ sock # "open" => down' = <<>>
      /\ sock = "open" => down' # <<>> /\ Head(down') = Msg("final", turn, brain')
      /\ \A i \in 1..Len(down') : i = 1 /\ sock = "open" /\ down'[i] = Msg("final", turn, brain')
  BY <1>1, <1>2, Sending, EmptySeq DEF BrainAnswers
<1>4. UNCHANGED <<page, pageStatus, asked, signals, playing, drainLeft, turn, up, sock, inbox>>
      /\ loop' \in {"speaking", "done"} /\ said' = 0 /\ status' = brain'
  BY DEF BrainAnswers, pageVars
<1>5. \A i \in 1..Len(down') : /\ i = 1 /\ sock = "open" /\ down'[i].kind = "final"
                               /\ down'[i].turn = turn /\ down'[i].status = brain'
  BY <1>3 DEF Msg
<1>6. sock = "open" => down' # <<>> /\ Head(down').kind = "final"
  BY <1>3 DEF Msg
<1>7. TurnTypeOK'
  BY <1>1, <1>3, <1>4, <1>5, <1>6, TurnLoopAssumption
     DEF TurnInv, TurnTypeOK, Messages, Statuses, Live, BrainAnswers, sttVars
<1>8. UpOK'
  BY <1>1, <1>3, <1>4, <1>5, <1>6
     DEF TurnInv, UpOK, Pending, Idle, Over, BrainAnswers, sttVars
<1>9. LoopOK'
  BY <1>1, <1>3, <1>4, <1>5, <1>6
     DEF TurnInv, LoopOK, PageOK, InTurn, Over, Idle, Replying, BrainAnswers, sttVars
<1>10. DownOK'
  BY <1>1, <1>3, <1>4, <1>5, <1>6 DEF TurnInv, DownOK, Idle, Over, BrainAnswers, sttVars
<1>11. PageOK'
  BY <1>1, <1>3, <1>4, <1>5, <1>6
     DEF TurnInv, PageOK, LoopOK, InTurn, Idle, Over, Replying, BrainAnswers, sttVars
<1> QED
  BY <1>7, <1>8, <1>9, <1>10, <1>11 DEF TurnInv

LEMMA BrainUnavailableKeeps ==
    ASSUME TurnInv, BrainUnavailable
    PROVE  TurnInv'
<1>1. loop \in {"asking"} /\ UNCHANGED <<page, pageStatus, asked, signals, playing, drainLeft>>
  BY DEF BrainUnavailable, pageVars
<1>2. /\ down' \in Seq(Messages) /\ signals = 0 /\ ~Pending
      /\ sock # "open" => down' = down
      /\ \A i \in 1..Len(down') :
             /\ down'[i].kind # "agent_done"
             /\ down'[i].kind = "final" => i \in 1..Len(down) /\ down'[i] = down[i]
      /\ sock = "open" => down' # <<>>
      /\ down # <<>> => down' # <<>> /\ Head(down') = Head(down)
      /\ down = <<>> /\ down' # <<>> => Head(down').kind = "error"
  BY <1>1, SendingOn, PlainMessages DEF BrainUnavailable, Idle
<1>3. /\ down = <<>> /\ asked = turn /\ page \in {"turn"} \cup Over /\ brain' \in Statuses
      /\ page \in {"closing", "ended"} => sock = "closed"
  BY <1>1 DEF TurnInv, TurnTypeOK, LoopOK, PageOK, InTurn, Statuses, BrainUnavailable
<1>4. TurnTypeOK'
  BY <1>1, <1>2, <1>3, TurnLoopAssumption
     DEF TurnInv, TurnTypeOK, Messages, Statuses, Live, BrainUnavailable, sttVars
<1>5. UpOK'
  BY <1>1, <1>2, <1>3 DEF TurnInv, UpOK, Pending, Idle, Over, BrainUnavailable, sttVars
<1>6. LoopOK'
  BY <1>1, <1>2, <1>3
     DEF TurnInv, LoopOK, PageOK, InTurn, Over, Idle, Replying, BrainUnavailable, sttVars
<1>7. DownOK'
  BY <1>1, <1>2, <1>3 DEF TurnInv, DownOK, Idle, Over, BrainUnavailable, sttVars
<1>8. PageOK'
  BY <1>1, <1>2, <1>3
     DEF TurnInv, PageOK, LoopOK, InTurn, Idle, Over, Replying, BrainUnavailable, sttVars
<1> QED
  BY <1>4, <1>5, <1>6, <1>7, <1>8 DEF TurnInv

(* A reader only fills the channel of its own stream.                       *)
LEMMA ReaderKeeps ==
    ASSUME TurnInv, NEW s \in Turns, Reader(s)
    PROVE  TurnInv'
<1>1. PICK kind \in {"end_speech", "final", "error"}, to \in {"ended", "exited"} :
          ReaderEmits(s, kind, to)
  BY DEF Reader, ReaderEndSpeech, ReaderFinal, ReaderError
<1>2. Append(events[s], <<kind, s>>) \in Seq({"end_speech", "final", "error"} \X Turns)
  BY AppendProperties DEF TurnInv, TurnTypeOK
<1>3. TurnTypeOK'
  BY <1>1, <1>2 DEF TurnInv, TurnTypeOK, ReaderEmits, pageVars, sockVars, loopVars
<1>4. UNCHANGED <<pageVars, sockVars, loopVars>>
  BY <1>1 DEF ReaderEmits
<1> QED
  BY <1>3, <1>4
     DEF TurnInv, UpOK, LoopOK, DownOK, PageOK, Pending, pageVars, sockVars, loopVars

----------------------------------------------------------------------------
(* The invariant.                                                           *)

LEMMA InitHolds == Init => TurnInv
<1> SUFFICES ASSUME Init PROVE TurnInv
  OBVIOUS
<1>1. Len(up) = 0 /\ Len(inbox) = 0 /\ Len(down) = 0
  BY DEF Init
<1>2. TurnTypeOK
  <2>1. asked \in 0..MaxTurns /\ turn \in 0..asked /\ signals \in 0..1 /\ playing \in Nat
    BY TurnLoopAssumption DEF Init
  <2>2. drainLeft \in 0..playing /\ said \in 0..MaxChunks /\ heard \in 0..MaxTurns
    BY TurnLoopAssumption DEF Init
  <2>3. /\ reader \in [Turns -> {"none", "hearing", "ended", "exited"}]
        /\ events \in [Turns -> Seq({"end_speech", "final", "error"} \X Turns)]
    BY DEF Init
  <2>4. up \in Seq(Controls) /\ inbox \in Seq(Controls) /\ down \in Seq(Messages)
    BY EmptySeq DEF Init
  <2>5. /\ page \in Live /\ pageStatus \in Statuses /\ status \in Statuses /\ brain \in Statuses
        /\ sock = "open" /\ loop = "boot" /\ window = FALSE /\ cancelled = FALSE
    BY DEF Init, Live, Statuses
  <2> QED
    BY <2>1, <2>2, <2>3, <2>4, <2>5 DEF TurnTypeOK, Controls, Messages
<1>3. UpOK /\ LoopOK /\ DownOK /\ PageOK
  BY <1>1 DEF Init, UpOK, LoopOK, DownOK, PageOK, Pending, InTurn, Idle, Over
<1> QED
  BY <1>2, <1>3 DEF TurnInv

LEMMA PageKeeps == TurnInv /\ (Page \/ UserEnds) => TurnInv'
BY PageOpensKeeps, PlayAgentChunkKeeps, OnFinalKeeps, OnAgentDoneKeeps, OnErrorKeeps,
   ChunkPlayedKeeps, PageGoesOnKeeps, StopMediaKeeps, PostEndKeeps, UserEndsKeeps
   DEF Page

LEMMA LoopKeeps == TurnInv /\ Loop => TurnInv'
<1>1. TurnInv /\ (Boot \/ BootFails \/ SayDone \/ LoopLeaves \/ TakesEnd \/ TakesStartTurn) => TurnInv'
  BY BootKeeps, BootFailsKeeps, SayDoneKeeps, LoopLeavesKeeps, TakesEndKeeps, TakesStartTurnKeeps
<1>2. TurnInv /\ Speak => TurnInv'
  BY SpeakChunkKeeps, SpeakEndsKeeps, SpeakFailsKeeps DEF Speak
<1>3. TurnInv /\ Listen => TurnInv'
  BY ConnectedKeeps, ListenFailsKeeps, EndSpeechKeeps, HeardKeeps, HeardErrorKeeps
     DEF Listen
<1>4. TurnInv /\ Ask => TurnInv'
  BY BrainAnswersKeeps, BrainUnavailableKeeps DEF Ask
<1> QED
  BY <1>1, <1>2, <1>3, <1>4 DEF Loop

LEMMA NextKeeps == TurnInv /\ [Next]_vars => TurnInv'
<1>1. TurnInv /\ (Page \/ UserEnds \/ Loop) => TurnInv'
  BY PageKeeps, LoopKeeps
<1>2. TurnInv /\ (ControlRead \/ SockDrops \/ Cancel) => TurnInv'
  BY ControlReadKeeps, SockDropsKeeps, CancelKeeps
<1>3. TurnInv /\ (\E s \in Turns : Reader(s)) => TurnInv'
  BY ReaderKeeps
<1>4. TurnInv /\ UNCHANGED vars => TurnInv'
  BY DEF TurnInv, TurnTypeOK, UpOK, LoopOK, DownOK, PageOK, Pending, vars, pageVars,
         sockVars, loopVars, sttVars
<1> QED
  BY <1>1, <1>2, <1>3, <1>4 DEF Next

LEMMA TurnInvariant == Spec => []TurnInv
BY InitHolds, NextKeeps, PTL DEF Spec

----------------------------------------------------------------------------
(* The properties.                                                          *)

(* Page, socket and loop of turnloop.go and index.html stay in their types: *)
(* the page buffers at most one agent_done, no turn is taken up that was    *)
(* not asked for, and none is asked for after the brain's last.             *)
THEOREM TurnTypeCorrect == Spec => []TurnTypeOK
BY TurnInvariant, PTL DEF TurnInv

(* SetMic opens the window of turnloop.go only when all audio of the agent  *)
(* has been streamed, delivered and played, however long the page drained.  *)
THEOREM MicHearsUserOnly == Spec => []MicDeafToAgent
<1>1. TurnInv => MicDeafToAgent
  <2> SUFFICES ASSUME TurnInv, window PROVE playing = 0 /\ ~Holds(down, "audio") /\ ~Speaking
    BY DEF MicDeafToAgent
  <2>1. loop \in {"dialing", "listening"} /\ down = <<>> /\ playing = 0
    BY DEF TurnInv, LoopOK, InTurn
  <2>2. Len(down) = 0
    BY <2>1
  <2> QED
    BY <2>1, <2>2 DEF Holds, Speaking
<1> QED
  BY <1>1, TurnInvariant, PTL

(* A start_turn that reaches Run finds the loop at its select, or gone.     *)
THEOREM StartTurnFindsLoopWaiting == Spec => []StartTurnExpected
<1>1. TurnInv => StartTurnExpected
  BY DEF TurnInv, UpOK, Pending, StartTurnExpected, Idle
<1> QED
  BY <1>1, TurnInvariant, PTL

(* A final that reaches the page answers the turn it has open, and no       *)
(* agent_done is left over for a later one, whatever was cut short or lost. *)
THEOREM PageAndLoopInStep == Spec => []AnswersMatch
<1>1. TurnInv => AnswersMatch
  <2> SUFFICES ASSUME TurnInv, page \in Live
               PROVE  /\ \A i \in 1..Len(down) :
                             down[i].kind = "final" => page = "turn" /\ down[i].turn = asked
                      /\ page = "turn" => signals = 0
                      /\ signals > 0 => ~Holds(down, "agent_done")
    BY DEF AnswersMatch
  <2>1. \A i \in 1..Len(down) : down[i].kind = "final" => page = "turn" /\ down[i].turn = asked
    BY DEF TurnInv, DownOK, Live
  <2>2. page = "turn" => signals = 0
    BY DEF TurnInv, TurnTypeOK, DownOK
  <2>3. signals > 0 => Len(down) = 0
    BY DEF TurnInv, DownOK
  <2>4. signals > 0 => ~Holds(down, "agent_done")
    BY <2>3 DEF Holds
  <2> QED
    BY <2>1, <2>2, <2>4
<1> QED
  BY <1>1, TurnInvariant, PTL

(* Each channel only carries what its own stream heard.                     *)
EventsOwn == \A s \in Turns : \A i \in 1..Len(events[s]) : events[s][i][2] = s

HeardInv == EventsOwn /\ OwnTranscript

LEMMA EventsKept ==
    ASSUME TurnInv, EventsOwn, UNCHANGED events
    PROVE  EventsOwn'
BY DEF EventsOwn

(* What the loop takes out of a channel was put in by the reader of its     *)
(* turn, and the rest stays so.                                             *)
LEMMA TakenIsOwn ==
    ASSUME TurnInv, EventsOwn, NEW kind, TakesEvent(kind)
    PROVE  EventsOwn' /\ Head(events[turn])[2] = turn /\ turn' = turn
<1>1. /\ turn \in Turns /\ events[turn] # <<>>
      /\ events \in [Turns -> Seq({"end_speech", "final", "error"} \X Turns)]
      /\ events' = [events EXCEPT ![turn] = Tail(events[turn])] /\ turn' = turn
  BY DEF TurnInv, TurnTypeOK, LoopOK, InTurn, Turns, TakesEvent
<1>2. /\ Head(events[turn]) = events[turn][1] /\ 1 \in 1..Len(events[turn])
      /\ \A i \in 1..Len(Tail(events[turn])) :
             Tail(events[turn])[i] = events[turn][i + 1] /\ i + 1 \in 1..Len(events[turn])
  BY <1>1, TailItems
<1>3. ASSUME NEW s \in Turns, NEW i \in 1..Len(events'[s]) PROVE events'[s][i][2] = s
  <2>1. CASE s = turn
    BY <1>1, <1>2, <1>3, <2>1 DEF EventsOwn
  <2>2. CASE s # turn
    BY <1>1, <1>3, <2>2 DEF EventsOwn
  <2> QED
    BY <2>1, <2>2
<1> QED
  BY <1>1, <1>2, <1>3 DEF EventsOwn

LEMMA EmittedIsOwn ==
    ASSUME TurnInv, EventsOwn, NEW s \in Turns, Reader(s)
    PROVE  EventsOwn' /\ UNCHANGED <<loop, heard, turn>>
<1>1. PICK kind \in {"end_speech", "final", "error"}, to \in {"ended", "exited"} :
          ReaderEmits(s, kind, to)
  BY DEF Reader, ReaderEndSpeech, ReaderFinal, ReaderError
<1>2. /\ events \in [Turns -> Seq({"end_speech", "final", "error"} \X Turns)]
      /\ events' = [events EXCEPT ![s] = Append(events[s], <<kind, s>>)]
  BY <1>1 DEF TurnInv, TurnTypeOK, ReaderEmits
<1>3. /\ Len(events[s]) \in Nat /\ Len(Append(events[s], <<kind, s>>)) = Len(events[s]) + 1
      /\ Append(events[s], <<kind, s>>)[Len(events[s]) + 1] = <<kind, s>>
      /\ \A i \in 1..Len(events[s]) : Append(events[s], <<kind, s>>)[i] = events[s][i]
  BY <1>2, AppendItems
<1>4. ASSUME NEW t \in Turns, NEW i \in 1..Len(events'[t]) PROVE events'[t][i][2] = t
  <2>1. CASE t = s
    <3>1. i \in 1..Len(events[s]) \/ i = Len(events[s]) + 1
      BY <1>2, <1>3, <1>4, <2>1
    <3> QED
      BY <1>2, <1>3, <2>1, <3>1 DEF EventsOwn
  <2>2. CASE t # s
    BY <1>2, <1>4, <2>2 DEF EventsOwn
  <2> QED
    BY <2>1, <2>2
<1> QED
  BY <1>1, <1>4 DEF EventsOwn, ReaderEmits, loopVars

LEMMA HeardIsOwn == TurnInv /\ HeardInv /\ [Next]_vars => HeardInv'
<1> SUFFICES ASSUME TurnInv, EventsOwn, OwnTranscript, [Next]_vars PROVE EventsOwn' /\ OwnTranscript'
  BY DEF HeardInv
<1>1. ASSUME Page \/ UserEnds \/ ControlRead \/ SockDrops \/ Cancel \/ UNCHANGED vars
      PROVE  UNCHANGED <<events, loop, heard, turn>>
  <2>1. ASSUME Page PROVE UNCHANGED <<events, loop, heard, turn>>
    BY <2>1
       DEF Page, PageOpens, PlayAgentChunk, OnFinal, OnAgentDone, OnError, ChunkPlayed,
           PageGoesOn, StopMedia, PostEnd, Receives, loopVars, sttVars
  <2> QED
    BY <1>1, <2>1 DEF UserEnds, ControlRead, SockDrops, Cancel, vars, loopVars, sttVars
<1>2. ASSUME Boot \/ BootFails \/ Speak \/ SayDone \/ LoopLeaves \/ TakesEnd \/ TakesStartTurn
             \/ Connected \/ Ask
      PROVE  UNCHANGED events /\ loop' # "asking"
  BY <1>2
     DEF Boot, BootFails, Speak, SpeakChunk, SpeakEnds, SpeakFails, Speaking, SayDone,
         LoopLeaves, TakesEnd, TakesStartTurn, Connected, Ask, BrainAnswers, BrainUnavailable,
         sttVars
<1>3. ASSUME ListenFails PROVE UNCHANGED events /\ heard' = 0
  BY <1>3 DEF ListenFails, EndListening, sttVars
<1>4. ASSUME EndSpeech \/ Heard \/ HeardError PROVE EventsOwn' /\ OwnTranscript'
  <2>1. ASSUME EndSpeech PROVE EventsOwn' /\ loop' # "asking"
    BY <2>1, TakenIsOwn DEF EndSpeech, TakesEvent
  <2>2. ASSUME Heard PROVE EventsOwn' /\ heard' = turn'
    BY <2>2, TakenIsOwn DEF Heard, EndListening
  <2>3. ASSUME HeardError PROVE EventsOwn' /\ heard' = 0
    BY <2>3, TakenIsOwn DEF HeardError, EndListening
  <2> QED
    BY <1>4, <2>1, <2>2, <2>3 DEF OwnTranscript
<1>5. ASSUME NEW s \in Turns, Reader(s) PROVE EventsOwn' /\ OwnTranscript'
  BY <1>5, EmittedIsOwn DEF OwnTranscript
<1> QED
  BY <1>1, <1>2, <1>3, <1>4, <1>5, EventsKept DEF Next, Loop, Listen, OwnTranscript

(* The transcript of POST /turn was heard by the stream of that turn: the   *)
(* reader goroutine of an abandoned stream (stt.go) writes where nobody     *)
(* reads any more.                                                          *)
THEOREM TurnAsksWhatItHeard == Spec => []OwnTranscript
<1>1. Init => HeardInv
  BY DEF Init, HeardInv, EventsOwn, OwnTranscript
<1> QED
  BY <1>1, HeardIsOwn, TurnInvariant, PTL DEF Spec, HeardInv

----------------------------------------------------------------------------
(* The conversation in turns.                                               *)

(* While a turn that the page has opened is not taken up, the page waits,   *)
(* the loop is idle, and nothing is on its way down.                        *)
QuietInv ==
    asked # turn => /\ asked = turn + 1 /\ loop \in Idle /\ page \in {"turn"} \cup Over
                    /\ playing = 0 /\ down = <<>>

LEMMA OpensQuietly ==
    ASSUME TurnInv, QuietInv, PageGoesOn
    PROVE  QuietInv' /\ asked = turn
<1>1. asked = turn /\ loop \in Idle /\ playing = 0 /\ down = <<>>
  BY DEF TurnInv, TurnTypeOK, PageOK, PageGoesOn
<1>2. CASE pageStatus = "active"
  BY <1>1, <1>2 DEF TurnInv, TurnTypeOK, QuietInv, PageGoesOn, StartTurn, loopVars
<1>3. CASE pageStatus # "active"
  BY <1>1, <1>3 DEF QuietInv, PageGoesOn, loopVars
<1> QED
  BY <1>1, <1>2, <1>3

LEMMA TakesQuietly ==
    ASSUME TurnInv, QuietInv, TakesStartTurn
    PROVE  asked' = turn' /\ asked = turn + 1
<1>1. inbox \in Seq(Controls) /\ inbox # <<>> /\ Head(inbox) = "start_turn"
  BY QueuesTyped DEF TurnInv, TakesStartTurn
<1>2. Pending
  <2>1. 1 \in 1..Len(inbox) /\ inbox[1] = "start_turn"
    BY <1>1, TailItems
  <2> QED
    BY <2>1 DEF Pending
<1> QED
  BY <1>2 DEF TurnInv, UpOK, TakesStartTurn, pageVars

LEMMA RestQuiet ==
    ASSUME TurnInv, QuietInv, [Next]_vars, ~PageGoesOn, ~TakesStartTurn
    PROVE  QuietInv' /\ asked' = asked /\ turn' = turn
<1>1. asked' = asked /\ turn' = turn
  <2>1. ASSUME Page PROVE asked' = asked /\ turn' = turn
    BY <2>1
       DEF Page, PageOpens, PlayAgentChunk, OnFinal, OnAgentDone, OnError, ChunkPlayed,
           StopMedia, PostEnd, Receives, loopVars
  <2>2. ASSUME Loop PROVE asked' = asked /\ turn' = turn
    BY <2>2
       DEF Loop, Boot, BootFails, Speak, SpeakChunk, SpeakEnds, SpeakFails, SayDone, LoopLeaves,
           TakesEnd, Listen, Connected, ListenFails, EndSpeech, Heard, HeardError, TakesEvent,
           Ask, BrainAnswers, BrainUnavailable, pageVars
  <2>3. ASSUME NEW s \in Turns, Reader(s) PROVE asked' = asked /\ turn' = turn
    BY <2>3
       DEF Reader, ReaderEndSpeech, ReaderFinal, ReaderError, ReaderEmits, pageVars, loopVars
  <2> QED
    BY <2>1, <2>2, <2>3
       DEF Next, UserEnds, ControlRead, SockDrops, Cancel, vars, pageVars, loopVars
<1>2. SUFFICES ASSUME asked # turn
               PROVE  /\ loop' \in Idle /\ page' \in {"turn"} \cup Over
                      /\ playing' = 0 /\ down' = <<>>
  BY <1>1 DEF QuietInv
<1>3. /\ loop \in Idle /\ page \in {"turn"} \cup Over /\ playing = 0 /\ down = <<>>
  BY <1>2 DEF QuietInv
<1>4. ASSUME Page \/ UserEnds
      PROVE  /\ loop' \in Idle /\ page' \in {"turn"} \cup Over
             /\ playing' = 0 /\ down' = <<>>
  BY <1>3, <1>4
     DEF Page, UserEnds, PageOpens, PlayAgentChunk, OnFinal, OnAgentDone, OnError, ChunkPlayed,
         StopMedia, PostEnd, Receives, sockVars, loopVars, Over
<1>5. ASSUME Loop
      PROVE  /\ loop' \in Idle /\ UNCHANGED <<page, playing, down>>
  BY <1>3, <1>5
     DEF Loop, Boot, BootFails, Speak, SpeakChunk, SpeakEnds, SpeakFails, Speaking, SayDone,
         LoopLeaves, TakesEnd, Listen, Connected, ListenFails, EndSpeech, Heard, HeardError,
         TakesEvent, Ask, BrainAnswers, BrainUnavailable, pageVars, sockVars, Idle
<1>6. ASSUME SockDrops
      PROVE  UNCHANGED <<page, loop, playing>> /\ down' = <<>>
  <2>1. PICK n \in 0..Len(down) : down' = SubSeq(down, 1, n)
    BY <1>6 DEF SockDrops
  <2>2. down' = <<>>
    BY <1>3, <2>1, QueuesTyped, PrefixItems DEF TurnInv
  <2> QED
    BY <1>6, <2>2 DEF SockDrops, pageVars, loopVars
<1>7. ASSUME NEW s \in Turns, Reader(s) PROVE UNCHANGED <<page, loop, playing, down>>
  BY <1>7
     DEF Reader, ReaderEndSpeech, ReaderFinal, ReaderError, ReaderEmits, pageVars, sockVars,
         loopVars
<1>8. ASSUME ControlRead \/ Cancel \/ UNCHANGED vars PROVE UNCHANGED <<page, loop, playing, down>>
  BY <1>8 DEF ControlRead, Cancel, vars, pageVars, sockVars, loopVars
<1> QED
  BY <1>3, <1>4, <1>5, <1>6, <1>7, <1>8 DEF Next

LEMMA QuietInvariant == Spec => []QuietInv
<1>1. Init => QuietInv
  BY DEF Init, QuietInv
<1>2. TurnInv /\ QuietInv /\ [Next]_vars => QuietInv'
  <2>1. ASSUME TurnInv, QuietInv, TakesStartTurn PROVE QuietInv'
    BY <2>1, TakesQuietly DEF QuietInv
  <2> QED
    BY <2>1, OpensQuietly, RestQuiet
<1> QED
  BY <1>1, <1>2, TurnInvariant, PTL DEF Spec

----------------------------------------------------------------------------
(* What a step does to the messages that the conversation tells apart.      *)

Voiced == Holds(down, "audio")

LEMMA SendingTells ==
    ASSUME TurnInv, NEW m \in Messages, Send(m)
    PROVE  /\ Answers' = IF sock = "open" /\ m.kind = "final" THEN Answers \cup {m.turn}
                                                              ELSE Answers
           /\ Voiced' = (Voiced \/ (sock = "open" /\ m.kind = "audio"))
<1>1. /\ Len(down) \in Nat /\ down \in Seq(Messages) /\ down' \in Seq(Messages)
      /\ sock # "open" => down' = down
      /\ sock = "open" => /\ Len(down') = Len(down) + 1
                          /\ down'[Len(down) + 1] = m
                          /\ \A i \in 1..Len(down) : down'[i] = down[i]
  BY QueuesTyped, Sending DEF TurnInv
<1>2. CASE sock # "open"
  BY <1>1, <1>2 DEF Answers, Voiced, Holds
<1>3. CASE sock = "open"
  <2> DEFINE n == Len(down)
             d == down'
  <2>1. n \in Nat /\ 1..Len(d) = 1..n \cup {n + 1} /\ d[n + 1] = m /\ \A i \in 1..n : d[i] = down[i]
    BY <1>1, <1>3
  <2>2. Voiced' = (Voiced \/ m.kind = "audio")
    BY <2>1 DEF Voiced, Holds
  <2>3. Answers' = IF m.kind = "final" THEN Answers \cup {m.turn} ELSE Answers
    BY <2>1 DEF Answers
  <2> QED
    BY <1>3, <2>2, <2>3
<1> QED
  BY <1>2, <1>3

LEMMA ReceivingTells ==
    ASSUME TurnInv, NEW kind, Receives(kind)
    PROVE  /\ kind # "final" => Answers' = Answers
           /\ kind = "final" => Answers = {asked} /\ Answers' = {}
           /\ kind # "audio" => Voiced' = Voiced
           /\ Voiced' => Voiced
<1>1. down \in Seq(Messages) /\ down # <<>> /\ down' = Tail(down) /\ Head(down).kind = kind
  BY QueuesTyped DEF TurnInv, Receives
<1> DEFINE n == Len(down)
           d == down'
<1>2. /\ n \in Nat \ {0} /\ Len(d) = n - 1 /\ down[1].kind = kind
      /\ \A i \in 1..Len(d) : d[i] = down[i + 1] /\ i + 1 \in 1..n
  BY <1>1, TailItems
<1>3. \A i \in 1..n : i = 1 \/ (i - 1 \in 1..Len(d) /\ d[i - 1] = down[i])
  <2> SUFFICES ASSUME NEW i \in 1..n, i # 1 PROVE i - 1 \in 1..Len(d) /\ d[i - 1] = down[i]
    OBVIOUS
  <2> DEFINE j == i - 1
  <2>1. j \in 1..Len(d) /\ j + 1 = i
    BY <1>2
  <2> HIDE DEF j, d
  <2>2. d[j] = down[j + 1]
    BY <1>2, <2>1
  <2> QED
    BY <2>1, <2>2 DEF j
<1>4. \A i \in 1..n : down[i].kind = "final" => i = 1 /\ down[i].turn = asked
  BY DEF TurnInv, DownOK
<1>5. \A i \in 1..Len(d) : d[i].kind # "final"
  BY <1>2, <1>4
<1>6. Answers' = {}
  BY <1>5 DEF Answers
<1>7. Answers = IF kind = "final" THEN {asked} ELSE {}
  BY <1>2, <1>4 DEF Answers
<1>8. Voiced' => Voiced
  BY <1>2 DEF Voiced, Holds
<1>9. kind # "audio" /\ Voiced => Voiced'
  BY <1>2, <1>3 DEF Voiced, Holds
<1> QED
  BY <1>6, <1>7, <1>8, <1>9 DEF Voiced, Holds

LEMMA LosingTells ==
    ASSUME TurnInv, NEW n \in 0..Len(down), down' = SubSeq(down, 1, n)
    PROVE  Answers' \subseteq Answers /\ (Voiced' => Voiced)
<1>1. Len(down') = n /\ \A i \in 1..n : down'[i] = down[i] /\ i \in 1..Len(down)
  BY QueuesTyped, PrefixItems DEF TurnInv
<1> QED
  BY <1>1 DEF Answers, Voiced, Holds

----------------------------------------------------------------------------
(* Every step is a step of the conversation, or leaves it alone.            *)

LEMMA AudibleIs ==
    /\ Audible = (Speaking \/ playing > 0 \/ Voiced)
    /\ Audible' = (Speaking' \/ playing' > 0 \/ Voiced')
BY DEF Audible, Voiced

ConvUnchanged == UNCHANGED <<asked, Closed, turn, Stage, window, Audible, Answers>>

LEMMA ConvStutters == ConvUnchanged => UNCHANGED Conv!vars
BY DEF ConvUnchanged, Conv!vars

LEMMA PageTakesTurns ==
    ASSUME TurnInv, QuietInv, Page \/ UserEnds
    PROVE  [Conv!Next]_(Conv!vars)
<1> USE AudibleIs, ConvStutters DEF Conv!Next
<1>0. /\ asked \in Nat /\ turn \in Nat /\ playing \in Nat
      /\ page = "turn" => asked - 1 < asked
  BY TurnLoopAssumption DEF TurnInv, TurnTypeOK
<1>1. ASSUME PageOpens \/ PostEnd PROVE ConvUnchanged
  BY <1>1
     DEF ConvUnchanged, PageOpens, PostEnd, WaitForAgentDone, Closed, Stage, Audible, Answers,
         Speaking, sockVars, loopVars, Holds
<1>2. ASSUME PlayAgentChunk PROVE ConvUnchanged
  <2>1. Head(down).kind = "audio" /\ Answers' = Answers /\ playing' > 0
    BY <1>0, <1>2, ReceivingTells DEF PlayAgentChunk, Receives
  <2>2. Voiced
    <3>1. down[1].kind = "audio" /\ 1 \in 1..Len(down)
      BY <1>2, <2>1, QueuesTyped, TailItems DEF TurnInv, PlayAgentChunk, Receives
    <3> QED
      BY <3>1 DEF Voiced, Holds
  <2> QED
    BY <1>2, <2>1, <2>2 DEF ConvUnchanged, PlayAgentChunk, Receives, Closed, Stage, loopVars
<1>3. ASSUME OnFinal PROVE Conv!Learn
  <2>1. page = "turn" /\ Receives("final")
    BY <1>3, Receiving DEF OnFinal
  <2>2. page' # "turn" /\ UNCHANGED <<asked, playing, loop, turn, window>>
    BY <1>3, <2>1 DEF OnFinal, WaitForAgentDone, Receives, loopVars
  <2>3. Answers = {asked} /\ Answers' = {} /\ Voiced' = Voiced
    BY <2>1, ReceivingTells
  <2> QED
    BY <1>0, <2>1, <2>2, <2>3 DEF Conv!Learn, Closed, Stage, Speaking
<1>4. ASSUME OnAgentDone PROVE ConvUnchanged
  <2>1. page # "turn" /\ Receives("agent_done")
    BY <1>4, Receiving DEF OnAgentDone
  <2>2. page' # "turn" /\ UNCHANGED <<asked, playing, loop, turn, window>>
    BY <1>4, <2>1 DEF OnAgentDone, Receives, loopVars
  <2>3. Answers' = Answers /\ Voiced' = Voiced
    BY <2>1, ReceivingTells
  <2> QED
    BY <2>1, <2>2, <2>3 DEF ConvUnchanged, Closed, Stage, Speaking
<1>5. ASSUME OnError PROVE Conv!GiveUp \/ ConvUnchanged
  <2>1. Answers' = Answers /\ Voiced' = Voiced
    BY <1>5, ReceivingTells DEF OnError
  <2>2. /\ page' = IF page = "turn" THEN "ending" ELSE page
        /\ UNCHANGED <<asked, playing, loop, turn, window>>
    BY <1>5 DEF OnError, Receives, loopVars
  <2> QED
    BY <1>0, <2>1, <2>2 DEF Conv!GiveUp, ConvUnchanged, Closed, Stage, Speaking
<1>6. ASSUME ChunkPlayed PROVE Conv!Lose
  <2>1. Answers' = Answers /\ Voiced' = Voiced /\ UNCHANGED <<asked, page, loop, turn, window>>
    BY <1>6 DEF ChunkPlayed, Answers, Voiced, Holds, sockVars, loopVars
  <2>2. playing' > 0 => playing > 0
    BY <1>6 DEF ChunkPlayed
  <2> QED
    BY <2>1, <2>2 DEF Conv!Lose, Closed, Stage, Speaking
<1>7. ASSUME PageGoesOn PROVE Conv!Open \/ ConvUnchanged
  <2>1. /\ asked = turn /\ playing = 0 /\ down = <<>> /\ loop \in Idle /\ page = "draining"
    BY <1>7, OpensQuietly DEF TurnInv, TurnTypeOK, PageOK, PageGoesOn
  <2>2. Answers = {} /\ ~Voiced /\ ~Speaking
    BY <2>1 DEF Answers, Voiced, Holds, Speaking, Idle
  <2>3. UNCHANGED <<playing, down, loop, turn, window>>
    BY <1>7 DEF PageGoesOn, loopVars
  <2>4. UNCHANGED <<Answers, Voiced, Speaking>>
    BY <2>3 DEF Answers, Voiced, Holds, Speaking
  <2>5. CASE pageStatus = "active"
    <3>1. page' = "turn" /\ asked' = asked + 1
      BY <1>7, <2>5 DEF PageGoesOn, StartTurn
    <3>2. Closed = asked /\ Closed' = asked
      BY <1>0, <2>1, <3>1 DEF Closed
    <3>3. Stage = "agent" /\ Stage' = "agent"
      BY <2>1, <2>3 DEF Stage, Idle
    <3>4. Audible = FALSE /\ Audible' = FALSE
      <4>1. ~(Speaking \/ playing > 0 \/ Voiced)
        BY <2>1, <2>2
      <4>2. ~(Speaking' \/ playing' > 0 \/ Voiced')
        BY <2>1, <2>2, <2>3 DEF Voiced, Holds, Speaking
      <4> QED
        BY <4>1, <4>2 DEF Audible, Voiced
    <3> QED
      BY <2>1, <2>2, <2>3, <2>4, <3>1, <3>2, <3>3, <3>4 DEF Conv!Open
  <2>6. CASE pageStatus # "active"
    <3>1. page' = "ending" /\ asked' = asked
      BY <1>7, <2>6 DEF PageGoesOn
    <3> QED
      BY <2>1, <2>3, <2>4, <3>1 DEF ConvUnchanged, Closed, Stage
  <2> QED
    BY <2>5, <2>6
<1>8. ASSUME StopMedia PROVE Conv!Lose
  <2>1. /\ page = "ending" /\ page' = "closing" /\ down' = <<>>
        /\ UNCHANGED <<asked, playing, loop, turn, window>>
    BY <1>8 DEF StopMedia, loopVars
  <2>2. Answers' = {} /\ ~Voiced'
    BY <2>1 DEF Answers, Voiced, Holds
  <2> QED
    BY <2>1, <2>2 DEF Conv!Lose, Closed, Stage, Speaking
<1>9. ASSUME UserEnds PROVE Conv!GiveUp \/ ConvUnchanged
  <2>1. page' = "ending" /\ UNCHANGED <<asked, playing, loop, turn, window, down>>
    BY <1>9 DEF UserEnds, sockVars, loopVars
  <2>2. UNCHANGED <<Answers, Audible, Stage>>
    BY <2>1 DEF Answers, Audible, Holds, Speaking, Stage
  <2> QED
    BY <1>0, <2>1, <2>2 DEF Conv!GiveUp, ConvUnchanged, Closed
<1> QED
  BY <1>1, <1>2, <1>3, <1>4, <1>5, <1>6, <1>7, <1>8, <1>9 DEF Page

LEMMA LoopTakesTurns ==
    ASSUME TurnInv, QuietInv, Loop
    PROVE  [Conv!Next]_(Conv!vars)
<1> USE AudibleIs, ConvStutters DEF Conv!Next
<1>0. turn \in 0..MaxTurns /\ status \in Statuses /\ brain \in Statuses /\ Closed' = Closed
  BY TurnLoopAssumption
     DEF TurnInv, TurnTypeOK, Loop, Boot, BootFails, Speak, SpeakChunk, SpeakEnds, SpeakFails,
         SayDone, LoopLeaves, TakesEnd, TakesStartTurn, Listen, Connected, ListenFails, EndSpeech,
         Heard, HeardError, TakesEvent, Ask, BrainAnswers, BrainUnavailable, Closed, pageVars
<1>1. ASSUME NEW kind \in {"audio", "final", "agent_done", "error"}, NEW n \in {0, turn},
             NEW s \in Statuses, Send(Msg(kind, n, s))
      PROVE  /\ Answers' = IF sock = "open" /\ kind = "final" THEN Answers \cup {n} ELSE Answers
             /\ kind # "audio" => Voiced' = Voiced
  <2> DEFINE m == Msg(kind, n, s)
  <2>1. m \in Messages /\ m.kind = kind /\ m.turn = n
    BY <1>0, TurnLoopAssumption DEF Msg, Messages
  <2> HIDE DEF m
  <2>2. Send(m)
    BY <1>1 DEF m
  <2>3. /\ Answers' = IF sock = "open" /\ m.kind = "final" THEN Answers \cup {m.turn} ELSE Answers
        /\ Voiced' = (Voiced \/ (sock = "open" /\ m.kind = "audio"))
    BY <2>1, <2>2, SendingTells
  <2>4. Voiced \in BOOLEAN
    BY DEF Voiced, Holds
  <2> QED
    BY <2>1, <2>3, <2>4
<1>2. ASSUME Boot PROVE Conv!Voice \/ ConvUnchanged
  <2>1. asked = turn /\ loop = "boot" /\ loop' \in {"greeting", "done"}
    BY <1>2 DEF QuietInv, Boot, Idle
  <2>2. UNCHANGED <<asked, playing, turn, window, down>>
    BY <1>2 DEF Boot, pageVars, sockVars
  <2>3. UNCHANGED <<Answers, Voiced>>
    BY <2>2 DEF Answers, Voiced, Holds
  <2>4. Stage = "agent" /\ Stage' = "agent"
    BY <2>1 DEF Stage
  <2>5. ~Speaking /\ Audible' = (Speaking' \/ Audible)
    BY <2>1, <2>2, <2>3 DEF Speaking
  <2>6. (Audible' <=> ~Audible) \/ (Audible' <=> Audible)
    OBVIOUS
  <2> QED
    BY <1>0, <2>1, <2>2, <2>3, <2>4, <2>6 DEF Conv!Voice, ConvUnchanged, Audible
<1>3. ASSUME BootFails \/ SayDone PROVE ConvUnchanged
  <2>1. PICK kind \in {"error", "agent_done"}, s \in Statuses : Send(Msg(kind, 0, s))
    BY <1>0, <1>3 DEF BootFails, SayDone, Statuses
  <2>2. UNCHANGED <<Answers, Voiced>>
    BY <1>1, <2>1
  <2>3. /\ UNCHANGED <<asked, playing, turn, window>>
        /\ loop \in {"boot", "done"} /\ loop' \in {"unbooted", "waiting", "exited"}
    BY <1>3 DEF BootFails, SayDone, pageVars
  <2> QED
    BY <1>0, <2>2, <2>3 DEF ConvUnchanged, Stage, Speaking
<1>4. ASSUME SpeakChunk PROVE ConvUnchanged
  <2>1. Send(Msg("audio", 0, "active")) /\ Speaking /\ UNCHANGED <<asked, playing, turn, window, loop>>
    BY <1>4 DEF SpeakChunk, pageVars
  <2>2. Answers' = Answers
    BY <1>1, <2>1 DEF Statuses
  <2> QED
    BY <1>0, <2>1, <2>2 DEF ConvUnchanged, Stage, Speaking
<1>5. ASSUME SpeakEnds \/ SpeakFails PROVE Conv!Lose
  <2>1. UNCHANGED <<Answers, Voiced>>
    <3>1. ASSUME SpeakEnds PROVE UNCHANGED <<Answers, Voiced>>
      BY <3>1 DEF SpeakEnds, sockVars, Answers, Voiced, Holds
    <3>2. ASSUME SpeakFails PROVE UNCHANGED <<Answers, Voiced>>
      BY <1>1, <3>2 DEF SpeakFails, Statuses
    <3> QED
      BY <1>5, <3>1, <3>2
  <2>2. UNCHANGED <<asked, playing, turn, window>> /\ Speaking /\ loop' = "done"
    BY <1>5 DEF SpeakEnds, SpeakFails, pageVars
  <2> QED
    BY <1>0, <2>1, <2>2 DEF Conv!Lose, Stage, Speaking
<1>6. ASSUME LoopLeaves \/ TakesEnd PROVE ConvUnchanged
  <2>1. /\ UNCHANGED <<asked, playing, turn, window, down>>
        /\ loop = "waiting" /\ loop' = "exited"
    BY <1>6 DEF LoopLeaves, TakesEnd, pageVars, sockVars
  <2> QED
    BY <1>0, <2>1 DEF ConvUnchanged, Stage, Audible, Answers, Holds, Speaking
<1>7. ASSUME TakesStartTurn PROVE Conv!TakeUp
  <2>1. /\ UNCHANGED <<asked, playing, down>> /\ window' = TRUE
        /\ loop = "waiting" /\ loop' = "dialing" /\ turn' = asked /\ turn < asked
    BY <1>0, <1>7, TakesQuietly DEF TakesStartTurn, pageVars
  <2>2. UNCHANGED <<Answers, Audible>> /\ Stage = "agent" /\ Stage' = "user"
    BY <2>1 DEF Answers, Audible, Holds, Speaking, Stage
  <2> QED
    BY <1>0, <2>1, <2>2 DEF Conv!TakeUp
<1>8. ASSUME Connected PROVE ConvUnchanged
  <2>1. /\ UNCHANGED <<asked, playing, turn, window, down>>
        /\ loop = "dialing" /\ loop' = "listening"
    BY <1>8 DEF Connected, pageVars, sockVars
  <2> QED
    BY <1>0, <2>1 DEF ConvUnchanged, Stage, Audible, Answers, Holds, Speaking
<1>9. ASSUME EndSpeech PROVE Conv!Mute \/ ConvUnchanged
  <2>1. /\ UNCHANGED <<asked, playing, turn, down, loop>> /\ window' = FALSE
        /\ loop = "listening" /\ window \in BOOLEAN
    BY <1>9 DEF EndSpeech, TakesEvent, pageVars, sockVars, TurnInv, TurnTypeOK
  <2>2. UNCHANGED <<Answers, Audible, Stage>> /\ Stage = "user"
    BY <2>1 DEF Answers, Audible, Holds, Speaking, Stage
  <2> QED
    BY <1>0, <2>1, <2>2 DEF Conv!Mute, ConvUnchanged
<1>10. ASSUME ListenFails \/ Heard \/ HeardError PROVE Conv!Ask
  <2>1. /\ UNCHANGED <<asked, playing, turn, down>> /\ window' = FALSE
        /\ loop \in {"dialing", "listening"} /\ loop' = "asking"
    BY <1>10 DEF ListenFails, Heard, HeardError, EndListening, TakesEvent, pageVars, sockVars
  <2>2. UNCHANGED <<Answers, Audible>> /\ Stage = "user" /\ Stage' = "brain"
    BY <2>1 DEF Answers, Audible, Holds, Speaking, Stage
  <2> QED
    BY <1>0, <2>1, <2>2 DEF Conv!Ask
<1>11. ASSUME BrainAnswers \/ BrainUnavailable PROVE Conv!Reply
  <2>1. Answers' \in {Answers, Answers \cup {turn}}
    <3>1. ASSUME BrainAnswers PROVE Answers' \in {Answers, Answers \cup {turn}}
      <4>1. brain' \in Statuses /\ Send(Msg("final", turn, brain'))
        BY <1>0, <3>1 DEF BrainAnswers, Statuses
      <4> QED
        BY <1>1, <4>1
    <3>2. ASSUME BrainUnavailable PROVE Answers' = Answers
      BY <1>1, <3>2 DEF BrainUnavailable, Statuses
    <3> QED
      BY <1>11, <3>1, <3>2
  <2>2. /\ UNCHANGED <<asked, turn, window>>
        /\ loop = "asking" /\ loop' \in {"speaking", "done"}
    BY <1>11 DEF BrainAnswers, BrainUnavailable, pageVars
  <2>3. Stage = "brain" /\ Stage' = "agent" /\ Audible' \in BOOLEAN
    BY <2>2 DEF Stage, Audible
  <2> QED
    BY <1>0, <2>1, <2>2, <2>3 DEF Conv!Reply
<1> QED
  BY <1>2, <1>3, <1>4, <1>5, <1>6, <1>7, <1>8, <1>9, <1>10, <1>11
     DEF Loop, Speak, Listen, Ask

LEMMA RestTakesTurns ==
    ASSUME TurnInv, ControlRead \/ SockDrops \/ Cancel \/ UNCHANGED vars \/ \E s \in Turns : Reader(s)
    PROVE  [Conv!Next]_(Conv!vars)
<1> USE AudibleIs, ConvStutters DEF Conv!Next
<1>1. ASSUME ControlRead \/ Cancel \/ UNCHANGED vars \/ \E s \in Turns : Reader(s)
      PROVE  ConvUnchanged
  <2>1. UNCHANGED <<page, asked, playing, loop, turn, window, down>>
    BY <1>1
       DEF ControlRead, Cancel, Reader, ReaderEndSpeech, ReaderFinal, ReaderError, ReaderEmits,
           vars, pageVars, sockVars, loopVars
  <2> QED
    BY <2>1 DEF ConvUnchanged, Closed, Stage, Audible, Answers, Holds, Speaking
<1>2. ASSUME SockDrops PROVE Conv!Lose
  <2>1. UNCHANGED <<page, asked, playing, loop, turn, window>>
    BY <1>2 DEF SockDrops, pageVars, loopVars
  <2>2. Answers' \subseteq Answers /\ (Voiced' => Voiced)
    BY <1>2, LosingTells DEF SockDrops
  <2> QED
    BY <2>1, <2>2 DEF Conv!Lose, Closed, Stage, Speaking
<1> QED
  BY <1>1, <1>2

(* web/index.html and turnloop.go hold a conversation in turns, for any     *)
(* number of turns: no turn is opened before the agent has been heard to    *)
(* its end, none is taken up twice, and an answer closes its own turn only. *)
THEOREM PageAndLoopTakeTurns == Spec => TakesTurns
<1>1. Init => Conv!Init
  BY DEF Init, Conv!Init, Closed, Stage, Audible, Answers, Holds, Speaking
<1>2. TurnInv /\ QuietInv /\ [Next]_vars => [Conv!Next]_(Conv!vars)
  BY PageTakesTurns, LoopTakesTurns, RestTakesTurns DEF Next
<1> QED
  BY <1>1, <1>2, TurnInvariant, QuietInvariant, PTL DEF Spec, TakesTurns, Conv!Spec

=============================================================================
