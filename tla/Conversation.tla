---------------------------- MODULE Conversation ----------------------------
(****************************************************************************)
(* What a spoken conversation promises, whatever signals, queues and        *)
(* sockets carry it: the page opens turns one by one, each after the agent  *)
(* has been heard to its end; a turn is taken up at most once; the          *)
(* microphone is open in it only, while the agent is silent; an answer      *)
(* closes the turn it was given for and no other.  A connection may be lost *)
(* at any time, and with it an answer, the agent's voice, or a turn that    *)
(* was opened and is never taken up.                                        *)
(*                                                                          *)
(* The turn loop with its page is shown to implement this module: see       *)
(* TakesTurns in TurnLoop.tla.                                              *)
(****************************************************************************)
EXTENDS Integers

VARIABLES opened,    \* turns the page has opened
          closed,    \* those of them that are over for the page
          taken,     \* those the agent has taken up
          stage,     \* whose it is: "user", "brain" or "agent"
          mic,       \* the microphone is open
          audible,   \* the agent speaks, or is still to be heard
          answers    \* the turns whose answers are on their way to the page

vars == <<opened, closed, taken, stage, mic, audible, answers>>

Init == /\ opened = 0 /\ closed = 0 /\ taken = 0
        /\ stage = "agent" /\ mic = FALSE /\ audible = FALSE
        /\ answers = {}

(* Nothing of the turns before is open, under way or to be heard.           *)
Open == /\ closed = opened /\ taken = opened /\ answers = {}
        /\ stage = "agent" /\ ~audible
        /\ opened' = opened + 1
        /\ UNCHANGED <<closed, taken, stage, mic, audible, answers>>

TakeUp == /\ stage = "agent" /\ taken < opened
          /\ taken' = opened
          /\ stage' = "user" /\ mic' = TRUE
          /\ UNCHANGED <<opened, closed, audible, answers>>

Mute == /\ stage = "user" /\ mic
        /\ mic' = FALSE
        /\ UNCHANGED <<opened, closed, taken, stage, audible, answers>>

Ask == /\ stage = "user"
       /\ stage' = "brain" /\ mic' = FALSE
       /\ UNCHANGED <<opened, closed, taken, audible, answers>>

(* The brain may give no answer, or one that the connection does not carry. *)
Reply == /\ stage = "brain"
         /\ stage' = "agent"
         /\ answers' \in {answers, answers \cup {taken}}
         /\ audible' \in BOOLEAN
         /\ UNCHANGED <<opened, closed, taken, mic>>

(* The agent begins or ends to be heard, with no turn waiting.              *)
Voice == /\ stage = "agent" /\ taken = opened
         /\ audible' = ~audible
         /\ UNCHANGED <<opened, closed, taken, stage, mic, answers>>

(* An answer is that of the turn the page has open.                         *)
Learn == /\ closed < opened /\ opened \in answers
         /\ closed' = opened
         /\ answers' = answers \ {opened}
         /\ UNCHANGED <<opened, taken, stage, mic, audible>>

GiveUp == /\ closed < opened
          /\ closed' = opened
          /\ UNCHANGED <<opened, taken, stage, mic, audible, answers>>

Lose == /\ answers' \in SUBSET answers
        /\ audible' \in {audible, FALSE}
        /\ UNCHANGED <<opened, closed, taken, stage, mic>>

Next == Open \/ TakeUp \/ Mute \/ Ask \/ Reply \/ Voice \/ Learn \/ GiveUp \/ Lose

Spec == Init /\ [][Next]_vars
=============================================================================
