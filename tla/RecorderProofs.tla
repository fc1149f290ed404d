--------------------------- MODULE RecorderProofs ---------------------------
(****************************************************************************)
(* Proofs about the recording of a session id: a frame of sound lies at its *)
(* call time, the video on the disk lacks only what was not or could not be *)
(* written, and the movie of an acknowledged call is made of complete files.*)
(* All of them rest on one argument: one call at a time owns the files.     *)
(****************************************************************************)
EXTENDS Recorder, SequenceLemmas

Frames == [kind : Kinds, at : Nat]
SoundUnits == [at : Nat, part : Nat]
Clients == [state : {"new", "open", "closing", "closed", "finalized"},
            now : Nat, sent : Nat, queue : Seq(Frames)]
Muxes == [file : BOOLEAN, started : BOOLEAN, first : Nat, seq : Nat,
          frag : Seq(Frames), pending : Seq(Frames)]
Films == [of : Nat, groups : Seq(Seq(Frames)), lost : SUBSET Nat]
Fragments == [seq : Nat, whole : BOOLEAN, samples : Seq(Frames)]
Disks == [user : Seq(SoundUnits), agent : Seq(SoundUnits), init : {"none", "torn", "whole"},
          zero : Nat, video : Seq(Fragments), meta : [of : Nat, at : Nat]]

Types ==
  /\ client \in [Calls -> Clients]
  /\ link \in [Calls -> {"none", "up", "broken"}]
  /\ handler \in [Calls -> {"none", "recv", "muxing", "flushed", "closed", "gone", "unused"}]
  /\ written \in [user : Nat, agent : Nat]
  /\ channel \in Seq(Frames) /\ mux \in Muxes /\ film \in Films
  /\ disk \in Disks
  /\ acked \subseteq Calls
  /\ job \in [Calls -> {"none", "accepted", "looked", "done", "refused", "killed"}]
  /\ DOMAIN movie = Calls

Active == {"recv", "muxing", "flushed"}

(* One call at a time: when a call has begun, the calls before it are over. *)
OneAtATime ==
  \A c \in Calls : client[c].state # "new" =>
    \A b \in Calls : b < c => client[b].state = "finalized" /\ handler[b] \notin Active

(* What the steps of one call have left behind when it is at a state.       *)
CallSteps ==
  \A c \in Calls :
    /\ client[c].state \in {"new", "closed", "finalized"} => client[c].queue = <<>>
    /\ client[c].state = "new" => handler[c] = "none" /\ link[c] = "none" /\ job[c] = "none"
    /\ client[c].state \in {"closed", "finalized"} => c \in acked \/ link[c] = "broken"
    /\ job[c] # "none" => client[c].state = "finalized"
    /\ c \in acked => link[c] = "up" /\ handler[c] \in {"closed", "unused"}

CallsInv == Types /\ OneAtATime /\ CallSteps

(* A file of sound has no sound of a time after t, and it ends in sound or  *)
(* at silence that does not reach beyond t.                                 *)
SoundBefore(file, t) == \A i \in DOMAIN file : file[i].part > 0 => file[i].at <= t
EndsBefore(file, t) ==
  SoundBefore(file, t) /\ (file # <<>> => file[Len(file)].part > 0 \/ Len(file) <= t)
Aligned(file) ==
  \A i \in DOMAIN file : file[i].part > 0 =>
    /\ file[i].part = 1 /\ i - 1 # file[i].at =>
         i - 1 > file[i].at /\ i - 1 \in DOMAIN file /\ file[i - 1].part > 0
    /\ file[i].part > 1 =>
         /\ i - 1 \in DOMAIN file /\ file[i - 1].part > 0
         /\ file[i - 1] = [file[i] EXCEPT !.part = @ - 1]
    /\ \A j \in DOMAIN file : file[j].part > 0 /\ j < i => file[j].at <= file[i].at

(* The queue of a call is in call time, up to the time of the last frame.   *)
QueueInOrder(c) ==
  \A i \in 1 .. Len(client[c].queue) :
    /\ client[c].queue[i].at <= client[c].now
    /\ \A j \in 1 .. i : client[c].queue[j].at <= client[c].queue[i].at

(* While a call is received, each cursor is the length of its file, and     *)
(* what the call still brings comes after what is in the file.              *)
CursorAtEnd(c) ==
  handler[c] = "recv" =>
    \A k \in Audio :
      /\ written[k] = Len(disk[k])
      /\ EndsBefore(disk[k], client[c].now)
      /\ \A i \in 1 .. Len(client[c].queue) : EndsBefore(disk[k], client[c].queue[i].at)

SoundInv ==
  /\ \A c \in Calls : QueueInOrder(c) /\ CursorAtEnd(c)
  /\ \A k \in Audio : Aligned(disk[k])

(* A group of pictures: its first access unit is its only key frame.        *)
IsGroup(s) == s # <<>> /\ \A j \in DOMAIN s : (s[j].kind = "key") <=> (j = 1)

Samples == mux.frag \o mux.pending

(* The fragments on the disk are groups of the film, in order, and it lacks *)
(* only the last group and those that could not be written.                 *)
Covered == Written \cup film.lost

FragmentsInv ==
  /\ \A n \in DOMAIN film.groups : IsGroup(film.groups[n])
  /\ \A i \in DOMAIN disk.video :
       /\ disk.video[i].seq \in DOMAIN film.groups
       /\ disk.video[i].whole => disk.video[i].samples = film.groups[disk.video[i].seq]
       /\ ~disk.video[i].whole => disk.video[i].seq \in film.lost
       /\ \A j \in DOMAIN disk.video : i < j => disk.video[i].seq < disk.video[j].seq
  /\ \A n \in DOMAIN film.groups : n < Len(film.groups) => n \in Covered
  /\ 0 \notin film.lost => disk.init = IF film.groups # <<>> THEN "whole" ELSE "none"

(* What the mux holds is the last group of the film, which the file does    *)
(* not have yet.                                                            *)
MuxInv ==
  /\ mux.started =>
       /\ mux.file /\ film.groups # <<>> /\ mux.seq = Len(film.groups)
       /\ Samples = film.groups[Len(film.groups)]
       /\ mux.first = film.groups[1][1].at
  /\ mux.file /\ ~mux.started => film.groups = <<>> /\ mux.frag = <<>>

(* Whose the film and the meta.json are.                                    *)
OwnersInv ==
  \A c \in Calls :
    /\ handler[c] = "none" => film.of # c
    /\ handler[c] \in Active => (mux.file <=> film.of = c)
    /\ handler[c] \in {"recv", "muxing"} /\ mux.started =>
         \A i \in DOMAIN disk.video : disk.video[i].seq < mux.seq
    /\ handler[c] = "flushed" /\ mux.file => DOMAIN film.groups \subseteq Covered
    /\ disk.meta.of = c => handler[c] = "closed"

VideoInv == FragmentsInv /\ MuxInv /\ OwnersInv

LastCall(c) == \A b \in Calls : b > c => client[b].state = "new"

(* After the Ack of the last call nothing is added to the files any more:   *)
(* its film is covered, the meta.json that is its own tells where the film  *)
(* starts, and its job has looked at and combined the files as they are.    *)
FilmIsWhole(c) ==
  film.of = c =>
    /\ DOMAIN film.groups \subseteq Covered
    /\ disk.meta.of = c /\ film.groups # <<>> => disk.meta.at = film.groups[1][1].at

JobOnFiles(c) ==
  /\ job[c] = "looked" \/ (job[c] = "done" /\ movie[c].used # {}) =>
       /\ SoundFiles \subseteq movie[c].used
       /\ "video" \in movie[c].used => movie[c].offset = disk.meta.at
  /\ job[c] = "done" /\ movie[c].used # {} =>
       movie[c] = Combined(disk, movie[c].used, movie[c].offset)

AckedInv ==
  \A c \in acked : handler[c] = "closed" /\ LastCall(c) => FilmIsWhole(c) /\ JobOnFiles(c)

----------------------------------------------------------------------------
(* One call at a time.                                                      *)

(* A call whose stream may still bring something is alone with the files.   *)
LEMMA Alone ==
    ASSUME CallsInv, RecorderAssumption, NEW c \in Calls,
           client[c].state \in {"open", "closing"} \/ handler[c] \in Active
    PROVE  \A b \in Calls : b # c => handler[b] \notin Active
<1>1. client[c].state # "new"
  BY DEF CallsInv, CallSteps, Active
<1>2. SUFFICES ASSUME NEW b \in Calls, b # c, handler[b] \in Active PROVE FALSE
  OBVIOUS
<1>3. client[b].state # "new"
  BY <1>2 DEF CallsInv, CallSteps, Active
<1>4. b \in Nat /\ c \in Nat
  BY DEF RecorderAssumption
<1>5. CASE b < c
  BY <1>1, <1>2, <1>5 DEF CallsInv, OneAtATime
<1>6. CASE c < b
  BY <1>3, <1>6 DEF CallsInv, OneAtATime
<1> QED
  BY <1>2, <1>4, <1>5, <1>6

(* After the Ack of the last call nobody changes its files.                 *)
LEMMA Quiet ==
    ASSUME CallsInv, RecorderAssumption, NEW c \in acked, LastCall(c), NEW b \in Calls
    PROVE  /\ handler[b] \notin Active
           /\ ~(handler[b] = "none" /\ link[b] = "up" /\ client[b].queue # <<>>)
<1>1. c \in Calls /\ client[c].state # "new" /\ handler[c] \in {"closed", "unused"}
  BY DEF CallsInv, Types, CallSteps
<1>2. b \in Nat /\ c \in Nat
  BY <1>1 DEF RecorderAssumption
<1>3. CASE b = c
  BY <1>1, <1>3 DEF Active
<1>4. CASE b < c
  BY <1>1, <1>4 DEF CallsInv, OneAtATime, CallSteps
<1>5. CASE b > c
  <2>1. client[b].state = "new"
    BY <1>5 DEF LastCall
  <2> QED
    BY <2>1 DEF CallsInv, CallSteps, Active
<1> QED
  BY <1>2, <1>3, <1>4, <1>5

----------------------------------------------------------------------------
(* The typing and the order of the calls are kept by every step.            *)

LEMMA CallTypes ==
    ASSUME Types, NEW c \in Calls
    PROVE  /\ client[c] \in Clients /\ client[c].queue \in Seq(Frames) /\ client[c].now \in Nat
           /\ client[c].queue # <<>> =>
                /\ Tail(client[c].queue) \in Seq(Frames)
                /\ Head(client[c].queue) \in Frames
<1>1. client[c] \in Clients
  BY DEF Types
<1>2. client[c].queue \in Seq(Frames) /\ client[c].now \in Nat
  BY <1>1 DEF Clients
<1> QED
  BY <1>1, <1>2, TailItems

LEMMA StartCalls ==
    ASSUME CallsInv, RecorderAssumption, NEW c \in Calls, Start(c)
    PROVE  CallsInv'
<1> USE DEF Start, CallsInv, recorder, session, finalize
<1>1. Types'
  <2>1. client' = [client EXCEPT ![c].state = "open"] /\ Types
    OBVIOUS
  <2>2. client' \in [Calls -> Clients]
    BY ONLY ZenonT(60), <2>1, CallTypes DEF Types, Clients
  <2>3. link' \in [Calls -> {"none", "up", "broken"}]
    BY DEF Types
  <2> QED
    BY <2>2, <2>3 DEF Types
<1>2. \A b \in Calls : b # c => client'[b] = client[b] /\ link'[b] = link[b]
  BY DEF Types
<1>3. client[c].state = "new" /\ client'[c].state = "open" /\ link'[c] \in {"up", "broken"}
  BY DEF Types, Clients
<1>4. OneAtATime'
  BY <1>2, <1>3 DEF OneAtATime, Active
<1>5. CallSteps'
  BY <1>2, <1>3 DEF CallSteps
<1> QED
  BY <1>1, <1>4, <1>5

LEMMA SendCalls ==
    ASSUME CallsInv, RecorderAssumption, NEW c \in Calls, Send(c)
    PROVE  CallsInv'
<1> USE DEF CallsInv, recorder, session, finalize
<1>1. PICK kind \in Kinds, gap \in 0 .. MaxGap :
        LET at == client[c].now + gap
        IN  client' = [client EXCEPT ![c].now = at, ![c].sent = @ + 1,
                         ![c].queue = IF Len(@) < SendBuffer
                                      THEN Append(@, [kind |-> kind, at |-> at]) ELSE @]
  BY DEF Send
<1>2. gap \in Nat /\ client[c].now + gap \in Nat
  BY CallTypes DEF RecorderAssumption
<1>3. [kind |-> kind, at |-> client[c].now + gap] \in Frames
  BY <1>2 DEF Frames
<1>4. Append(client[c].queue, [kind |-> kind, at |-> client[c].now + gap]) \in Seq(Frames)
  BY <1>3, CallTypes, AppendItems
<1>5. Types'
  <2> DEFINE q == IF Len(client[c].queue) < SendBuffer
                  THEN Append(client[c].queue, [kind |-> kind, at |-> client[c].now + gap])
                  ELSE client[c].queue
  <2>1. q \in Seq(Frames)
    BY <1>4, CallTypes
  <2> DEFINE r == [client[c] EXCEPT !.now = client[c].now + gap, !.sent = client[c].sent + 1,
                                    !.queue = q]
  <2>2. client' = [client EXCEPT ![c] = r]
    BY <1>1 DEF Types, Clients
  <2> HIDE DEF q
  <2>3. r \in Clients
    <3>1. client[c] \in Clients /\ client[c].now + gap \in Nat
      BY <1>2, CallTypes
    <3>2. client[c].sent + 1 \in Nat
      BY <3>1 DEF Clients
    <3> QED
      BY ONLY <2>1, <3>1, <3>2 DEF Clients
  <2> HIDE DEF r
  <2>4. client' \in [Calls -> Clients]
    BY <2>2, <2>3 DEF Types
  <2> QED
    BY <2>4 DEF Types, Send
<1>6. \A b \in Calls : b # c => client'[b] = client[b]
  BY <1>1 DEF Types
<1>7. client[c].state = "open" /\ client'[c].state = "open"
  BY <1>1 DEF Types, Clients, Send
<1>8. OneAtATime'
  BY <1>6, <1>7 DEF OneAtATime, Active, Send
<1>9. CallSteps'
  BY <1>6, <1>7 DEF CallSteps, Send
<1> QED
  BY <1>5, <1>8, <1>9

LEMMA DrainCalls ==
    ASSUME CallsInv, NEW c \in Calls, Drain(c)
    PROVE  CallsInv'
<1> USE DEF Drain, CallsInv, recorder, session, finalize
<1>1. Types'
  BY ZenonT(60), CallTypes DEF Types, Clients
<1>2. \A b \in Calls : b # c => client'[b] = client[b]
  BY DEF Types
<1>3. client'[c].state = client[c].state /\ client[c].queue # <<>>
  BY DEF Types, Clients
<1>4. OneAtATime'
  BY <1>2, <1>3 DEF OneAtATime
<1>5. CallSteps'
  BY <1>2, <1>3 DEF CallSteps
<1> QED
  BY <1>1, <1>4, <1>5

LEMMA ClosingCalls ==
    ASSUME CallsInv, NEW c \in Calls, CloseStream(c) \/ CloseReturned(c)
    PROVE  CallsInv'
<1> USE DEF CloseStream, CloseReturned, CallsInv, recorder, session, finalize
<1>1. Types'
  <2>1. PICK s \in {"closing", "closed"} : client' = [client EXCEPT ![c].state = s]
    OBVIOUS
  <2>2. client \in [Calls -> Clients]
    BY DEF Types
  <2> HIDE DEF CloseStream, CloseReturned, CallsInv
  <2>3. [client[c] EXCEPT !.state = s] \in Clients
    BY <2>2 DEF Clients
  <2>4. client' \in [Calls -> Clients]
    BY <2>1, <2>2, <2>3
  <2> QED
    BY <2>4 DEF Types, CloseStream, CloseReturned, CallsInv
<1>2. \A b \in Calls : b # c => client'[b] = client[b]
  BY DEF Types
<1>3. /\ client[c].state \in {"open", "closing"} /\ client'[c].state \in {"closing", "closed"}
      /\ client'[c].state = "closed" =>
           client'[c].queue = <<>> /\ (c \in acked \/ link[c] = "broken")
  BY DEF Types, Clients
<1>4. OneAtATime'
  BY <1>2, <1>3 DEF OneAtATime
<1>5. CallSteps'
  BY <1>2, <1>3 DEF CallSteps
<1> QED
  BY <1>1, <1>4, <1>5

LEMMA FinalizeCalls ==
    ASSUME CallsInv, NEW c \in Calls, Finalize(c)
    PROVE  CallsInv'
<1> USE DEF Finalize, CallsInv, recorder, session
<1>1. Types'
  BY ZenonT(60), CallTypes DEF Types, Clients
<1>2. \A b \in Calls : b # c => client'[b] = client[b] /\ job'[b] = job[b]
  BY DEF Types
<1>3. /\ client[c].state = "closed" /\ client'[c].state = "finalized"
      /\ client'[c].queue = client[c].queue
  BY DEF Types, Clients
<1>4. OneAtATime'
  BY <1>2, <1>3 DEF OneAtATime
<1>5. CallSteps'
  BY <1>2, <1>3 DEF CallSteps
<1> QED
  BY <1>1, <1>4, <1>5

LEMMA BreaksCalls ==
    ASSUME CallsInv, NEW c \in Calls, Breaks(c)
    PROVE  CallsInv'
<1> USE DEF Breaks, CallsInv, recorder, session, finalize
<1>1. Types'
  BY DEF Types
<1>2. /\ \A b \in Calls : b # c => link'[b] = link[b]
      /\ link[c] = "up" /\ link'[c] = "broken" /\ c \notin acked
  BY DEF Types
<1>3. OneAtATime'
  BY DEF OneAtATime
<1>4. CallSteps'
  BY <1>2 DEF CallSteps
<1> QED
  BY <1>1, <1>3, <1>4

(* A step of a handler or of the mux that the call is alone with.           *)
LEMMA HandlerCalls ==
    ASSUME CallsInv, RecorderAssumption, Types', NEW c \in Calls,
           client[c].state \in {"open", "closing"} \/ handler[c] \in Active,
           \A b \in Calls : b # c => handler'[b] = handler[b] /\ link'[b] = link[b],
           \A b \in Calls : client'[b].state = client[b].state,
           \A b \in Calls : client[b].queue = <<>> => client'[b].queue = <<>>,
           link'[c] # link[c] => link'[c] = "broken" /\ c \notin acked',
           acked \subseteq acked', acked' \subseteq acked \cup {c},
           c \in acked' => link[c] = "up" /\ handler'[c] \in {"closed", "unused"},
           handler[c] \notin Active => client[c].state \in {"open", "closing"},
           handler'[c] \in Active /\ handler[c] \notin Active => client[c].state # "finalized",
           UNCHANGED job
    PROVE  CallsInv'
<1>1. client[c].state # "new"
  BY DEF CallsInv, CallSteps, Active
<1>2. OneAtATime'
  <2>1. SUFFICES ASSUME NEW d \in Calls, NEW b \in Calls, client'[d].state # "new", b < d
                 PROVE  client'[b].state = "finalized" /\ handler'[b] \notin Active
    BY DEF OneAtATime
  <2>2. client[b].state = "finalized" /\ handler[b] \notin Active
    BY <2>1 DEF CallsInv, OneAtATime
  <2>3. b = c => handler'[b] \notin Active
    BY <2>2
  <2> QED
    BY <2>2, <2>3
<1>3. CallSteps'
  <2>1. SUFFICES ASSUME NEW b \in Calls PROVE
          /\ client'[b].state \in {"new", "closed", "finalized"} => client'[b].queue = <<>>
          /\ client'[b].state = "new" => handler'[b] = "none" /\ link'[b] = "none" /\ job'[b] = "none"
          /\ client'[b].state \in {"closed", "finalized"} => b \in acked' \/ link'[b] = "broken"
          /\ job'[b] # "none" => client'[b].state = "finalized"
          /\ b \in acked' => link'[b] = "up" /\ handler'[b] \in {"closed", "unused"}
    BY DEF CallSteps
  <2>2. CASE b = c
    BY <1>1, <2>2 DEF CallsInv, CallSteps
  <2>3. CASE b # c
    BY SMTT(30), ZenonT(60), <2>3 DEF CallsInv, CallSteps
  <2> QED
    BY <2>2, <2>3
<1> QED
  BY <1>2, <1>3 DEF CallsInv

LEMMA NewSessionCalls ==
    ASSUME CallsInv, RecorderAssumption, NEW c \in Calls, NewSession(c)
    PROVE  CallsInv'
<1> USE DEF NewSession, finalize, process
<1>1. Types'
  <2>1. /\ <<>> \in Seq(SoundUnits) /\ <<>> \in Seq(Fragments) /\ <<>> \in Seq(Frames)
        /\ <<>> \in Seq(Seq(Frames)) /\ c \in Nat
    BY EmptySeq DEF RecorderAssumption
  <2>2. /\ NoMux \in Muxes /\ [NoMux EXCEPT !.file = TRUE] \in Muxes
        /\ [of |-> c, groups |-> <<>>, lost |-> {}] \in Films
    BY <2>1 DEF NoMux, Muxes, Films
  <2>3. disk' \in Disks
    BY ZenonT(60), <2>1 DEF CallsInv, Types, Disks
  <2>4. mux' \in Muxes /\ film' \in Films
    BY <2>2 DEF CallsInv, Types
  <2> QED
    BY <2>3, <2>4 DEF CallsInv, Types
<1>2. client[c].state \in {"open", "closing"} /\ handler[c] = "none" /\ c \notin acked
  BY CallTypes DEF CallsInv, CallSteps, Types, Clients
<1>3. \A b \in Calls : b # c => handler'[b] = handler[b]
  BY DEF CallsInv, Types
<1> QED
  BY <1>1, <1>2, <1>3, HandlerCalls

LEMMA NewSessionFailsCalls ==
    ASSUME CallsInv, RecorderAssumption, NEW c \in Calls, NewSessionFails(c)
    PROVE  CallsInv'
<1> USE DEF NewSessionFails, finalize, process
<1>1. Types'
  <2>1. disk' \in Disks
    <3>1. <<>> \in Seq(SoundUnits)
      BY EmptySeq
    <3> QED
      BY <3>1 DEF CallsInv, Types, Disks
  <2> QED
    BY <2>1 DEF CallsInv, Types
<1>2. client[c].state \in {"open", "closing"} /\ handler[c] = "none" /\ c \notin acked
  BY CallTypes DEF CallsInv, CallSteps, Types, Clients
<1>3. /\ \A b \in Calls : b # c => handler'[b] = handler[b] /\ link'[b] = link[b]
      /\ link'[c] = "broken" /\ handler'[c] = "gone"
  BY DEF CallsInv, Types
<1> QED
  BY <1>1, <1>2, <1>3, HandlerCalls DEF Active

(* What a write of appendPCM does to the file of the frame's kind and to    *)
(* its cursor.                                                              *)
LEMMA WriteTypes ==
    ASSUME Types, NEW f \in Frames, f.kind \in Audio,
           NEW silence \in Nat, NEW n \in Nat, NEW counted \in Nat, Writes(f, silence, n, counted)
    PROVE  disk' \in Disks /\ written' \in [user : Nat, agent : Nat]
<1> DEFINE k == f.kind
           new == (disk[k] \o [i \in 1 .. silence |-> Silence]) \o Units(f, n)
<1>1. f.at \in Nat /\ written[k] \in Nat /\ disk[k] \in Seq(SoundUnits)
  BY DEF Frames, Types, Audio, Disks
<1>2. [i \in 1 .. silence |-> Silence] \in Seq(SoundUnits)
  BY DEF Silence, SoundUnits
<1>3. Units(f, n) \in Seq(SoundUnits)
  <2>1. \A i \in 1 .. n : [at |-> f.at, part |-> i] \in SoundUnits
    BY <1>1 DEF SoundUnits
  <2> QED
    BY <2>1 DEF Units
<1>4. new \in Seq(SoundUnits)
  <2>1. disk[k] \o [i \in 1 .. silence |-> Silence] \in Seq(SoundUnits)
    BY <1>1, <1>2, ConcatItems
  <2> QED
    BY <1>3, <2>1, ConcatItems
<1>5. disk' = [disk EXCEPT ![k] = new] /\ written' = [written EXCEPT ![k] = written[k] + counted]
  BY DEF Writes, Types, Disks, Audio
<1> HIDE DEF new
<1>6. disk' \in Disks
  BY <1>4, <1>5 DEF Types, Disks, Audio
<1>7. written[k] + counted \in Nat
  BY <1>1
<1>8. written' \in [user : Nat, agent : Nat]
  BY <1>5, <1>7 DEF Types, Audio
<1> QED
  BY <1>6, <1>8

LEMMA PadType ==
    ASSUME Types, NEW f \in Frames, f.kind \in Audio
    PROVE  Pad(f) \in Nat /\ Length[f.kind] \in Nat \ {0}
BY DEF Pad, Types, Frames, Audio, Length

(* Every outcome of appendPCM is a write.                                   *)
LEMMA AppendPCMWrites ==
    ASSUME Types, NEW f \in Frames, f.kind \in Audio, AppendPCM(f)
    PROVE  \/ \E n \in 0 .. Length[f.kind] : Writes(f, Pad(f), n, Pad(f) + n)
           \/ \E short \in IF ShortWrites THEN Nat ELSE {0} : Writes(f, short, 0, 0)
<1>1. Pad(f) \in Nat /\ Length[f.kind] \in Nat \ {0}
  BY PadType
<1>2. CASE Writes(f, Pad(f), Length[f.kind], Pad(f) + Length[f.kind])
  <2>1. Length[f.kind] \in 0 .. Length[f.kind]
    BY <1>1
  <2> QED
    BY <1>2, <2>1
<1>3. CASE \E n \in 0 .. Length[f.kind] - 1 : Writes(f, Pad(f), n, Pad(f) + n)
  <2>1. \A n \in 0 .. Length[f.kind] - 1 : n \in 0 .. Length[f.kind]
    BY <1>1
  <2> QED
    BY <1>3, <2>1
<1>4. CASE \E short \in IF ShortWrites THEN 0 .. Pad(f) - 1 ELSE {0} : Writes(f, short, 0, 0)
  <2>1. \A n \in 0 .. Pad(f) - 1 : n \in Nat
    BY <1>1
  <2> QED
    BY <1>4, <2>1
<1> QED
  BY <1>2, <1>3, <1>4 DEF AppendPCM

LEMMA AppendPCMTypes ==
    ASSUME Types, NEW f \in Frames, f.kind \in Audio, AppendPCM(f)
    PROVE  disk' \in Disks /\ written' \in [user : Nat, agent : Nat]
<1>1. Pad(f) \in Nat /\ Length[f.kind] \in Nat
  BY PadType
<1>2. ASSUME NEW n \in 0 .. Length[f.kind], Writes(f, Pad(f), n, Pad(f) + n)
      PROVE  disk' \in Disks /\ written' \in [user : Nat, agent : Nat]
  <2>1. n \in Nat /\ Pad(f) + n \in Nat
    BY <1>1
  <2> QED
    BY <1>1, <1>2, <2>1, WriteTypes
<1>3. ASSUME NEW short \in IF ShortWrites THEN Nat ELSE {0}, Writes(f, short, 0, 0)
      PROVE  disk' \in Disks /\ written' \in [user : Nat, agent : Nat]
  <2>1. short \in Nat /\ 0 \in Nat
    BY <1>3
  <2> QED
    BY <1>3, <2>1, WriteTypes
<1> QED
  BY <1>2, <1>3, AppendPCMWrites

LEMMA RecvCalls ==
    ASSUME CallsInv, RecorderAssumption, NEW c \in Calls, Recv(c)
    PROVE  CallsInv'
<1> USE DEF finalize, process
<1> DEFINE f == Head(client[c].queue)
<1>1. f \in Frames /\ client' = [client EXCEPT ![c].queue = Tail(@)] /\ Types
  BY CallTypes DEF Recv, CallsInv
<1>2. client' \in [Calls -> Clients]
  <2>1. Tail(client[c].queue) \in Seq(Frames)
    BY CallTypes DEF Recv, CallsInv
  <2> QED
    BY ZenonT(60), <1>1, <2>1, CallTypes DEF Types, Clients
<1>3. disk' \in Disks /\ written' \in [user : Nat, agent : Nat] /\ channel' \in Seq(Frames)
  <2>1. CASE f.kind \in Audio
    <3>1. AppendPCM(f) /\ UNCHANGED channel
      BY <2>1 DEF Recv
    <3> QED
      BY <1>1, <2>1, <3>1, AppendPCMTypes DEF Types
  <2>2. CASE f.kind \notin Audio
    <3>1. /\ UNCHANGED <<written, disk>>
          /\ channel' = IF Len(channel) < VideoBuffer THEN Append(channel, f) ELSE channel
      BY <2>2 DEF Recv
    <3>2. Append(channel, f) \in Seq(Frames)
      BY <1>1, AppendItems DEF Types
    <3> QED
      BY <1>1, <3>1, <3>2 DEF Types
  <2> QED
    BY <2>1, <2>2
<1>4. /\ UNCHANGED <<link, handler, acked, job, mux, film, movie>>
      /\ handler[c] = "recv" /\ client[c].queue # <<>>
  BY DEF Recv
<1>5. Types'
  BY <1>1, <1>2, <1>3, <1>4 DEF Types
<1>6. \A b \in Calls : /\ client'[b].state = client[b].state
                       /\ client[b].queue = <<>> => client'[b].queue = <<>>
  BY SMTT(30), ZenonT(60), <1>1, <1>4 DEF Types, Clients
<1>7. c \notin acked
  BY <1>4 DEF CallsInv, CallSteps
<1> QED
  BY <1>4, <1>5, <1>6, <1>7, HandlerCalls DEF Active

LEMMA StreamEndsCalls ==
    ASSUME CallsInv, RecorderAssumption, NEW c \in Calls, StreamEnds(c)
    PROVE  CallsInv'
<1> USE DEF StreamEnds, session, finalize, process
<1>1. Types'
  BY DEF CallsInv, Types
<1>2. c \notin acked /\ handler[c] \in Active
  BY DEF CallsInv, CallSteps, Active
<1>3. \A b \in Calls : b # c => handler'[b] = handler[b]
  BY DEF CallsInv, Types
<1> QED
  BY <1>1, <1>2, <1>3, HandlerCalls

LEMMA EmptyStreamCalls ==
    ASSUME CallsInv, RecorderAssumption, NEW c \in Calls, EmptyStream(c)
    PROVE  CallsInv'
<1> USE DEF EmptyStream, AtEOF, session, finalize, process
<1>1. Types'
  BY DEF CallsInv, Types
<1>2. \A b \in Calls : b # c => handler'[b] = handler[b]
  BY DEF CallsInv, Types
<1>3. handler'[c] = "unused" /\ handler[c] \notin Active /\ handler'[c] \notin Active
  BY DEF CallsInv, Types, Active
<1>4. /\ acked \subseteq acked' /\ acked' \subseteq acked \cup {c}
      /\ link[c] = "up" /\ client[c].state = "closing"
  OBVIOUS
<1>5. UNCHANGED <<client, link, job>>
  OBVIOUS
<1> HIDE DEF EmptyStream
<1>6. /\ \A b \in Calls : client'[b].state = client[b].state
      /\ \A b \in Calls : client[b].queue = <<>> => client'[b].queue = <<>>
      /\ \A b \in Calls : b # c => handler'[b] = handler[b] /\ link'[b] = link[b]
      /\ link'[c] = link[c]
  BY <1>2, <1>5
<1>7. handler'[c] \in {"closed", "unused"} /\ c \in Calls
  BY <1>3
<1> QED
  BY ONLY CallsInv, RecorderAssumption, <1>1, <1>3, <1>4, <1>5, <1>6, <1>7, HandlerCalls

(* A group to which a sample is added.                                      *)
LEMMA LastItem ==
    ASSUME NEW g \in Seq(Seq(Frames)), NEW au \in Frames
    PROVE  /\ [g EXCEPT ![Len(g)] = Append(@, au)] \in Seq(Seq(Frames))
           /\ Len([g EXCEPT ![Len(g)] = Append(@, au)]) = Len(g)
           /\ g # <<>> => [g EXCEPT ![Len(g)] = Append(@, au)][Len(g)] = Append(g[Len(g)], au)
           /\ \A i \in DOMAIN g : i # Len(g) => [g EXCEPT ![Len(g)] = Append(@, au)][i] = g[i]
<1> DEFINE h == [g EXCEPT ![Len(g)] = Append(@, au)]
<1>1. Len(g) \in Nat /\ DOMAIN g = 1 .. Len(g) /\ \A i \in 1 .. Len(g) : g[i] \in Seq(Frames)
  BY LenProperties, ElementOfSeq
<1>2. \A i \in 1 .. Len(g) : Append(g[i], au) \in Seq(Frames)
  BY <1>1, AppendItems
<1>3. h = [i \in 1 .. Len(g) |-> IF i = Len(g) THEN Append(g[i], au) ELSE g[i]]
  BY <1>1
<1>4. \A i \in 1 .. Len(g) : h[i] = IF i = Len(g) THEN Append(g[i], au) ELSE g[i]
  BY <1>3
<1>5. h \in [1 .. Len(g) -> Seq(Frames)]
  BY <1>1, <1>2, <1>3
<1> HIDE DEF h
<1>6. h \in Seq(Seq(Frames)) /\ Len(h) = Len(g)
  BY SMTT(30), ZenonT(60), <1>1, <1>5
<1>7. g # <<>> => Len(g) \in 1 .. Len(g)
  BY <1>1, EmptySeq
<1>8. /\ g # <<>> => h[Len(g)] = Append(g[Len(g)], au)
      /\ \A i \in DOMAIN g : i # Len(g) => h[i] = g[i]
  BY <1>1, <1>4, <1>7
<1> QED
  BY <1>6, <1>8 DEF h

LEMMA SampleTypes ==
    ASSUME Types, NEW au \in Frames
    PROVE  /\ Samples \in Seq(Frames) /\ <<au>> \in Seq(Frames) /\ << <<au>> >> \in Seq(Seq(Frames))
           /\ Append(film.groups, <<au>>) \in Seq(Seq(Frames))
<1>1. Samples \in Seq(Frames)
  BY ConcatItems DEF Types, Muxes, Samples
<1>2. Append(film.groups, <<au>>) \in Seq(Seq(Frames))
  BY AppendItems DEF Types, Films
<1> QED
  BY <1>1, <1>2

LEMMA FinishTypes ==
    ASSUME Types, NEW samples \in Seq(Frames), NEW groups \in Seq(Seq(Frames)),
           FinishFragment(samples, groups)
    PROVE  disk' \in Disks /\ film' \in Films
<1>1. mux.seq \in Nat /\ disk \in Disks /\ film \in Films /\ disk.video \in Seq(Fragments)
  BY DEF Types, Muxes, Disks
<1>2. Fragment(mux.seq, samples) \in Fragments /\ Torn(mux.seq) \in Fragments
  BY <1>1, EmptySeq DEF Fragment, Torn, Fragments
<1>3. ASSUME NEW x \in Fragments
      PROVE  [disk EXCEPT !.video = Append(disk.video, x)] \in Disks
  <2>1. Append(disk.video, x) \in Seq(Fragments)
    BY <1>1, AppendItems
  <2> HIDE DEF Fragments
  <2> QED
    BY <1>1, <2>1 DEF Disks
<1>4. /\ [film EXCEPT !.groups = groups] \in Films
      /\ [film EXCEPT !.groups = groups, !.lost = film.lost \cup {mux.seq}] \in Films
  BY <1>1 DEF Films
<1>5. /\ disk' \in {disk, [disk EXCEPT !.video = Append(disk.video, Fragment(mux.seq, samples))],
                    [disk EXCEPT !.video = Append(disk.video, Torn(mux.seq))]}
      /\ film' \in {[film EXCEPT !.groups = groups],
                    [film EXCEPT !.groups = groups, !.lost = film.lost \cup {mux.seq}]}
  BY <1>1 DEF FinishFragment, Disks, Films
<1> QED
  BY <1>1, <1>2, <1>3, <1>4, <1>5

LEMMA MuxTypes ==
    ASSUME Types, NEW au \in Frames, Handle(au)
    PROVE  mux' \in Muxes /\ film' \in Films /\ disk' \in Disks
<1>1. CASE UNCHANGED <<mux, film, disk>>
  BY <1>1 DEF Types
<1>2. /\ <<au>> \in Seq(Frames) /\ <<>> \in Seq(Frames) /\ Samples \in Seq(Frames)
      /\ << <<au>> >> \in Seq(Seq(Frames)) /\ au.at \in Nat /\ 0 \in Nat
      /\ Append(film.groups, <<au>>) \in Seq(Seq(Frames))
  BY EmptySeq, SampleTypes DEF Frames
<1>3. CASE Opens(au)
  BY <1>2, <1>3 DEF Opens, Types, Muxes, Disks, Films
<1>4. CASE OpensTorn
  <2>1. film' = [film EXCEPT !.lost = film.lost \cup {0}] /\ film.lost \cup {0} \in SUBSET Nat
    BY <1>4 DEF OpensTorn, Types, Films
  <2>2. film' \in Films
    BY <2>1 DEF Types, Films
  <2>3. mux' \in Muxes
    BY <1>4 DEF OpensTorn, Types
  <2>4. disk \in Disks /\ disk' = [disk EXCEPT !.init = "torn"]
    BY <1>4 DEF OpensTorn, Types
  <2>5. disk' \in Disks
    BY ONLY <2>4 DEF Disks
  <2> QED
    BY <2>2, <2>3, <2>5
<1>5. CASE JoinsGroup(au)
  <2>1. film' = [film EXCEPT !.groups = [film.groups EXCEPT ![Len(film.groups)] = Append(@, au)]]
    BY <1>5 DEF JoinsGroup, Types, Films
  <2>2. film' \in Films
    BY <2>1, LastItem DEF Types, Films
  <2> QED
    BY <1>2, <1>5, <2>2 DEF JoinsGroup, Samples, Types, Muxes
<1>6. CASE /\ mux' = [mux EXCEPT !.seq = @ + 1, !.frag = <<>>, !.pending = <<au>>]
           /\ FinishFragment(mux.frag \o mux.pending, Append(film.groups, <<au>>))
  <2>1. disk' \in Disks /\ film' \in Films
    BY <1>2, <1>6, FinishTypes DEF Samples
  <2>2. mux' \in Muxes
    <3>1. mux \in Muxes /\ mux' = [mux EXCEPT !.seq = mux.seq + 1, !.frag = <<>>, !.pending = <<au>>]
      BY <1>6 DEF Types, Muxes
    <3>2. mux.seq + 1 \in Nat
      BY <3>1 DEF Muxes
    <3> QED
      BY ONLY <1>2, <3>1, <3>2 DEF Muxes
  <2> QED
    BY <2>1, <2>2
<1> QED
  BY <1>1, <1>3, <1>4, <1>5, <1>6 DEF Handle, Adds

LEMMA MuxCalls ==
    ASSUME CallsInv, RecorderAssumption, NEW c \in Calls, Mux(c)
    PROVE  CallsInv'
<1> USE DEF Mux, finalize, process
<1>1. Head(channel) \in Frames /\ channel' \in Seq(Frames)
  BY TailItems DEF CallsInv, Types
<1>2. Types'
  BY <1>1, MuxTypes DEF CallsInv, Types
<1>3. c \notin acked /\ handler[c] \in Active
  BY DEF CallsInv, CallSteps, Active
<1> QED
  BY <1>2, <1>3, HandlerCalls

LEMMA MuxFinishesCalls ==
    ASSUME CallsInv, RecorderAssumption, NEW c \in Calls, MuxFinishes(c)
    PROVE  CallsInv'
<1> USE DEF MuxFinishes, finalize, process
<1>1. Types'
  <2>1. Samples \in Seq(Frames) /\ film.groups \in Seq(Seq(Frames))
    BY ConcatItems DEF CallsInv, Types, Muxes, Films, Samples
  <2>2. disk' \in Disks /\ film' \in Films
    BY <2>1, FinishTypes DEF CallsInv, Types, Samples
  <2> QED
    BY <2>2 DEF CallsInv, Types
<1>2. c \notin acked /\ handler[c] \in Active
  BY DEF CallsInv, CallSteps, Active
<1>3. \A b \in Calls : b # c => handler'[b] = handler[b]
  BY DEF CallsInv, Types
<1> QED
  BY <1>1, <1>2, <1>3, HandlerCalls

LEMMA SessionCloseCalls ==
    ASSUME CallsInv, RecorderAssumption, NEW c \in Calls, SessionClose(c)
    PROVE  CallsInv'
<1> USE DEF SessionClose, finalize, process
<1>1. Types'
  <2>1. [of |-> c, at |-> mux.first] \in [of : Nat, at : Nat] /\ NoMeta \in [of : Nat, at : Nat]
    BY DEF CallsInv, Types, Muxes, RecorderAssumption, NoMeta
  <2>2. disk' \in Disks
    BY ZenonT(60), <2>1 DEF CallsInv, Types, Disks
  <2> QED
    BY <2>2 DEF CallsInv, Types
<1>2. c \notin acked /\ handler[c] \in Active /\ handler'[c] = "closed"
  BY DEF CallsInv, CallSteps, Active, Types
<1>3. \A b \in Calls : b # c => handler'[b] = handler[b]
  BY DEF CallsInv, Types
<1>4. /\ acked \subseteq acked' /\ acked' \subseteq acked \cup {c}
      /\ c \in acked' => link[c] = "up"
      /\ UNCHANGED <<client, link, job>>
  BY <1>2
<1>5. handler'[c] \notin Active
  BY <1>2 DEF Active
<1> HIDE DEF SessionClose
<1> QED
  BY <1>1, <1>2, <1>3, <1>4, <1>5, HandlerCalls

LEMMA CombineLooksCalls ==
    ASSUME CallsInv, NEW c \in Calls, CombineLooks(c)
    PROVE  CallsInv'
<1> USE DEF CombineLooks, recorder, session, process
<1>1. Types'
  BY DEF CallsInv, Types
<1>2. \A b \in Calls : b # c => job'[b] = job[b]
  BY DEF CallsInv, Types
<1>3. OneAtATime' /\ CallSteps'
  BY <1>2 DEF CallsInv, OneAtATime, CallSteps
<1> QED
  BY <1>1, <1>3 DEF CallsInv

LEMMA CombineRunsCalls ==
    ASSUME CallsInv, NEW c \in Calls, CombineRuns(c)
    PROVE  CallsInv'
<1> USE DEF CombineRuns, recorder, session, process
<1>1. DOMAIN movie' = Calls
  BY DEF CallsInv, Types, Makes
<1>2. Types'
  BY <1>1 DEF CallsInv, Types
<1>3. \A b \in Calls : b # c => job'[b] = job[b]
  BY DEF CallsInv, Types
<1>4. OneAtATime' /\ CallSteps'
  BY <1>3 DEF CallsInv, OneAtATime, CallSteps
<1> QED
  BY <1>2, <1>4 DEF CallsInv

LEMMA CrashCalls ==
    ASSUME CallsInv, Crash
    PROVE  CallsInv'
<1> USE DEF Crash
<1>1. Types'
  BY EmptySeq DEF CallsInv, Types, Muxes, NoMux
<1>2. \A c \in Calls : /\ handler'[c] = IF handler[c] \in Active THEN "gone" ELSE handler[c]
                       /\ link'[c] = IF link[c] = "up" /\ c \notin acked THEN "broken" ELSE link[c]
                       /\ job'[c] # "none" => job[c] # "none"
                       /\ job[c] = "none" => job'[c] = "none"
  BY DEF Active
<1>3. OneAtATime'
  BY <1>2 DEF CallsInv, OneAtATime, Active
<1>4. CallSteps'
  BY <1>2 DEF CallsInv, CallSteps, Active
<1> QED
  BY <1>1, <1>3, <1>4 DEF CallsInv

LEMMA InitCalls ==
    ASSUME Init
    PROVE  CallsInv
<1> USE DEF Init
<1>1. Types
  <2>1. /\ <<>> \in Seq(Frames) /\ <<>> \in Seq(SoundUnits) /\ <<>> \in Seq(Seq(Frames))
        /\ <<>> \in Seq(Fragments)
    BY EmptySeq
  <2> QED
    BY <2>1 DEF Types, Clients, Muxes, NoMux, Disks, Films, NoMeta
<1>2. OneAtATime /\ CallSteps
  BY DEF OneAtATime, CallSteps
<1> QED
  BY <1>1, <1>2 DEF CallsInv

LEMMA NextCalls ==
    ASSUME CallsInv, RecorderAssumption, [Next]_vars
    PROVE  CallsInv'
<1>1. CASE UNCHANGED vars
  <2>1. /\ UNCHANGED <<client, link, handler, written, channel, mux, film>>
        /\ UNCHANGED <<disk, acked, job, movie>>
    BY <1>1 DEF vars
  <2>2. Types'
    BY <2>1 DEF CallsInv, Types
  <2>3. OneAtATime'
    BY <2>1 DEF CallsInv, OneAtATime
  <2>4. CallSteps'
    BY <2>1 DEF CallsInv, CallSteps
  <2> QED
    BY <2>2, <2>3, <2>4 DEF CallsInv
<1>2. CASE Crash
  BY <1>2, CrashCalls
<1>3. CASE Restart
  <2>1. UNCHANGED <<client, link, recorder, finalize>>
    BY <1>3 DEF Restart
  <2>2. Types'
    BY <2>1 DEF CallsInv, Types, recorder, session, finalize
  <2>3. OneAtATime'
    BY <2>1 DEF CallsInv, OneAtATime, recorder
  <2>4. CallSteps'
    BY <2>1 DEF CallsInv, CallSteps, recorder, finalize
  <2> QED
    BY <2>2, <2>3, <2>4 DEF CallsInv
<1>4. ASSUME NEW c \in Calls, Gateway(c) PROVE CallsInv'
  BY <1>4, StartCalls, SendCalls, DrainCalls, ClosingCalls, FinalizeCalls DEF Gateway
<1>5. ASSUME NEW c \in Calls, Stream(c) PROVE CallsInv'
  BY <1>5, NewSessionCalls, NewSessionFailsCalls, RecvCalls, StreamEndsCalls,
     EmptyStreamCalls, SessionCloseCalls
     DEF Stream
<1>6. ASSUME NEW c \in Calls, Breaks(c) \/ Muxer(c) \/ Combine(c) PROVE CallsInv'
  BY <1>6, BreaksCalls, MuxCalls, MuxFinishesCalls, CombineLooksCalls, CombineRunsCalls
     DEF Muxer, Combine
<1> QED
  BY <1>1, <1>2, <1>3, <1>4, <1>5, <1>6 DEF Next

----------------------------------------------------------------------------
(* The files of sound.                                                      *)

LEMMA FileTypes ==
    ASSUME Types, NEW k \in Audio
    PROVE  disk[k] \in Seq(SoundUnits) /\ written[k] \in Nat
BY DEF Types, Disks, Audio

LEMMA UnitTypes ==
    ASSUME NEW file \in Seq(SoundUnits), NEW i \in DOMAIN file
    PROVE  /\ file[i] \in SoundUnits /\ file[i].at \in Nat /\ file[i].part \in Nat
           /\ i \in Nat \ {0} /\ Len(file) \in Nat /\ i <= Len(file)
<1>1. Len(file) \in Nat /\ i \in 1 .. Len(file)
  OBVIOUS
<1>2. file[i] \in SoundUnits
  BY <1>1, ElementOfSeq
<1> QED
  BY <1>1, <1>2 DEF SoundUnits

LEMMA EndsBeforeLater ==
    ASSUME NEW file \in Seq(SoundUnits), NEW t \in Nat, NEW u \in Nat, t <= u, EndsBefore(file, t)
    PROVE  EndsBefore(file, u)
<1>1. SoundBefore(file, u)
  <2>1. SUFFICES ASSUME NEW i \in DOMAIN file, file[i].part > 0 PROVE file[i].at <= u
    BY DEF SoundBefore
  <2>2. file[i].at \in Nat /\ file[i].at <= t
    BY <2>1, UnitTypes DEF SoundBefore, EndsBefore
  <2> QED
    BY <2>2
<1>2. Len(file) \in Nat
  OBVIOUS
<1> QED
  BY <1>1, <1>2 DEF EndsBefore

LEMMA EmptyFile ==
    /\ Aligned(<<>>) /\ Len(<<>>) = 0 /\ <<>> \in Seq(SoundUnits)
    /\ \A t : EndsBefore(<<>>, t)
<1>1. DOMAIN <<>> = {} /\ Len(<<>>) = 0 /\ <<>> \in Seq(SoundUnits)
  BY EmptySeq
<1> QED
  BY <1>1 DEF Aligned, SoundBefore, EndsBefore

(* Silence and a frame behind a file: what appendPCM writes.                *)
IsSilence(s, n) == s \in Seq(SoundUnits) /\ Len(s) = n /\ \A i \in 1 .. n : s[i].part = 0
IsSound(s, t, n) ==
  s \in Seq(SoundUnits) /\ Len(s) = n /\ \A i \in 1 .. n : s[i] = [at |-> t, part |-> i]

(* The file g is the file s, m units of silence and l of the sound of t.    *)
Extends(g, s, m, t, l) ==
  /\ g \in Seq(SoundUnits) /\ Len(g) = Len(s) + m + l
  /\ \A i \in 1 .. Len(s) : g[i] = s[i]
  /\ \A i \in 1 .. m : g[Len(s) + i].part = 0
  /\ \A i \in 1 .. l : g[Len(s) + m + i].at = t /\ g[Len(s) + m + i].part = i
                       /\ g[Len(s) + m + i] = [at |-> t, part |-> i]

LEMMA SilenceAndSound ==
    ASSUME NEW f \in Frames, NEW m \in Nat, NEW l \in Nat
    PROVE  /\ f.at \in Nat
           /\ IsSilence([i \in 1 .. m |-> Silence], m)
           /\ IsSound(Units(f, l), f.at, l)
<1>1. f.at \in Nat
  BY DEF Frames
<1>2. IsSilence([i \in 1 .. m |-> Silence], m)
  BY DEF IsSilence, Silence, SoundUnits
<1>3. IsSound(Units(f, l), f.at, l)
  <2> DEFINE u == [i \in 1 .. l |-> [at |-> f.at, part |-> i]]
  <2>1. \A i \in 1 .. l : [at |-> f.at, part |-> i] \in SoundUnits
    BY <1>1 DEF SoundUnits
  <2>2. u \in Seq(SoundUnits) /\ Len(u) = l
    BY <2>1
  <2> QED
    BY <2>2 DEF IsSound, Units
<1> QED
  BY <1>1, <1>2, <1>3

LEMMA AppendedItems ==
    ASSUME NEW s \in Seq(SoundUnits), NEW m \in Nat, NEW t \in Nat, NEW l \in Nat,
           NEW p, IsSilence(p, m), NEW u, IsSound(u, t, l)
    PROVE  Extends((s \o p) \o u, s, m, t, l)
<1> DEFINE n == Len(s)
           a == s \o p
           g == a \o u
<1>1. p \in Seq(SoundUnits) /\ Len(p) = m /\ u \in Seq(SoundUnits) /\ Len(u) = l
  BY DEF IsSilence, IsSound
<1>2. /\ n \in Nat /\ a \in Seq(SoundUnits) /\ Len(a) = n + m
      /\ \A i \in 1 .. n : a[i] = s[i]
      /\ \A i \in 1 .. m : a[n + i] = p[i]
  BY <1>1, ConcatItems
<1> HIDE DEF a
<1>3. /\ g \in Seq(SoundUnits) /\ Len(g) = Len(a) + l
      /\ \A i \in 1 .. Len(a) : g[i] = a[i]
      /\ \A i \in 1 .. l : g[Len(a) + i] = u[i]
  <2>1. ASSUME NEW v \in Seq(SoundUnits), NEW w \in Seq(SoundUnits)
        PROVE  /\ v \o w \in Seq(SoundUnits) /\ Len(v \o w) = Len(v) + Len(w)
               /\ \A i \in 1 .. Len(v) : (v \o w)[i] = v[i]
               /\ \A i \in 1 .. Len(w) : (v \o w)[Len(v) + i] = w[i]
    BY ConcatItems
  <2>2. a \in Seq(SoundUnits)
    BY <1>2
  <2>3. u \in Seq(SoundUnits)
    BY <1>1
  <2>4. /\ a \o u \in Seq(SoundUnits) /\ Len(a \o u) = Len(a) + Len(u)
        /\ \A i \in 1 .. Len(a) : (a \o u)[i] = a[i]
        /\ \A i \in 1 .. Len(u) : (a \o u)[Len(a) + i] = u[i]
    BY ONLY <2>1, <2>2, <2>3, Zenon
  <2> QED
    BY <1>1, <2>4
<1> HIDE DEF g
<1>4. \A i \in 1 .. n : g[i] = s[i]
  <2>1. \A i \in 1 .. n : i \in 1 .. Len(a)
    BY <1>2
  <2> QED
    BY <1>2, <1>3, <2>1
<1>5. \A i \in 1 .. m : g[n + i].part = 0
  <2>1. \A i \in 1 .. m : n + i \in 1 .. Len(a)
    BY <1>2
  <2> QED
    BY ZenonT(60), <1>2, <1>3, <2>1 DEF IsSilence
<1>6. ASSUME NEW i \in 1 .. l PROVE g[n + m + i] = [at |-> t, part |-> i]
  <2>1. g[n + m + i] = u[i]
    BY <1>2, <1>3
  <2> QED
    BY <2>1 DEF IsSound
<1>7. ASSUME NEW i \in 1 .. l PROVE g[n + m + i].at = t /\ g[n + m + i].part = i
  <2>1. g[n + m + i] = [at |-> t, part |-> i]
    BY <1>6
  <2> QED
    BY ONLY <2>1
<1> QED
  BY <1>2, <1>3, <1>4, <1>5, <1>6, <1>7 DEF Extends, g, a

(* A frame that comes after all that is in the file, or a part of it, writ- *)
(* ten with the silence that is missing up to its call time, leaves the     *)
(* file in call time.                                                       *)
LEMMA AppendAligned ==
    ASSUME NEW s \in Seq(SoundUnits), NEW n, n = Len(s), NEW t \in Nat, NEW m \in Nat,
           t > n => m = t - n, ~(t > n) => m = 0,
           NEW l \in Nat, NEW g, Extends(g, s, m, t, l), Aligned(s), EndsBefore(s, t)
    PROVE  Aligned(g) /\ EndsBefore(g, t)
<1>1. n \in Nat /\ DOMAIN s = 1 .. n
  BY LenProperties
<1>2. /\ g \in Seq(SoundUnits) /\ Len(g) = n + m + l
      /\ \A i \in 1 .. n : g[i] = s[i]
      /\ \A i \in 1 .. m : g[n + i].part = 0
      /\ \A i \in 1 .. l : g[n + m + i].at = t /\ g[n + m + i].part = i
                           /\ g[n + m + i] = [at |-> t, part |-> i]
  BY DEF Extends
<1>3. DOMAIN g = 1 .. (n + m + l)
  BY <1>2
<1>4. ASSUME NEW i \in DOMAIN g, g[i].part > 0
      PROVE  \/ i \in 1 .. n /\ g[i] = s[i]
             \/ \E p \in 1 .. l : i = n + m + p
  <2>1. i \in Nat \ {0} /\ i <= n + m + l
    BY <1>1, <1>3
  <2>2. CASE i <= n
    BY <1>1, <1>2, <2>1, <2>2
  <2>3. CASE i > n /\ i <= n + m
    <3>1. PICK k \in 1 .. m : i = n + k
      <4>1. i - n \in 1 .. m /\ i = n + (i - n)
        BY <1>1, <2>1, <2>3
      <4> QED
        BY <4>1
    <3>2. g[i].part = 0
      BY <1>2, <3>1
    <3> QED
      BY <1>4, <3>2
  <2>4. CASE i > n + m
    <3>1. n + m \in Nat
      BY <1>1
    <3> DEFINE d == i - (n + m)
    <3>2. d \in 1 .. l /\ i = n + m + d
      BY SMTT(30), ZenonT(60), <2>1, <2>4, <3>1
    <3> QED
      BY <3>2
  <2> QED
    BY <1>1, <2>1, <2>2, <2>3, <2>4
<1>5. SoundBefore(g, t)
  <2>1. SUFFICES ASSUME NEW i \in DOMAIN g, g[i].part > 0 PROVE g[i].at <= t
    BY DEF SoundBefore
  <2>2. CASE i \in 1 .. n /\ g[i] = s[i]
    BY <1>1, <2>1, <2>2 DEF SoundBefore, EndsBefore
  <2>3. ASSUME NEW p \in 1 .. l, i = n + m + p PROVE g[i].at <= t
    <3>1. g[i].at = t
      BY <1>2, <2>3
    <3> QED
      BY <3>1
  <2> QED
    BY <1>4, <2>1, <2>2, <2>3
<1>6. EndsBefore(g, t)
  <2>1. CASE l > 0
    <3>1. l \in 1 .. l
      BY <2>1
    <3>2. g[n + m + l].part = l
      BY <1>2, <3>1
    <3>3. g[Len(g)].part = l
      BY <1>2, <3>2
    <3> QED
      BY <1>5, <2>1, <3>3 DEF EndsBefore
  <2>2. CASE l = 0 /\ m > 0
    <3>1. m = t - n /\ Len(g) = n + m
      BY <1>1, <1>2, <2>2
    <3>2. Len(g) = t
      BY <1>1, <3>1
    <3> QED
      BY <1>5, <3>2 DEF EndsBefore
  <2>3. CASE l = 0 /\ m = 0
    <3>1. Len(g) = n
      BY <1>1, <1>2, <2>3
    <3>2. CASE n = 0
      <4>1. Len(g) <= t
        BY <3>1, <3>2
      <4> QED
        BY <1>5, <4>1 DEF EndsBefore
    <3>3. CASE n # 0
      <4>1. n \in 1 .. n /\ s # <<>>
        BY <1>1, <3>3, EmptySeq
      <4>2. g[n] = s[n] /\ (s[n].part > 0 \/ n <= t)
        BY <1>2, <4>1 DEF EndsBefore
      <4> QED
        BY <1>5, <3>1, <4>2 DEF EndsBefore
    <3> QED
      BY <3>2, <3>3
  <2> QED
    BY <2>1, <2>2, <2>3
<1>7. Aligned(g)
  <2>1. SUFFICES ASSUME NEW i \in DOMAIN g, g[i].part > 0
        PROVE  /\ g[i].part = 1 /\ i - 1 # g[i].at =>
                    i - 1 > g[i].at /\ i - 1 \in DOMAIN g /\ g[i - 1].part > 0
               /\ g[i].part > 1 =>
                    /\ i - 1 \in DOMAIN g /\ g[i - 1].part > 0
                    /\ g[i - 1] = [g[i] EXCEPT !.part = @ - 1]
               /\ \A j \in DOMAIN g : g[j].part > 0 /\ j < i => g[j].at <= g[i].at
    BY DEF Aligned
  <2>2. CASE i \in 1 .. n /\ g[i] = s[i]
    <3>1. \A j \in DOMAIN g : j < i => j \in DOMAIN s /\ g[j] = s[j]
      BY <1>1, <1>2, <1>3, <2>2
    <3>2. i - 1 \in DOMAIN s => i - 1 \in DOMAIN g /\ g[i - 1] = s[i - 1]
      BY <1>1, <1>2, <1>3, <2>2
    <3>3. s[i].part > 0 /\ i \in DOMAIN s
      BY <1>1, <2>1, <2>2
    <3>4. /\ s[i].part = 1 /\ i - 1 # s[i].at =>
               i - 1 > s[i].at /\ i - 1 \in DOMAIN s /\ s[i - 1].part > 0
          /\ s[i].part > 1 =>
               /\ i - 1 \in DOMAIN s /\ s[i - 1].part > 0
               /\ s[i - 1] = [s[i] EXCEPT !.part = @ - 1]
          /\ \A j \in DOMAIN s : s[j].part > 0 /\ j < i => s[j].at <= s[i].at
      BY <3>3 DEF Aligned
    <3> QED
      BY <2>2, <3>1, <3>2, <3>4
  <2>3. ASSUME NEW p \in 1 .. l, i = n + m + p
        PROVE  /\ g[i].part = 1 /\ i - 1 # g[i].at =>
                    i - 1 > g[i].at /\ i - 1 \in DOMAIN g /\ g[i - 1].part > 0
               /\ g[i].part > 1 =>
                    /\ i - 1 \in DOMAIN g /\ g[i - 1].part > 0
                    /\ g[i - 1] = [g[i] EXCEPT !.part = @ - 1]
               /\ \A j \in DOMAIN g : g[j].part > 0 /\ j < i => g[j].at <= g[i].at
    <3>1. g[i].part = p /\ g[i].at = t /\ g[i] = [at |-> t, part |-> p]
      BY <1>2, <2>3
    <3>2. ASSUME p = 1, i - 1 # t
          PROVE  i - 1 > t /\ i - 1 \in DOMAIN g /\ g[i - 1].part > 0
      <4>1. i - 1 = n + m
        BY <1>1, <2>3, <3>2
      <4>2. m = 0 /\ n > t
        BY <1>1, <3>2, <4>1
      <4>3. i - 1 = n /\ n \in 1 .. n /\ n \in DOMAIN g
        BY <1>1, <1>3, <4>1, <4>2
      <4>4. s # <<>>
        BY <1>1, <4>3, EmptySeq
      <4>5. s[n].part > 0 /\ g[n] = s[n]
        <5>1. g[n] = s[n] /\ (s[n].part > 0 \/ n <= t)
          BY <1>2, <4>3, <4>4 DEF EndsBefore
        <5> QED
          BY <1>1, <4>2, <5>1
      <4> QED
        BY <4>2, <4>3, <4>5
    <3>3. ASSUME p > 1
          PROVE  /\ i - 1 \in DOMAIN g /\ g[i - 1].part > 0
                 /\ g[i - 1] = [g[i] EXCEPT !.part = @ - 1]
      <4>1. p - 1 \in 1 .. l /\ i - 1 = n + m + (p - 1) /\ i - 1 \in DOMAIN g
        BY <1>1, <1>3, <2>3, <3>3
      <4>2. g[i - 1] = [at |-> t, part |-> p - 1] /\ g[i - 1].part = p - 1
        BY <1>2, <4>1
      <4>3. p - 1 > 0
        BY <3>3
      <4> QED
        BY <3>1, <4>1, <4>2, <4>3
    <3>4. \A j \in DOMAIN g : g[j].part > 0 /\ j < i => g[j].at <= g[i].at
      BY <1>5, <3>1 DEF SoundBefore
    <3> QED
      BY <3>1, <3>2, <3>3, <3>4
  <2> QED
    BY <1>4, <2>1, <2>2, <2>3
<1> QED
  BY <1>6, <1>7

(* A step that leaves the sound, the cursors and the queues as they are.    *)
LEMMA SoundUnchanged ==
    ASSUME SoundInv, UNCHANGED written, disk'.user = disk.user, disk'.agent = disk.agent,
           \A c \in Calls : /\ client'[c].queue = client[c].queue /\ client'[c].now = client[c].now
                            /\ handler'[c] = "recv" => handler[c] = "recv"
    PROVE  SoundInv'
<1>1. \A k \in Audio : disk'[k] = disk[k]
  BY DEF Audio
<1>2. \A k \in Audio : Aligned(disk'[k])
  BY <1>1 DEF SoundInv
<1>3. \A c \in Calls : QueueInOrder(c)'
  BY DEF SoundInv, QueueInOrder
<1>4. \A c \in Calls : CursorAtEnd(c)'
  BY <1>1 DEF SoundInv, CursorAtEnd
<1> QED
  BY <1>2, <1>3, <1>4 DEF SoundInv

LEMMA QueueTypes ==
    ASSUME Types, NEW c \in Calls, NEW i \in 1 .. Len(client[c].queue)
    PROVE  client[c].queue[i] \in Frames /\ client[c].queue[i].at \in Nat
<1>1. client[c].queue[i] \in Frames
  BY CallTypes, ElementOfSeq
<1> QED
  BY <1>1 DEF Frames

LEMMA SendSound ==
    ASSUME Types, RecorderAssumption, SoundInv, NEW c \in Calls, Send(c)
    PROVE  SoundInv'
<1>1. PICK kind \in Kinds, gap \in 0 .. MaxGap :
        LET at == client[c].now + gap
        IN  client' = [client EXCEPT ![c].now = at, ![c].sent = @ + 1,
                         ![c].queue = IF Len(@) < SendBuffer
                                      THEN Append(@, [kind |-> kind, at |-> at]) ELSE @]
  BY DEF Send
<1> DEFINE old == client[c].queue
           at == client[c].now + gap
           f == [kind |-> kind, at |-> at]
<1>2. at \in Nat /\ client[c].now \in Nat /\ client[c].now <= at /\ old \in Seq(Frames)
  <2>1. client[c].now \in Nat /\ old \in Seq(Frames)
    BY CallTypes
  <2>2. gap \in Nat
    BY DEF RecorderAssumption
  <2> QED
    BY <2>1, <2>2
<1>3. client'[c].now = at /\ client'[c].queue = IF Len(old) < SendBuffer THEN Append(old, f) ELSE old
  BY <1>1 DEF Types, Clients
<1>4. \A b \in Calls : b # c => client'[b] = client[b]
  BY <1>1 DEF Types
<1>5. UNCHANGED <<handler, written, disk>>
  BY DEF Send, recorder, session
<1>6. f \in Frames /\ f.at = at
  BY <1>2 DEF Frames
<1> HIDE DEF at, f
<1>7. /\ Len(old) \in Nat /\ Len(client'[c].queue) \in Nat
      /\ \A i \in 1 .. Len(client'[c].queue) :
           client'[c].queue[i].at = at \/ (i \in 1 .. Len(old) /\ client'[c].queue[i] = old[i])
      /\ \A i \in 1 .. Len(client'[c].queue) :
           i \in 1 .. Len(old) => client'[c].queue[i] = old[i]
  <2>1. CASE client'[c].queue = old
    BY <1>2, <2>1, LenProperties
  <2>2. CASE client'[c].queue = Append(old, f)
    <3>1. /\ Len(old) \in Nat /\ Len(client'[c].queue) = Len(old) + 1
          /\ client'[c].queue[Len(old) + 1] = f
          /\ \A i \in 1 .. Len(old) : client'[c].queue[i] = old[i]
      BY <1>2, <1>6, <2>2, AppendItems
    <3>2. \A i \in 1 .. Len(client'[c].queue) : i = Len(old) + 1 \/ i \in 1 .. Len(old)
      BY <3>1
    <3>3. client'[c].queue[Len(old) + 1].at = at
      BY <1>6, <3>1
    <3>4. Len(old) \in Nat /\ Len(client'[c].queue) \in Nat
      BY <3>1
    <3> HIDE DEF old
    <3>5. ASSUME NEW i \in 1 .. Len(client'[c].queue)
          PROVE  /\ client'[c].queue[i].at = at \/ (i \in 1 .. Len(old) /\ client'[c].queue[i] = old[i])
                 /\ i \in 1 .. Len(old) => client'[c].queue[i] = old[i]
      <4>1. CASE i = Len(old) + 1
        BY <3>3, <3>4, <4>1
      <4>2. CASE i \in 1 .. Len(old)
        BY <3>1, <4>2
      <4> QED
        BY <3>2, <4>1, <4>2
    <3> QED
      BY <3>4, <3>5
  <2> QED
    BY <1>3, <2>1, <2>2
<1>8. \A i \in 1 .. Len(old) : old[i].at \in Nat /\ old[i].at <= client[c].now /\ old[i].at <= at
  <2>1. \A i \in 1 .. Len(old) : old[i].at \in Nat
    BY QueueTypes
  <2>2. \A i \in 1 .. Len(old) : old[i].at <= client[c].now
    BY DEF SoundInv, QueueInOrder
  <2> QED
    BY <1>2, <2>1, <2>2
<1>9. QueueInOrder(c)'
  <2>1. SUFFICES ASSUME NEW i \in 1 .. Len(client'[c].queue)
                 PROVE  /\ client'[c].queue[i].at <= at
                        /\ \A j \in 1 .. i : client'[c].queue[j].at <= client'[c].queue[i].at
    BY <1>3 DEF QueueInOrder
  <2>2. ASSUME NEW j \in 1 .. Len(client'[c].queue) PROVE client'[c].queue[j].at <= at
    <3>1. CASE client'[c].queue[j].at = at
      BY <1>2, <3>1
    <3>2. CASE j \in 1 .. Len(old) /\ client'[c].queue[j] = old[j]
      BY <1>8, <3>2
    <3> QED
      BY <1>7, <3>1, <3>2
  <2>3. \A j \in 1 .. i : j \in 1 .. Len(client'[c].queue)
    BY <1>7
  <2>4. CASE client'[c].queue[i].at = at
    BY <2>2, <2>3, <2>4
  <2>5. CASE i \in 1 .. Len(old)
    <3>1. \A j \in 1 .. i : old[j].at <= old[i].at
      BY <2>5 DEF SoundInv, QueueInOrder
    <3>2. \A j \in 1 .. i : j \in 1 .. Len(old)
      BY <1>7, <2>5
    <3> QED
      BY <1>7, <2>2, <2>3, <2>5, <3>1, <3>2
  <2> QED
    BY <1>7, <2>4, <2>5
<1>10. CursorAtEnd(c)'
  <2>1. SUFFICES ASSUME handler[c] = "recv", NEW k \in Audio
                 PROVE  /\ written[k] = Len(disk[k])
                        /\ EndsBefore(disk[k], at)
                        /\ \A i \in 1 .. Len(client'[c].queue) :
                             EndsBefore(disk[k], client'[c].queue[i].at)
    BY <1>3, <1>5 DEF CursorAtEnd
  <2>2. /\ written[k] = Len(disk[k])
        /\ EndsBefore(disk[k], client[c].now)
        /\ \A i \in 1 .. Len(old) : EndsBefore(disk[k], old[i].at)
    BY <2>1 DEF SoundInv, CursorAtEnd
  <2>3. EndsBefore(disk[k], at)
    BY <1>2, <2>2, FileTypes, EndsBeforeLater
  <2> QED
    BY <1>7, <2>2, <2>3
<1>11. \A b \in Calls : QueueInOrder(b)' /\ CursorAtEnd(b)'
  <2>1. ASSUME NEW b \in Calls, b # c PROVE QueueInOrder(b)' /\ CursorAtEnd(b)'
    BY <1>4, <1>5, <2>1 DEF SoundInv, QueueInOrder, CursorAtEnd
  <2> QED
    BY <1>9, <1>10, <2>1
<1> QED
  BY <1>5, <1>11 DEF SoundInv

(* What taking the first frame off a queue leaves of it.                    *)
LEMMA QueueTail ==
    ASSUME Types, NEW c \in Calls, QueueInOrder(c), client[c].queue # <<>>,
           client'[c].queue = Tail(client[c].queue), client'[c].now = client[c].now
    PROVE  /\ QueueInOrder(c)'
           /\ \A i \in 1 .. Len(client'[c].queue) :
                /\ \E j \in 1 .. Len(client[c].queue) : client'[c].queue[i] = client[c].queue[j]
                /\ client'[c].queue[i].at \in Nat
                /\ Head(client[c].queue).at <= client'[c].queue[i].at
           /\ Head(client[c].queue) \in Frames /\ Head(client[c].queue).at \in Nat
           /\ \E j \in 1 .. Len(client[c].queue) : Head(client[c].queue) = client[c].queue[j]
           /\ Head(client[c].queue).at <= client[c].now
<1> DEFINE q == client[c].queue
           t == client'[c].queue
<1>1. /\ q \in Seq(Frames) /\ Head(q) = q[1] /\ Len(q) \in Nat \ {0} /\ Len(t) = Len(q) - 1
      /\ \A i \in 1 .. Len(t) : t[i] = q[i + 1] /\ i + 1 \in 1 .. Len(q)
  BY CallTypes, TailItems
<1>2. /\ \A i \in 1 .. Len(q) : q[i].at \in Nat /\ q[i] \in Frames /\ q[i].at <= client[c].now
      /\ \A i \in 1 .. Len(q) : \A j \in 1 .. i : q[j].at <= q[i].at
  BY QueueTypes DEF QueueInOrder
<1>3. 1 \in 1 .. Len(q)
  BY <1>1
<1> HIDE DEF q, t
<1>4. ASSUME NEW i \in 1 .. Len(t)
      PROVE  /\ t[i].at <= client[c].now /\ t[i].at \in Nat /\ q[1].at <= t[i].at
             /\ \A j \in 1 .. i : t[j].at <= t[i].at
  <2>1. t[i] = q[i + 1] /\ i + 1 \in 1 .. Len(q) /\ 1 \in 1 .. (i + 1)
    BY <1>1
  <2>2. \A j \in 1 .. i : j \in 1 .. Len(t) /\ j + 1 \in 1 .. (i + 1)
    BY <1>1
  <2>3. \A j \in 1 .. i : t[j] = q[j + 1]
    BY <1>1, <2>2
  <2> QED
    BY <1>2, <2>1, <2>2, <2>3
<1>5. QueueInOrder(c)'
  BY <1>4 DEF QueueInOrder, t
<1>6. \A i \in 1 .. Len(t) : \E j \in 1 .. Len(q) : t[i] = q[j]
  BY <1>1
<1> QED
  BY <1>1, <1>2, <1>3, <1>4, <1>5, <1>6 DEF q, t

LEMMA DrainSound ==
    ASSUME Types, SoundInv, NEW c \in Calls, Drain(c)
    PROVE  SoundInv'
<1>1. /\ client[c].queue # <<>> /\ client' = [client EXCEPT ![c].queue = Tail(@)]
      /\ UNCHANGED <<handler, written, disk>>
  BY DEF Drain, recorder, session
<1>2. /\ client'[c].queue = Tail(client[c].queue) /\ client'[c].now = client[c].now
      /\ \A b \in Calls : b # c => client'[b] = client[b]
  BY <1>1 DEF Types, Clients
<1>3. /\ QueueInOrder(c)'
      /\ \A i \in 1 .. Len(client'[c].queue) :
           \E j \in 1 .. Len(client[c].queue) : client'[c].queue[i] = client[c].queue[j]
  BY <1>1, <1>2, QueueTail DEF SoundInv
<1>4. CursorAtEnd(c)'
  BY <1>1, <1>2, <1>3 DEF SoundInv, CursorAtEnd
<1>5. ASSUME NEW b \in Calls, b # c PROVE QueueInOrder(b)' /\ CursorAtEnd(b)'
  BY <1>1, <1>2, <1>5 DEF SoundInv, QueueInOrder, CursorAtEnd
<1> QED
  BY <1>1, <1>3, <1>4, <1>5 DEF SoundInv

LEMMA NewSessionSound ==
    ASSUME CallsInv, RecorderAssumption, SoundInv, NEW c \in Calls,
           NewSession(c) \/ NewSessionFails(c)
    PROVE  SoundInv'
<1>1. client[c].state \in {"open", "closing"} /\ handler[c] = "none"
  BY CallTypes DEF CallsInv, CallSteps, Types, Clients, NewSession, NewSessionFails
<1>2. \A b \in Calls : b # c => handler[b] # "recv" /\ handler'[b] = handler[b]
  BY <1>1, Alone DEF Active, NewSession, NewSessionFails, CallsInv, Types
<1>3. \A b \in Calls : QueueInOrder(b)'
  BY DEF SoundInv, QueueInOrder, NewSession, NewSessionFails
<1>4. CASE NewSession(c)
  <2>1. \A k \in Audio : disk'[k] = <<>> /\ written'[k] = 0
    <3>1. disk \in Disks /\ written' = [user |-> 0, agent |-> 0]
      BY <1>4 DEF NewSession, CallsInv, Types
    <3>2. \/ disk' = [disk EXCEPT !.user = <<>>, !.agent = <<>>, !.init = "none", !.video = <<>>]
          \/ disk' = [disk EXCEPT !.user = <<>>, !.agent = <<>>]
      BY <1>4 DEF NewSession
    <3>3. \A k \in Audio : disk'[k] = <<>>
      BY <3>1, <3>2 DEF Disks, Audio
    <3> QED
      BY <3>1, <3>3 DEF Audio
  <2>2. \A b \in Calls : CursorAtEnd(b)'
    BY <1>2, <2>1, EmptyFile DEF CursorAtEnd
  <2> QED
    BY <1>3, <2>1, <2>2, EmptyFile DEF SoundInv
<1>5. CASE NewSessionFails(c)
  <2>1. \A k \in Audio : disk'[k] = <<>> \/ disk'[k] = disk[k]
    BY <1>5 DEF NewSessionFails, Audio, CallsInv, Types, Disks
  <2>2. handler'[c] = "gone"
    BY <1>5 DEF NewSessionFails, CallsInv, Types
  <2>3. \A b \in Calls : CursorAtEnd(b)'
    BY <1>2, <2>2 DEF CursorAtEnd
  <2>4. \A k \in Audio : Aligned(disk'[k])
    BY <2>1, EmptyFile DEF SoundInv
  <2> QED
    BY <1>3, <2>3, <2>4 DEF SoundInv
<1> QED
  BY <1>4, <1>5

(* A frame of sound that is received, or a part of it that is written.      *)
LEMMA WriteSound ==
    ASSUME Types, NEW f \in Frames, f.kind \in Audio, NEW l \in Nat,
           Writes(f, Pad(f), l, Pad(f) + l),
           \A k \in Audio : /\ written[k] = Len(disk[k]) /\ EndsBefore(disk[k], f.at)
                            /\ Aligned(disk[k])
    PROVE  \A k \in Audio : /\ written'[k] = Len(disk'[k]) /\ EndsBefore(disk'[k], f.at)
                            /\ Aligned(disk'[k]) /\ disk'[k] \in Seq(SoundUnits)
<1> DEFINE k == f.kind
           pad == Pad(f)
           silence == [i \in 1 .. pad |-> Silence]
           new == (disk[k] \o silence) \o Units(f, l)
<1>1. /\ f.at \in Nat /\ written[k] \in Nat /\ disk[k] \in Seq(SoundUnits)
      /\ written[k] = Len(disk[k])
  BY FileTypes DEF Frames
<1>2. pad \in Nat /\ (f.at > Len(disk[k]) => pad = f.at - Len(disk[k]))
      /\ (~(f.at > Len(disk[k])) => pad = 0)
  BY <1>1 DEF Pad
<1>3. \A j \in Audio : /\ disk[j] \in Seq(SoundUnits)
                       /\ [disk EXCEPT ![k] = new][j] = IF j = k THEN new ELSE disk[j]
  BY DEF Types, Disks, Audio
<1>4. \A n \in Nat : \A j \in Audio : [written EXCEPT ![k] = n][j] = IF j = k THEN n ELSE written[j]
  BY DEF Types, Audio
<1>5. disk' = [disk EXCEPT ![k] = new] /\ written' = [written EXCEPT ![k] = written[k] + (pad + l)]
  BY DEF Writes, Types, Disks, Audio
<1> HIDE DEF pad
<1>6. IsSilence(silence, pad) /\ IsSound(Units(f, l), f.at, l)
  BY <1>2, SilenceAndSound
<1> HIDE DEF silence
<1>7. Extends(new, disk[k], pad, f.at, l)
  BY <1>1, <1>2, <1>6, AppendedItems
<1> HIDE DEF new
<1>8. Aligned(new) /\ EndsBefore(new, f.at)
  BY <1>1, <1>2, <1>7, AppendAligned
<1>9. new \in Seq(SoundUnits) /\ Len(new) = written[k] + (pad + l) /\ written[k] + (pad + l) \in Nat
  <2>1. new \in Seq(SoundUnits) /\ Len(new) = Len(disk[k]) + pad + l
    BY <1>7 DEF Extends
  <2>2. Len(new) = written[k] + pad + l /\ written[k] \in Nat
    BY <1>1, <2>1
  <2>3. \A a, b \in Nat : a + b + l = a + (b + l) /\ a + (b + l) \in Nat
    OBVIOUS
  <2> QED
    BY <1>2, <2>1, <2>2, <2>3
<1> HIDE DEF k
<1>10. \A j \in Audio : /\ disk'[j] = IF j = k THEN new ELSE disk[j]
                        /\ written'[j] = IF j = k THEN Len(new) ELSE written[j]
  BY <1>3, <1>4, <1>5, <1>9
<1> QED
  BY <1>3, <1>8, <1>9, <1>10

LEMMA AppendPCMSound ==
    ASSUME Types, ~ShortWrites, NEW f \in Frames, f.kind \in Audio, AppendPCM(f),
           \A k \in Audio : /\ written[k] = Len(disk[k]) /\ EndsBefore(disk[k], f.at)
                            /\ Aligned(disk[k])
    PROVE  \A k \in Audio : /\ written'[k] = Len(disk'[k]) /\ EndsBefore(disk'[k], f.at)
                            /\ Aligned(disk'[k]) /\ disk'[k] \in Seq(SoundUnits)
<1>1. CASE \E n \in 0 .. Length[f.kind] : Writes(f, Pad(f), n, Pad(f) + n)
  <2>1. PICK n \in 0 .. Length[f.kind] : Writes(f, Pad(f), n, Pad(f) + n)
    BY <1>1
  <2>2. n \in Nat
    BY PadType
  <2> QED
    BY <2>1, <2>2, WriteSound
<1>2. CASE Writes(f, 0, 0, 0)
  <2>1. disk[f.kind] \in Seq(SoundUnits) /\ written[f.kind] \in Nat
    BY FileTypes
  <2>2. [i \in 1 .. 0 |-> Silence] = <<>> /\ Units(f, 0) = <<>>
    BY DEF Units
  <2>3. (disk[f.kind] \o [i \in 1 .. 0 |-> Silence]) \o Units(f, 0) = disk[f.kind]
    BY <2>1, <2>2, ConcatEmptySeq
  <2>4. written[f.kind] + 0 = written[f.kind]
    BY <2>1
  <2>5. \A j \in Audio : disk'[j] = disk[j] /\ written'[j] = written[j]
    <3>1. disk' = [disk EXCEPT ![f.kind] = disk[f.kind]]
      BY <1>2, <2>3 DEF Writes, Types, Disks, Audio
    <3>2. written' = [written EXCEPT ![f.kind] = written[f.kind]]
      BY <1>2, <2>4 DEF Writes, Types, Audio
    <3> QED
      BY <3>1, <3>2 DEF Types, Disks, Audio
  <2> QED
    BY <2>5, FileTypes
<1> QED
  BY <1>1, <1>2, AppendPCMWrites

LEMMA RecvSound ==
    ASSUME CallsInv, RecorderAssumption, ~ShortWrites, SoundInv, NEW c \in Calls, Recv(c)
    PROVE  SoundInv'
<1> DEFINE f == Head(client[c].queue)
<1>1. /\ handler[c] = "recv" /\ client[c].queue # <<>> /\ UNCHANGED handler
      /\ client' = [client EXCEPT ![c].queue = Tail(@)] /\ Types
  BY DEF Recv, CallsInv
<1>2. /\ client'[c].queue = Tail(client[c].queue) /\ client'[c].now = client[c].now
      /\ \A b \in Calls : b # c => client'[b] = client[b]
  BY <1>1 DEF Types, Clients
<1>3. /\ QueueInOrder(c)'
      /\ \A i \in 1 .. Len(client'[c].queue) :
           /\ \E j \in 1 .. Len(client[c].queue) : client'[c].queue[i] = client[c].queue[j]
           /\ client'[c].queue[i].at \in Nat
           /\ f.at <= client'[c].queue[i].at
      /\ f \in Frames /\ f.at \in Nat /\ f.at <= client[c].now
      /\ \E j \in 1 .. Len(client[c].queue) : f = client[c].queue[j]
  BY <1>1, <1>2, QueueTail DEF SoundInv
<1>4. \A b \in Calls : b # c => handler[b] # "recv"
  BY <1>1, Alone DEF Active
<1>5. \A b \in Calls : QueueInOrder(b)'
  BY <1>2, <1>3 DEF SoundInv, QueueInOrder
<1>6. \A k \in Audio : /\ written[k] = Len(disk[k]) /\ EndsBefore(disk[k], f.at)
                       /\ Aligned(disk[k])
  BY <1>1, <1>3 DEF SoundInv, CursorAtEnd
<1>7. client[c].now \in Nat
  BY <1>1, CallTypes
<1> HIDE DEF f
<1>8. CASE f.kind \in Audio
  <2>1. AppendPCM(f)
    BY <1>8 DEF Recv, f
  <2>2. \A k \in Audio : /\ written'[k] = Len(disk'[k]) /\ EndsBefore(disk'[k], f.at)
                         /\ Aligned(disk'[k]) /\ disk'[k] \in Seq(SoundUnits)
    BY <1>1, <1>3, <1>6, <1>8, <2>1, AppendPCMSound
  <2>3. \A k \in Audio : EndsBefore(disk'[k], client[c].now)
    BY <1>3, <1>7, <2>2, EndsBeforeLater
  <2>4. \A k \in Audio : \A i \in 1 .. Len(client'[c].queue) :
          EndsBefore(disk'[k], client'[c].queue[i].at)
    BY SMTT(30), ZenonT(60), <1>3, <2>2, EndsBeforeLater
  <2>5. CursorAtEnd(c)'
    BY <1>2, <2>2, <2>3, <2>4 DEF CursorAtEnd
  <2>6. \A b \in Calls : CursorAtEnd(b)'
    BY <1>1, <1>4, <2>5 DEF CursorAtEnd
  <2> QED
    BY <1>5, <2>2, <2>6 DEF SoundInv
<1>9. CASE f.kind \notin Audio
  <2>1. UNCHANGED <<written, disk>>
    BY <1>9 DEF Recv, f
  <2>2. CursorAtEnd(c)'
    BY SMTT(30), ZenonT(60), <1>1, <1>2, <1>3, <2>1 DEF SoundInv, CursorAtEnd
  <2>3. \A b \in Calls : CursorAtEnd(b)'
    BY <1>1, <1>4, <2>2 DEF CursorAtEnd
  <2> QED
    BY <1>5, <1>6, <2>1, <2>3 DEF SoundInv
<1> QED
  BY <1>8, <1>9

(* The steps that have nothing to do with sound.                            *)
LEMMA OtherSound ==
    ASSUME Types, SoundInv, NEW c \in Calls,
           \/ Start(c) \/ CloseStream(c) \/ CloseReturned(c) \/ Finalize(c) \/ Breaks(c)
           \/ StreamEnds(c) \/ EmptyStream(c) \/ SessionClose(c) \/ Muxer(c) \/ Combine(c)
    PROVE  SoundInv'
<1>1. CASE Start(c) \/ CloseStream(c) \/ CloseReturned(c) \/ Finalize(c)
  <2>1. PICK s : client' = [client EXCEPT ![c].state = s]
    BY <1>1 DEF Start, CloseStream, CloseReturned, Finalize
  <2>2. \A b \in Calls : client'[b].queue = client[b].queue /\ client'[b].now = client[b].now
    BY <2>1 DEF Types, Clients
  <2>3. UNCHANGED <<handler, written, disk>>
    BY <1>1 DEF Start, CloseStream, CloseReturned, Finalize, recorder, session
  <2> QED
    BY <2>2, <2>3, SoundUnchanged
<1>2. CASE Breaks(c) \/ Combine(c)
  <2>1. UNCHANGED <<client, handler, written, disk>>
    BY <1>2 DEF Breaks, Combine, CombineLooks, CombineRuns, recorder, session
  <2> QED
    BY <2>1, SoundUnchanged
<1>3. CASE StreamEnds(c) \/ EmptyStream(c)
  <2>1. UNCHANGED <<client, written, disk>>
    BY <1>3 DEF StreamEnds, EmptyStream, session
  <2>2. \A b \in Calls : handler'[b] = "recv" => handler[b] = "recv"
    BY <1>3 DEF StreamEnds, EmptyStream, Types
  <2> QED
    BY <2>1, <2>2, SoundUnchanged
<1>4. CASE SessionClose(c) \/ MuxFinishes(c)
  <2>1. UNCHANGED <<client, written>> /\ disk'.user = disk.user /\ disk'.agent = disk.agent
    BY <1>4 DEF SessionClose, MuxFinishes, FinishFragment, Types, Disks
  <2>2. \A b \in Calls : handler'[b] = "recv" => handler[b] = "recv"
    BY <1>4 DEF SessionClose, MuxFinishes, Types
  <2> QED
    BY <2>1, <2>2, SoundUnchanged
<1>5. CASE Mux(c)
  <2>1. UNCHANGED <<client, handler, written>> /\ disk'.user = disk.user /\ disk'.agent = disk.agent
    BY ZenonT(60), <1>5
       DEF Mux, Handle, Opens, OpensTorn, Adds, JoinsGroup, FinishFragment, Types, Disks
  <2> QED
    BY <2>1, SoundUnchanged
<1> QED
  BY <1>1, <1>2, <1>3, <1>4, <1>5 DEF Muxer

LEMMA CrashSound ==
    ASSUME SoundInv, Crash
    PROVE  SoundInv'
<1>1. UNCHANGED <<client, written, disk>>
  BY DEF Crash
<1>2. \A b \in Calls : handler'[b] = "recv" => handler[b] = "recv"
  BY DEF Crash
<1> QED
  BY <1>1, <1>2, SoundUnchanged

LEMMA InitSound ==
    ASSUME Init
    PROVE  SoundInv
<1>1. \A k \in Audio : disk[k] = <<>>
  BY DEF Init, Audio
<1>2. \A c \in Calls : client[c].queue = <<>> /\ Len(client[c].queue) = 0 /\ handler[c] = "none"
  BY EmptySeq DEF Init
<1>3. \A c \in Calls : QueueInOrder(c) /\ CursorAtEnd(c)
  BY <1>2 DEF QueueInOrder, CursorAtEnd
<1> QED
  BY <1>1, <1>3, EmptyFile DEF SoundInv

LEMMA NextSound ==
    ASSUME CallsInv, RecorderAssumption, ~ShortWrites, SoundInv, [Next]_vars
    PROVE  SoundInv'
<1>1. Types
  BY DEF CallsInv
<1>2. CASE UNCHANGED vars
  BY <1>2, SoundUnchanged DEF vars
<1>3. CASE Crash
  BY <1>3, CrashSound
<1>4. CASE Restart
  BY <1>4, SoundUnchanged DEF Restart, recorder, session
<1>5. ASSUME NEW c \in Calls, Gateway(c) PROVE SoundInv'
  BY <1>1, <1>5, SendSound, DrainSound, OtherSound DEF Gateway
<1>6. ASSUME NEW c \in Calls, Stream(c) PROVE SoundInv'
  BY <1>1, <1>6, NewSessionSound, RecvSound, OtherSound DEF Stream
<1>7. ASSUME NEW c \in Calls, Breaks(c) \/ Muxer(c) \/ Combine(c) PROVE SoundInv'
  BY <1>1, <1>7, OtherSound
<1> QED
  BY <1>2, <1>3, <1>4, <1>5, <1>6, <1>7 DEF Next

LEMMA SoundIsAligned ==
    ASSUME SoundInv
    PROVE  CallAligned
<1>1. \A k \in Audio : Aligned(disk[k])
  BY DEF SoundInv
<1> QED
  BY <1>1 DEF CallAligned, Aligned

----------------------------------------------------------------------------
(* The video file.                                                          *)

LEMMA VideoTypes ==
    ASSUME Types
    PROVE  /\ disk.video \in Seq(Fragments) /\ DOMAIN disk.video = 1 .. Len(disk.video)
           /\ Len(disk.video) \in Nat /\ \A i \in DOMAIN disk.video : disk.video[i].seq \in Nat
           /\ film.groups \in Seq(Seq(Frames)) /\ DOMAIN film.groups = 1 .. Len(film.groups)
           /\ Len(film.groups) \in Nat
           /\ film.lost \in SUBSET Nat /\ Samples \in Seq(Frames) /\ mux.seq \in Nat
<1>1. /\ disk.video \in Seq(Fragments) /\ mux.frag \in Seq(Frames) /\ mux.pending \in Seq(Frames)
      /\ film.groups \in Seq(Seq(Frames)) /\ film.lost \in SUBSET Nat /\ mux.seq \in Nat
  BY DEF Types, Disks, Muxes, Films
<1>2. Samples \in Seq(Frames)
  BY <1>1, ConcatProperties DEF Samples
<1>3. DOMAIN disk.video = 1 .. Len(disk.video) /\ Len(disk.video) \in Nat
  BY <1>1, LenProperties
<1>4. DOMAIN film.groups = 1 .. Len(film.groups) /\ Len(film.groups) \in Nat
  BY <1>1, LenProperties
<1>5. \A i \in DOMAIN disk.video : disk.video[i] \in Fragments
  BY <1>1, <1>3, ElementOfSeq
<1>6. \A i \in DOMAIN disk.video : disk.video[i].seq \in Nat
  BY <1>5 DEF Fragments
<1> QED
  BY <1>1, <1>2, <1>3, <1>4, <1>6

LEMMA GroupOfOne ==
    ASSUME NEW au, au.kind = "key"
    PROVE  IsGroup(<<au>>)
BY DEF IsGroup

LEMMA GroupAppend ==
    ASSUME NEW s \in Seq(Frames), NEW au \in Frames, IsGroup(s), au.kind # "key"
    PROVE  IsGroup(Append(s, au))
<1> DEFINE g == Append(s, au)
<1>1. /\ g \in Seq(Frames) /\ g # <<>> /\ Len(s) \in Nat /\ Len(g) = Len(s) + 1
      /\ g[Len(s) + 1] = au /\ \A i \in 1 .. Len(s) : g[i] = s[i]
  BY AppendItems
<1>2. Len(s) # 0
  BY EmptySeq DEF IsGroup
<1> HIDE DEF g
<1>3. ASSUME NEW j \in DOMAIN g PROVE (g[j].kind = "key") <=> (j = 1)
  <2>1. j \in 1 .. Len(s) \/ j = Len(s) + 1
    BY <1>1
  <2>2. CASE j \in 1 .. Len(s)
    <3>1. g[j] = s[j] /\ j \in DOMAIN s
      BY <1>1, <2>2
    <3> QED
      BY <3>1 DEF IsGroup
  <2>3. CASE j = Len(s) + 1
    <3>1. j # 1 /\ g[j].kind # "key"
      BY <1>1, <1>2, <2>3
    <3> QED
      BY <3>1
  <2> QED
    BY <2>1, <2>2, <2>3
<1> QED
  BY <1>1, <1>3 DEF IsGroup, g

(* A step that leaves the mux and its file as they are.                     *)
LEMMA VideoUnchanged ==
    ASSUME VideoInv, UNCHANGED <<mux, film>>, disk'.video = disk.video, disk'.init = disk.init,
           disk'.meta = disk.meta,
           \A c \in Calls :
             /\ handler'[c] = "none" => handler[c] = "none"
             /\ handler'[c] \in {"recv", "muxing"} => handler[c] \in {"recv", "muxing"}
             /\ handler'[c] = "flushed" => handler[c] = "flushed"
             /\ handler[c] = "closed" => handler'[c] = "closed"
    PROVE  VideoInv'
<1>1. Samples' = Samples /\ Covered' = Covered
  BY DEF Samples, Covered, Written
<1>2. FragmentsInv'
  BY <1>1 DEF VideoInv, FragmentsInv
<1>3. MuxInv'
  BY <1>1 DEF VideoInv, MuxInv
<1>4. OwnersInv'
  BY <1>1 DEF VideoInv, OwnersInv, Active
<1> QED
  BY <1>2, <1>3, <1>4 DEF VideoInv

LEMMA NewSessionVideo ==
    ASSUME CallsInv, RecorderAssumption, VideoInv, NEW c \in Calls, NewSession(c)
    PROVE  VideoInv'
<1>1. client[c].state \in {"open", "closing"} /\ handler[c] = "none"
  BY CallTypes DEF CallsInv, CallSteps, Types, Clients, NewSession
<1>2. /\ handler'[c] = "recv"
      /\ \A b \in Calls : b # c => handler'[b] = handler[b] /\ handler[b] \notin Active
  BY <1>1, Alone DEF NewSession, CallsInv, Types
<1>3. film.of # c /\ \A b \in Calls : disk.meta.of = b => handler[b] = "closed"
  BY <1>1 DEF VideoInv, OwnersInv
<1>4. CASE /\ mux' = [NoMux EXCEPT !.file = TRUE]
           /\ film' = [of |-> c, groups |-> <<>>, lost |-> {}]
           /\ disk' = [disk EXCEPT !.user = <<>>, !.agent = <<>>, !.init = "none", !.video = <<>>]
  <2>1. /\ mux'.file /\ ~mux'.started /\ mux'.frag = <<>> /\ film'.groups = <<>> /\ film'.of = c
        /\ disk'.video = <<>> /\ disk'.init = "none" /\ disk'.meta = disk.meta
    BY <1>4 DEF CallsInv, Types, Disks, NoMux
  <2>2. DOMAIN disk'.video = {} /\ DOMAIN film'.groups = {}
    BY <2>1
  <2>3. FragmentsInv'
    BY <2>1, <2>2 DEF FragmentsInv
  <2>4. MuxInv'
    BY <2>1 DEF MuxInv
  <2>5. OwnersInv'
    BY <1>2, <1>3, <1>1, <2>1 DEF VideoInv, OwnersInv, Active
  <2> QED
    BY <2>3, <2>4, <2>5 DEF VideoInv
<1>5. CASE mux' = NoMux /\ disk' = [disk EXCEPT !.user = <<>>, !.agent = <<>>] /\ UNCHANGED film
  <2>1. /\ ~mux'.file /\ ~mux'.started /\ disk'.video = disk.video
        /\ disk'.init = disk.init /\ disk'.meta = disk.meta
    BY <1>5 DEF CallsInv, Types, Disks, NoMux
  <2>2. Covered' = Covered
    BY <1>5, <2>1 DEF Covered, Written
  <2>3. FragmentsInv'
    BY <1>5, <2>1, <2>2 DEF VideoInv, FragmentsInv
  <2>4. MuxInv'
    BY <2>1 DEF MuxInv
  <2>5. OwnersInv'
    BY <1>1, <1>2, <1>3, <1>5, <2>1 DEF VideoInv, OwnersInv, Active
  <2> QED
    BY <2>3, <2>4, <2>5 DEF VideoInv
<1> QED
  BY <1>4, <1>5 DEF NewSession

(* What a fragment that is finished does to the file: it is behind the      *)
(* others, whole or torn, or it is lost.                                    *)
LEMMA FinishVideo ==
    ASSUME Types, FragmentsInv, NEW n, n = Len(film.groups), n = mux.seq, film.groups # <<>>,
           \A i \in DOMAIN disk.video : disk.video[i].seq < mux.seq,
           NEW samples \in Seq(Frames), samples = film.groups[n],
           NEW groups \in Seq(Seq(Frames)), n <= Len(groups), Len(groups) <= n + 1,
           \A i \in 1 .. n : groups[i] = film.groups[i],
           \A i \in DOMAIN groups : IsGroup(groups[i]),
           FinishFragment(samples, groups)
    PROVE  /\ FragmentsInv' /\ film'.groups = groups /\ film'.of = film.of
           /\ disk'.meta = disk.meta
           /\ \A i \in 1 .. n : i \in Covered'
           /\ \A i \in DOMAIN disk'.video : disk'.video[i].seq <= n
<1> DEFINE old == disk.video
           new == disk'.video
<1>1. /\ old \in Seq(Fragments) /\ DOMAIN old = 1 .. Len(old) /\ Len(old) \in Nat
      /\ n \in Nat \ {0} /\ film.lost \in SUBSET Nat
      /\ \A i \in DOMAIN old : old[i].seq \in Nat /\ old[i].seq < n
      /\ DOMAIN groups = 1 .. Len(groups) /\ Len(groups) \in Nat
      /\ DOMAIN film.groups = 1 .. n
  BY VideoTypes, EmptySeq, LenProperties
<1>2. /\ disk'.init = disk.init /\ disk'.meta = disk.meta
      /\ film'.groups = groups /\ film'.of = film.of
  BY ZenonT(60) DEF FinishFragment, Types, Disks, Films
<1>3. \/ new = Append(old, Fragment(n, samples)) /\ film'.lost = film.lost
      \/ /\ new \in {old, Append(old, Torn(n))}
         /\ film'.lost = film.lost \cup {n}
  <2>1. \/ /\ disk' = [disk EXCEPT !.video = Append(old, Fragment(n, samples))]
           /\ film' = [film EXCEPT !.groups = groups]
        \/ /\ disk' \in {disk, [disk EXCEPT !.video = Append(old, Torn(n))]}
           /\ film' = [film EXCEPT !.groups = groups, !.lost = film.lost \cup {n}]
    BY DEF FinishFragment, Types, Disks, Films
  <2>2. disk \in Disks /\ film \in Films
    BY DEF Types
  <2> QED
    BY ONLY <2>1, <2>2 DEF Disks, Films
<1>4. \A x \in {Fragment(n, samples), Torn(n)} : x \in Fragments /\ x.seq = n
  <2>1. Fragment(n, samples) \in Fragments /\ Fragment(n, samples).seq = n
    BY <1>1 DEF Fragment, Fragments
  <2>2. Torn(n) \in Fragments /\ Torn(n).seq = n
    BY <1>1, EmptySeq DEF Torn, Fragments
  <2> QED
    BY <2>1, <2>2
<1>5. \A x \in {Fragment(n, samples), Torn(n)} :
        /\ Append(old, x) \in Seq(Fragments) /\ Len(Append(old, x)) = Len(old) + 1
        /\ Append(old, x)[Len(old) + 1] = x
        /\ \A i \in 1 .. Len(old) : Append(old, x)[i] = old[i]
  BY <1>1, <1>4, AppendItems
<1>6. /\ \A i \in DOMAIN old : i \in DOMAIN new /\ new[i] = old[i]
      /\ \A i \in DOMAIN new : i \in DOMAIN old \/ (i = Len(old) + 1 /\ new[i].seq = n)
  <2>1. CASE new = old
    BY <2>1
  <2>2. ASSUME NEW x \in {Fragment(n, samples), Torn(n)}, new = Append(old, x)
        PROVE  /\ \A i \in DOMAIN old : i \in DOMAIN new /\ new[i] = old[i]
               /\ \A i \in DOMAIN new : i \in DOMAIN old \/ (i = Len(old) + 1 /\ new[i].seq = n)
    <3>1. DOMAIN new = 1 .. Len(old) + 1
      BY <1>1, <1>5, <2>2
    <3> QED
      BY <1>1, <1>4, <1>5, <2>2, <3>1
  <2> QED
    BY <1>3, <2>1, <2>2
<1>7. /\ n \in Covered'
      /\ \A i \in DOMAIN new : i = Len(old) + 1 =>
           /\ new[i].whole => new[i].samples = samples
           /\ ~new[i].whole => n \in film'.lost
  <2>1. CASE new = Append(old, Fragment(n, samples)) /\ film'.lost = film.lost
    <3>1. Len(old) + 1 \in DOMAIN new /\ new[Len(old) + 1] = Fragment(n, samples)
      BY <1>1, <1>5, <2>1
    <3>2. /\ new[Len(old) + 1].seq = n /\ new[Len(old) + 1].whole
          /\ new[Len(old) + 1].samples = samples
      BY <3>1 DEF Fragment
    <3> QED
      BY <3>1, <3>2 DEF Covered, Written
  <2>2. CASE new \in {old, Append(old, Torn(n))} /\ film'.lost = film.lost \cup {n}
    <3>1. n \in film'.lost
      BY <2>2
    <3>2. ASSUME NEW i \in DOMAIN new, i = Len(old) + 1 PROVE ~new[i].whole
      <4>1. new = Append(old, Torn(n))
        <5>1. i \notin DOMAIN old
          BY <1>1, <3>2
        <5> QED
          BY <2>2, <3>2, <5>1
      <4>2. new[i] = Torn(n)
        BY <1>5, <3>2, <4>1
      <4> QED
        BY <4>2 DEF Torn
    <3> QED
      BY <3>1, <3>2 DEF Covered
  <2> QED
    BY <1>3, <2>1, <2>2
<1>8. film.lost \subseteq film'.lost /\ Covered \subseteq Covered'
  <2>1. film.lost \subseteq film'.lost
    BY <1>3
  <2>2. Written \subseteq Written'
    BY <1>6 DEF Written
  <2> QED
    BY <2>1, <2>2 DEF Covered
<1> HIDE DEF new, old
<1>9. \A i \in 1 .. n : i \in Covered'
  <2>1. \A i \in 1 .. n : i # n => i \in DOMAIN film.groups /\ i < Len(film.groups)
    BY <1>1
  <2> QED
    BY <1>7, <1>8, <2>1 DEF FragmentsInv
<1>10. \A i \in DOMAIN new : new[i].seq <= n
  <2>1. \A i \in DOMAIN old : old[i].seq <= n
    BY <1>1
  <2>2. n <= n
    BY <1>1
  <2> QED
    BY <1>6, <2>1, <2>2
<1>11. ASSUME NEW i \in DOMAIN new
       PROVE  /\ new[i].seq \in DOMAIN groups
              /\ new[i].whole => new[i].samples = groups[new[i].seq]
              /\ ~new[i].whole => new[i].seq \in film'.lost
              /\ \A j \in DOMAIN new : i < j => new[i].seq < new[j].seq
  <2>1. n \in DOMAIN groups /\ groups[n] = samples
    <3>1. n \in 1 .. n /\ n \in 1 .. Len(groups)
      BY <1>1
    <3> QED
      BY <1>1, <3>1
  <2>2. CASE i \in DOMAIN old
    <3>1. new[i] = old[i] /\ old[i].seq < n /\ old[i].seq \in Nat
      BY <1>1, <1>6, <2>2 DEF old
    <3>2. /\ old[i].seq \in 1 .. n
          /\ old[i].whole => old[i].samples = film.groups[old[i].seq]
          /\ ~old[i].whole => old[i].seq \in film.lost
          /\ \A j \in DOMAIN old : i < j => old[i].seq < old[j].seq
      BY <1>1, <2>2 DEF FragmentsInv, old
    <3>3. groups[old[i].seq] = film.groups[old[i].seq] /\ old[i].seq \in DOMAIN groups
      BY SMTT(30), ZenonT(60), <1>1, <3>2
    <3>4. \A j \in DOMAIN new : i < j => new[i].seq < new[j].seq
      BY <1>6, <3>1, <3>2
    <3> QED
      BY <1>8, <3>1, <3>2, <3>3, <3>4
  <2>3. CASE i = Len(old) + 1 /\ new[i].seq = n
    <3>1. \A j \in DOMAIN new : ~(i < j)
      <4>1. \A j \in DOMAIN new : j \in 1 .. Len(old) \/ j = Len(old) + 1
        BY <1>1, <1>6
      <4> QED
        BY <1>1, <2>3, <4>1
    <3> QED
      BY <1>7, <2>1, <2>3, <3>1
  <2> QED
    BY <1>6, <2>2, <2>3
<1>12. \A m \in DOMAIN groups : m < Len(groups) => m \in Covered'
  <2>1. \A m \in DOMAIN groups : m < Len(groups) => m \in 1 .. n
    BY <1>1
  <2> QED
    BY <1>9, <2>1
<1>13. 0 \notin film'.lost => disk'.init = IF groups # <<>> THEN "whole" ELSE "none"
  <2>1. groups # <<>>
    BY <1>1, EmptySeq
  <2> QED
    BY <1>2, <1>8, <2>1 DEF FragmentsInv
<1>14. FragmentsInv'
  BY <1>2, <1>11, <1>12, <1>13 DEF FragmentsInv, new
<1> QED
  BY <1>2, <1>9, <1>10, <1>14 DEF new

(* A step of the mux of a call on the film that is its own.                 *)
LEMMA MuxOwners ==
    ASSUME CallsInv, OwnersInv, NEW c \in Calls, handler[c] \in {"recv", "muxing"},
           \A b \in Calls : b # c => handler[b] \notin Active,
           UNCHANGED handler, mux'.file = mux.file, film'.of = film.of, disk'.meta = disk.meta,
           mux'.started => \A i \in DOMAIN disk'.video : disk'.video[i].seq < mux'.seq
    PROVE  OwnersInv'
<1>1. ASSUME NEW b \in Calls
      PROVE  /\ handler'[b] = "none" => film'.of # b
             /\ handler'[b] \in Active => (mux'.file <=> film'.of = b)
             /\ handler'[b] \in {"recv", "muxing"} /\ mux'.started =>
                  \A i \in DOMAIN disk'.video : disk'.video[i].seq < mux'.seq
             /\ handler'[b] # "flushed"
             /\ disk'.meta.of = b => handler'[b] = "closed"
  BY DEF OwnersInv, Active
<1> QED
  BY <1>1 DEF OwnersInv

(* A first key frame, whose init segment may be torn.                       *)
LEMMA OpensVideo ==
    ASSUME CallsInv, VideoInv, NEW c \in Calls, handler[c] \in {"recv", "muxing"},
           \A b \in Calls : b # c => handler[b] \notin Active, UNCHANGED handler,
           NEW au \in Frames, ~mux.started, mux.file, au.kind = "key", Opens(au) \/ OpensTorn
    PROVE  VideoInv'
<1>1. film.groups = <<>> /\ DOMAIN film.groups = {} /\ DOMAIN disk.video = {}
  <2>1. film.groups = <<>>
    BY DEF VideoInv, MuxInv
  <2>2. DOMAIN film.groups = {}
    BY <2>1
  <2> QED
    BY <2>1, <2>2 DEF VideoInv, FragmentsInv
<1>2. disk'.video = disk.video /\ disk'.meta = disk.meta /\ film'.of = film.of
  BY DEF Opens, OpensTorn, CallsInv, Types, Disks, Films
<1>3. mux'.file
  BY DEF Opens, OpensTorn, CallsInv, Types, Muxes
<1>4. OwnersInv'
  BY <1>1, <1>2, <1>3, MuxOwners DEF VideoInv
<1>5. CASE Opens(au)
  <2>1. /\ film'.groups = << <<au>> >> /\ film'.lost = film.lost /\ mux'.started
        /\ mux'.first = au.at /\ mux'.seq = 1 /\ mux'.frag = <<>> /\ mux'.pending = <<au>>
        /\ disk'.init = IF disk.init = "none" THEN "whole" ELSE disk.init
    <3>1. mux.frag = <<>>
      BY DEF VideoInv, MuxInv
    <3> QED
      BY <1>5, <3>1 DEF Opens, CallsInv, Types, Disks, Films, Muxes
  <2>2. /\ Len(film'.groups) = 1 /\ film'.groups # <<>> /\ DOMAIN film'.groups = {1}
        /\ film'.groups[1] = <<au>> /\ <<au>>[1] = au
    BY <2>1
  <2>3. Samples' = <<au>>
    <3>1. <<au>> \in Seq(Frames)
      OBVIOUS
    <3> QED
      BY <2>1, <3>1, ConcatEmptySeq DEF Samples
  <2>4. FragmentsInv'
    BY <1>1, <1>2, <2>1, <2>2, GroupOfOne DEF VideoInv, FragmentsInv
  <2>5. MuxInv'
    BY <1>3, <2>1, <2>2, <2>3 DEF MuxInv
  <2> QED
    BY <1>4, <2>4, <2>5 DEF VideoInv
<1>6. CASE OpensTorn
  <2>1. film'.groups = film.groups /\ 0 \in film'.lost /\ UNCHANGED mux
    BY <1>6 DEF OpensTorn, CallsInv, Types, Films
  <2>2. FragmentsInv'
    BY <1>1, <1>2, <2>1 DEF FragmentsInv
  <2>3. MuxInv'
    <3>1. mux.frag = <<>>
      BY DEF VideoInv, MuxInv
    <3> QED
      BY <1>1, <2>1, <3>1 DEF MuxInv
  <2> QED
    BY <1>4, <2>2, <2>3 DEF VideoInv
<1> QED
  BY <1>5, <1>6

(* An access unit that joins the group.                                     *)
LEMMA JoinsVideo ==
    ASSUME CallsInv, VideoInv, NEW c \in Calls, handler[c] \in {"recv", "muxing"},
           \A b \in Calls : b # c => handler[b] \notin Active, UNCHANGED handler,
           NEW au \in Frames, mux.started, au.kind # "key", JoinsGroup(au)
    PROVE  VideoInv'
<1> DEFINE n == Len(film.groups)
           g == film.groups
           h == film'.groups
<1>1. /\ g \in Seq(Seq(Frames)) /\ DOMAIN g = 1 .. n /\ n \in Nat \ {0}
      /\ Samples \in Seq(Frames)
      /\ \A i \in DOMAIN disk.video : disk.video[i].seq \in Nat
  BY VideoTypes, EmptySeq DEF CallsInv, VideoInv, MuxInv
<1>2. /\ mux.file /\ mux.seq = n /\ Samples = g[n] /\ mux.first = g[1][1].at
      /\ \A i \in DOMAIN g : IsGroup(g[i])
      /\ \A i \in DOMAIN disk.video : disk.video[i].seq < n
  BY DEF VideoInv, MuxInv, FragmentsInv, OwnersInv
<1>3. /\ h = [g EXCEPT ![n] = Append(@, au)] /\ film'.of = film.of /\ film'.lost = film.lost
      /\ mux'.started /\ mux'.file = mux.file /\ mux'.seq = mux.seq /\ mux'.first = mux.first
      /\ mux'.frag = Samples /\ mux'.pending = <<au>> /\ disk' = disk
  BY DEF JoinsGroup, CallsInv, Types, Films, Muxes, Samples
<1>4. /\ h \in Seq(Seq(Frames)) /\ Len(h) = n /\ DOMAIN h = 1 .. n /\ h[n] = Append(g[n], au)
      /\ \A i \in DOMAIN g : i # n => h[i] = g[i]
  BY <1>1, <1>3, LastItem, EmptySeq, LenProperties
<1> HIDE DEF g, h, n
<1>5. Samples' = Append(Samples, au)
  <2>1. Samples' = Samples \o <<au>>
    BY <1>3 DEF Samples
  <2>2. Append(Samples, au) = Samples \o <<au>>
    BY <1>1, AppendIsConcat
  <2> QED
    BY <2>1, <2>2
<1>6. IsGroup(h[n])
  <2>1. IsGroup(Samples)
    BY <1>1, <1>2
  <2> QED
    BY <1>1, <1>2, <1>4, <2>1, GroupAppend
<1>7. h[1][1] = g[1][1]
  <2>1. 1 \in DOMAIN g
    BY <1>1
  <2>2. CASE n # 1
    BY <1>4, <2>1, <2>2
  <2>3. CASE n = 1
    <3>1. Samples # <<>> /\ Len(Samples) \in Nat \ {0}
      BY <1>1, <1>2, EmptySeq, LenProperties DEF IsGroup
    <3>2. Append(Samples, au)[1] = Samples[1]
      <4>1. 1 \in 1 .. Len(Samples)
        BY <3>1
      <4> QED
        BY <1>1, <4>1, AppendItems
    <3> QED
      BY <1>2, <1>4, <2>3, <3>2
  <2> QED
    BY <2>2, <2>3
<1>8. FragmentsInv'
  <2>1. Covered' = Covered
    BY <1>3 DEF Covered, Written
  <2>2. h # <<>> /\ g # <<>>
    BY <1>1, <1>4
  <2>3. \A i \in DOMAIN h : IsGroup(h[i])
    BY <1>1, <1>2, <1>4, <1>6
  <2>4. \A i \in DOMAIN disk.video :
          /\ disk.video[i].seq \in DOMAIN h
          /\ h[disk.video[i].seq] = g[disk.video[i].seq]
    <3>1. \A i \in DOMAIN disk.video : disk.video[i].seq \in DOMAIN g /\ disk.video[i].seq # n
      BY <1>1, <1>2 DEF VideoInv, FragmentsInv, g
    <3> QED
      BY <1>1, <1>4, <3>1
  <2>5. \A m \in DOMAIN h : m < Len(h) => m \in Covered
    BY <1>1, <1>4 DEF VideoInv, FragmentsInv, g, n
  <2>6. \A i \in DOMAIN disk.video :
          /\ disk.video[i].whole => disk.video[i].samples = g[disk.video[i].seq]
          /\ ~disk.video[i].whole => disk.video[i].seq \in film.lost
          /\ \A j \in DOMAIN disk.video : i < j => disk.video[i].seq < disk.video[j].seq
    BY DEF VideoInv, FragmentsInv, g
  <2>7. 0 \notin film.lost => disk.init = "whole"
    BY <2>2 DEF VideoInv, FragmentsInv, g
  <2>8. /\ film'.groups = h /\ disk' = disk /\ film'.lost = film.lost
    BY <1>3 DEF h
  <2>9. \A i \in DOMAIN disk'.video :
          /\ disk'.video[i].seq \in DOMAIN film'.groups
          /\ disk'.video[i].whole => disk'.video[i].samples = film'.groups[disk'.video[i].seq]
          /\ ~disk'.video[i].whole => disk'.video[i].seq \in film'.lost
          /\ \A j \in DOMAIN disk'.video : i < j => disk'.video[i].seq < disk'.video[j].seq
    BY <2>4, <2>6, <2>8
  <2>10. \A m \in DOMAIN film'.groups : m < Len(film'.groups) => m \in Covered'
    BY <2>1, <2>5, <2>8
  <2>11. 0 \notin film'.lost => disk'.init = IF film'.groups # <<>> THEN "whole" ELSE "none"
    BY <2>2, <2>7, <2>8
  <2> QED
    BY <2>3, <2>8, <2>9, <2>10, <2>11 DEF FragmentsInv
<1>9. MuxInv'
  <2>1. film'.groups # <<>>
    BY <1>1, <1>4 DEF h
  <2> QED
    BY <1>2, <1>3, <1>4, <1>5, <1>7, <2>1 DEF MuxInv, h
<1>10. OwnersInv'
  <2>1. \A i \in DOMAIN disk'.video : disk'.video[i].seq < mux'.seq
    BY <1>2, <1>3
  <2> QED
    BY <1>3, <2>1, MuxOwners DEF VideoInv
<1> QED
  BY <1>8, <1>9, <1>10 DEF VideoInv

(* A key frame rolls the fragment.                                          *)
LEMMA RollsVideo ==
    ASSUME CallsInv, VideoInv, NEW c \in Calls, handler[c] \in {"recv", "muxing"},
           \A b \in Calls : b # c => handler[b] \notin Active, UNCHANGED handler,
           NEW au \in Frames, mux.started, au.kind = "key",
           mux' = [mux EXCEPT !.seq = @ + 1, !.frag = <<>>, !.pending = <<au>>],
           FinishFragment(mux.frag \o mux.pending, Append(film.groups, <<au>>))
    PROVE  VideoInv'
<1> DEFINE n == Len(film.groups)
           g == film.groups
           h == Append(g, <<au>>)
<1>1. /\ g \in Seq(Seq(Frames)) /\ DOMAIN g = 1 .. n /\ n \in Nat \ {0} /\ g # <<>>
      /\ Samples \in Seq(Frames) /\ Types
  BY VideoTypes, EmptySeq DEF CallsInv, VideoInv, MuxInv
<1>2. /\ mux.file /\ mux.seq = n /\ Samples = g[n] /\ mux.first = g[1][1].at
      /\ \A i \in DOMAIN g : IsGroup(g[i])
      /\ \A i \in DOMAIN disk.video : disk.video[i].seq < mux.seq
  BY DEF VideoInv, MuxInv, FragmentsInv, OwnersInv
<1>3. /\ h \in Seq(Seq(Frames)) /\ Len(h) = n + 1 /\ h[n + 1] = <<au>>
      /\ \A i \in 1 .. n : h[i] = g[i]
  <2>1. <<au>> \in Seq(Frames)
    OBVIOUS
  <2> QED
    BY <1>1, <2>1, AppendItems
<1>4. DOMAIN h = 1 .. n + 1
  BY <1>3, LenProperties
<1>5. \A i \in DOMAIN h : IsGroup(h[i])
  <2>1. \A i \in DOMAIN h : i \in 1 .. n \/ i = n + 1
    BY <1>1, <1>4
  <2>2. IsGroup(h[n + 1])
    BY <1>3, GroupOfOne
  <2> QED
    BY <1>1, <1>2, <1>3, <2>1, <2>2
<1>6. FinishFragment(Samples, h)
  BY DEF Samples
<1> HIDE DEF h
<1>7. /\ FragmentsInv' /\ film'.groups = h /\ film'.of = film.of /\ disk'.meta = disk.meta
      /\ \A i \in DOMAIN disk'.video : disk'.video[i].seq <= n
  <2>1. n <= Len(h) /\ Len(h) <= n + 1 /\ n = mux.seq /\ FragmentsInv /\ n = Len(film.groups)
    BY <1>1, <1>2, <1>3 DEF VideoInv
  <2>2. /\ film.groups # <<>> /\ Samples = film.groups[n] /\ \A i \in 1 .. n : h[i] = film.groups[i]
        /\ h \in Seq(Seq(Frames)) /\ Samples \in Seq(Frames) /\ Types
        /\ \A i \in DOMAIN disk.video : disk.video[i].seq < mux.seq
    BY <1>1, <1>2, <1>3
  <2> HIDE DEF n, g
  <2> QED
    BY ZenonT(60), <1>5, <1>6, <2>1, <2>2, FinishVideo
<1>8. /\ mux'.started /\ mux'.file /\ mux'.seq = n + 1 /\ mux'.first = mux.first
      /\ mux'.frag = <<>> /\ mux'.pending = <<au>>
  BY <1>1, <1>2 DEF Types, Muxes
<1>9. Samples' = <<au>>
  <2>1. <<au>> \in Seq(Frames)
    OBVIOUS
  <2> QED
    BY <1>8, <2>1, ConcatEmptySeq DEF Samples
<1>10. MuxInv'
  <2>1. 1 \in 1 .. n /\ film'.groups # <<>>
    BY <1>1, <1>3, <1>7
  <2> QED
    BY <1>2, <1>3, <1>7, <1>8, <1>9, <2>1 DEF MuxInv
<1>11. OwnersInv'
  <2>1. \A i \in DOMAIN disk'.video : disk'.video[i].seq \in DOMAIN h
    BY <1>7 DEF FragmentsInv
  <2>2. \A i \in DOMAIN disk'.video : disk'.video[i].seq < mux'.seq
    BY <1>1, <1>4, <1>7, <1>8, <2>1
  <2> QED
    BY <1>2, <1>7, <1>8, <2>2, MuxOwners DEF VideoInv
<1> QED
  BY <1>7, <1>10, <1>11 DEF VideoInv

LEMMA MuxVideo ==
    ASSUME CallsInv, RecorderAssumption, VideoInv, NEW c \in Calls, Mux(c)
    PROVE  VideoInv'
<1>1. /\ handler[c] \in {"recv", "muxing"} /\ UNCHANGED handler /\ Handle(Head(channel))
      /\ Types
  BY DEF Mux, CallsInv
<1>2. Head(channel) \in Frames
  BY TailItems DEF Mux, CallsInv, Types
<1>3. \A b \in Calls : b # c => handler[b] \notin Active
  BY <1>1, Alone DEF Active
<1>4. CASE UNCHANGED <<mux, film, disk>>
  BY <1>1, <1>4, VideoUnchanged
<1>5. CASE mux.started /\ Adds(Head(channel))
  BY <1>1, <1>2, <1>3, <1>5, JoinsVideo, RollsVideo DEF Adds
<1>6. CASE ~mux.started /\ ~UNCHANGED <<mux, film, disk>>
  BY <1>1, <1>2, <1>3, <1>6, OpensVideo DEF Handle
<1> QED
  BY <1>1, <1>4, <1>5, <1>6 DEF Handle

LEMMA MuxFinishesVideo ==
    ASSUME CallsInv, RecorderAssumption, VideoInv, NEW c \in Calls, MuxFinishes(c)
    PROVE  VideoInv'
<1>1. handler[c] = "muxing" /\ UNCHANGED mux /\ handler'[c] = "flushed" /\ Types
  BY DEF MuxFinishes, CallsInv, Types
<1>2. \A b \in Calls : b # c => handler'[b] = handler[b] /\ handler[b] \notin Active
  BY <1>1, Alone DEF Active, MuxFinishes, CallsInv, Types
<1>3. ASSUME FragmentsInv', MuxInv', film'.of = film.of, disk'.meta = disk.meta,
             mux.file => DOMAIN film'.groups \subseteq Covered'
      PROVE  VideoInv'
  <2>1. OwnersInv'
    BY <1>1, <1>2, <1>3 DEF VideoInv, OwnersInv, Active
  <2> QED
    BY <1>3, <2>1 DEF VideoInv
<1>4. CASE mux.started
  <2> DEFINE n == Len(film.groups)
  <2>1. /\ film.groups \in Seq(Seq(Frames)) /\ DOMAIN film.groups = 1 .. n /\ n \in Nat
        /\ film.groups # <<>> /\ Samples \in Seq(Frames) /\ mux.seq = n
        /\ Samples = film.groups[n] /\ FragmentsInv
    BY <1>1, <1>4, VideoTypes DEF VideoInv, MuxInv
  <2>2. /\ \A i \in DOMAIN film.groups : IsGroup(film.groups[i])
        /\ \A i \in DOMAIN disk.video : disk.video[i].seq < mux.seq
    BY <1>1, <1>4 DEF VideoInv, FragmentsInv, OwnersInv
  <2>3. FinishFragment(Samples, film.groups)
    BY <1>4 DEF MuxFinishes, Samples
  <2>4. n <= n + 1 /\ n <= n
    BY <2>1
  <2>5. /\ FragmentsInv' /\ film'.groups = film.groups /\ film'.of = film.of
        /\ disk'.meta = disk.meta /\ \A i \in 1 .. n : i \in Covered'
    BY <1>1, <2>1, <2>2, <2>3, <2>4, FinishVideo
  <2>6. MuxInv'
    BY <1>1, <2>5 DEF VideoInv, MuxInv, Samples
  <2> QED
    BY <1>3, <2>1, <2>5, <2>6
<1>5. CASE ~mux.started
  <2>1. UNCHANGED <<film, disk>>
    BY <1>5 DEF MuxFinishes
  <2>2. Covered' = Covered /\ Samples' = Samples
    BY <1>1, <2>1 DEF Covered, Written, Samples
  <2>3. FragmentsInv' /\ MuxInv'
    BY <1>1, <2>1, <2>2 DEF VideoInv, FragmentsInv, MuxInv
  <2>4. mux.file => DOMAIN film'.groups = {}
    BY <1>5, <2>1 DEF VideoInv, MuxInv
  <2> QED
    BY <1>3, <2>1, <2>3, <2>4
<1> QED
  BY <1>4, <1>5

LEMMA RecvVideo ==
    ASSUME Types, VideoInv, NEW c \in Calls, Recv(c)
    PROVE  VideoInv'
<1>1. UNCHANGED <<handler, mux, film>>
  BY DEF Recv
<1>2. disk'.video = disk.video /\ disk'.init = disk.init /\ disk'.meta = disk.meta
  <2> DEFINE f == Head(client[c].queue)
  <2>1. CASE f.kind \in Audio
    <3>1. \E x : disk' = [disk EXCEPT ![f.kind] = x]
      BY <2>1 DEF Recv, AppendPCM, Writes
    <3> QED
      BY <2>1, <3>1 DEF Audio, Types, Disks
  <2>2. CASE f.kind \notin Audio
    BY <2>2 DEF Recv
  <2> QED
    BY <2>1, <2>2
<1> QED
  BY <1>1, <1>2, VideoUnchanged

LEMMA SessionCloseVideo ==
    ASSUME CallsInv, RecorderAssumption, VideoInv, NEW c \in Calls, SessionClose(c)
    PROVE  VideoInv'
<1>1. /\ UNCHANGED <<mux, film>> /\ disk'.video = disk.video /\ disk'.init = disk.init
      /\ disk'.meta = disk.meta \/ disk'.meta = NoMeta \/ disk'.meta.of = c
  BY SMTT(30), ZenonT(60) DEF SessionClose, CallsInv, Types, Disks
<1>2. /\ handler[c] = "flushed" /\ handler'[c] = "closed"
      /\ \A b \in Calls : b # c => handler'[b] = handler[b]
  BY DEF SessionClose, CallsInv, Types
<1>3. Samples' = Samples /\ Covered' = Covered
  BY <1>1 DEF Samples, Covered, Written
<1>4. FragmentsInv' /\ MuxInv'
  BY <1>1, <1>3 DEF VideoInv, FragmentsInv, MuxInv
<1>5. \A b \in Calls : disk'.meta.of = b => handler'[b] = "closed"
  <2>1. NoMeta.of \notin Calls
    BY DEF NoMeta, RecorderAssumption
  <2> QED
    BY <1>1, <1>2, <2>1 DEF VideoInv, OwnersInv
<1>6. OwnersInv'
  BY <1>1, <1>2, <1>3, <1>5 DEF VideoInv, OwnersInv, Active
<1> QED
  BY <1>4, <1>6 DEF VideoInv

LEMMA OtherVideo ==
    ASSUME Types, VideoInv, NEW c \in Calls,
           \/ Gateway(c) \/ Breaks(c) \/ Combine(c)
           \/ NewSessionFails(c) \/ StreamEnds(c) \/ EmptyStream(c)
    PROVE  VideoInv'
<1>1. CASE Gateway(c) \/ Breaks(c) \/ Combine(c)
  <2>1. UNCHANGED <<handler, mux, film, disk>>
    BY <1>1
       DEF Gateway, Start, Send, Drain, CloseStream, CloseReturned, Finalize, Breaks,
           Combine, CombineLooks, CombineRuns, recorder, session
  <2> QED
    BY <2>1, VideoUnchanged
<1>2. CASE NewSessionFails(c) \/ StreamEnds(c) \/ EmptyStream(c)
  <2>1. /\ UNCHANGED <<mux, film>> /\ disk'.video = disk.video /\ disk'.init = disk.init
        /\ disk'.meta = disk.meta
    BY <1>2 DEF NewSessionFails, StreamEnds, EmptyStream, session, Types, Disks
  <2>2. \A b \in Calls :
          /\ handler'[b] = "none" => handler[b] = "none"
          /\ handler'[b] \in {"recv", "muxing"} => handler[b] \in {"recv", "muxing"}
          /\ handler'[b] = "flushed" => handler[b] = "flushed"
          /\ handler[b] = "closed" => handler'[b] = "closed"
    BY <1>2 DEF NewSessionFails, StreamEnds, EmptyStream, Types
  <2> QED
    BY <2>1, <2>2, VideoUnchanged
<1> QED
  BY <1>1, <1>2

LEMMA CrashVideo ==
    ASSUME VideoInv, Crash
    PROVE  VideoInv'
<1>1. UNCHANGED <<film, disk>> /\ ~mux'.started /\ ~mux'.file
  BY DEF Crash, NoMux
<1>2. \A c \in Calls : /\ handler'[c] \notin Active
                       /\ handler'[c] = "none" => handler[c] = "none"
                       /\ handler[c] = "closed" => handler'[c] = "closed"
  BY DEF Crash, Active
<1>3. Covered' = Covered
  BY <1>1 DEF Covered, Written
<1>4. FragmentsInv' /\ MuxInv'
  BY <1>1, <1>3 DEF VideoInv, FragmentsInv, MuxInv
<1>5. OwnersInv'
  BY <1>1, <1>2 DEF VideoInv, OwnersInv, Active
<1> QED
  BY <1>4, <1>5 DEF VideoInv

LEMMA InitVideo ==
    ASSUME Init, RecorderAssumption
    PROVE  VideoInv
<1>1. /\ disk.video = <<>> /\ disk.init = "none" /\ disk.meta.of = 0 /\ film.groups = <<>>
      /\ film.of = 0 /\ ~mux.started /\ ~mux.file /\ 0 \notin Calls
      /\ \A c \in Calls : handler[c] = "none"
  BY DEF Init, NoMux, NoMeta, RecorderAssumption
<1>2. DOMAIN disk.video = {} /\ DOMAIN film.groups = {}
  BY <1>1
<1>3. FragmentsInv /\ MuxInv
  BY <1>1, <1>2 DEF FragmentsInv, MuxInv
<1>4. OwnersInv
  BY <1>1 DEF OwnersInv, Active
<1> QED
  BY <1>3, <1>4 DEF VideoInv

LEMMA NextVideo ==
    ASSUME CallsInv, RecorderAssumption, VideoInv, [Next]_vars
    PROVE  VideoInv'
<1>1. Types
  BY DEF CallsInv
<1>2. CASE UNCHANGED vars
  BY <1>2, VideoUnchanged DEF vars
<1>3. CASE Crash
  BY <1>3, CrashVideo
<1>4. CASE Restart
  BY <1>4, VideoUnchanged DEF Restart, recorder, session
<1>5. ASSUME NEW c \in Calls, Gateway(c) \/ Breaks(c) \/ Combine(c) PROVE VideoInv'
  BY <1>1, <1>5, OtherVideo
<1>6. ASSUME NEW c \in Calls, Stream(c) PROVE VideoInv'
  BY <1>1, <1>6, NewSessionVideo, RecvVideo, SessionCloseVideo, OtherVideo DEF Stream
<1>7. ASSUME NEW c \in Calls, Muxer(c) PROVE VideoInv'
  BY <1>7, MuxVideo, MuxFinishesVideo DEF Muxer
<1> QED
  BY <1>2, <1>3, <1>4, <1>5, <1>6, <1>7 DEF Next

LEMMA VideoIsSafe ==
    ASSUME VideoInv
    PROVE  CrashSafeVideo
<1>1. \A i \in DOMAIN disk.video : disk.video[i].whole =>
        IsGroup(disk.video[i].samples) /\ disk.video[i].samples = film.groups[disk.video[i].seq]
  BY DEF VideoInv, FragmentsInv
<1>2. \A i \in DOMAIN disk.video :
        /\ disk.video[i].seq \in DOMAIN film.groups
        /\ \A j \in DOMAIN disk.video : i < j => disk.video[i].seq < disk.video[j].seq
        /\ ~disk.video[i].whole => disk.video[i].seq \in film.lost
  BY DEF VideoInv, FragmentsInv
<1>3. /\ \A n \in DOMAIN film.groups : n < Len(film.groups) => n \in Written \cup film.lost
      /\ 0 \notin film.lost => (disk.init = "whole" <=> film.groups # <<>>)
  BY DEF VideoInv, FragmentsInv, Covered
<1> QED
  BY <1>1, <1>2, <1>3 DEF IsGroup, CrashSafeVideo

----------------------------------------------------------------------------
(* The movie of an acknowledged call.                                       *)

LEMMA FilmStays ==
    ASSUME UNCHANGED <<film, disk>>, NEW c, FilmIsWhole(c)
    PROVE  FilmIsWhole(c)'
<1>1. Covered' = Covered
  BY DEF Covered, Written
<1> QED
  BY <1>1 DEF FilmIsWhole

(* A step that keeps the files and the jobs of the acknowledged last call.  *)
LEMMA AckedUnchanged ==
    ASSUME CallsInv', AckedInv, UNCHANGED <<film, disk>>,
           \A c \in Calls :
             /\ client'[c].state = "new" => client[c].state = "new"
             /\ handler'[c] = "closed" => handler[c] = "closed"
             /\ c \in acked' => c \in acked \/ handler'[c] # "closed"
             /\ c \in acked => (job'[c] \in {"looked", "done"} => job'[c] = job[c])
                               /\ movie'[c] = movie[c]
    PROVE  AckedInv'
<1>1. SUFFICES ASSUME NEW c \in acked', handler'[c] = "closed", LastCall(c)'
      PROVE  FilmIsWhole(c)' /\ JobOnFiles(c)'
  BY DEF AckedInv
<1>2. c \in Calls
  BY <1>1 DEF CallsInv, Types
<1>3. c \in acked /\ handler[c] = "closed"
  BY <1>1, <1>2
<1>4. LastCall(c)
  BY <1>1 DEF LastCall
<1>5. FilmIsWhole(c) /\ JobOnFiles(c)
  BY <1>3, <1>4 DEF AckedInv
<1>6. movie'[c] = movie[c] /\ (job'[c] \in {"looked", "done"} => job'[c] = job[c])
  BY <1>2, <1>3
<1>7. FilmIsWhole(c)'
  BY <1>5, FilmStays
<1>8. JobOnFiles(c)'
  <2>1. SoundFiles' = SoundFiles /\ disk' = disk
    BY DEF SoundFiles
  <2> QED
    BY <1>5, <1>6, <2>1 DEF JobOnFiles
<1> QED
  BY <1>7, <1>8

LEMMA GatewayAcked ==
    ASSUME CallsInv, AckedInv, CallsInv', NEW c \in Calls, Gateway(c) \/ Breaks(c)
    PROVE  AckedInv'
<1>1. UNCHANGED <<film, disk, handler, acked, movie>>
  BY DEF Gateway, Start, Send, Drain, CloseStream, CloseReturned, Finalize, Breaks,
         recorder, session, finalize
<1>2. \A b \in Calls : client'[b].state = "new" => client[b].state = "new"
  <2>1. ASSUME NEW s, s # "new", client' = [client EXCEPT ![c].state = s]
        PROVE  \A b \in Calls : client'[b].state = "new" => client[b].state = "new"
    BY <2>1 DEF CallsInv, Types, Clients
  <2>2. CASE Start(c) \/ CloseStream(c) \/ CloseReturned(c) \/ Finalize(c)
    BY <2>1, <2>2 DEF Start, CloseStream, CloseReturned, Finalize
  <2>3. CASE Send(c)
    BY <2>3 DEF Send, CallsInv, Types, Clients
  <2>4. CASE Drain(c)
    BY <2>4 DEF Drain, CallsInv, Types, Clients
  <2>5. CASE Breaks(c)
    BY <2>5 DEF Breaks
  <2> QED
    BY <2>2, <2>3, <2>4, <2>5 DEF Gateway
<1>3. \A b \in Calls : job'[b] \in {"looked", "done"} => job'[b] = job[b]
  BY ZenonT(60) DEF Gateway, Start, Send, Drain, CloseStream, CloseReturned, Finalize, Breaks,
         finalize, CallsInv, Types
<1> QED
  BY <1>1, <1>2, <1>3, AckedUnchanged

(* A step on the files that is not the close of the session: there is no    *)
(* acknowledged last call at that moment.                                   *)
LEMMA BusyAcked ==
    ASSUME CallsInv, RecorderAssumption, CallsInv', NEW c \in Calls,
           NewSession(c) \/ NewSessionFails(c) \/ Recv(c) \/ Muxer(c)
    PROVE  AckedInv'
<1>1. UNCHANGED acked /\ \A b \in Calls : client'[b].state = "new" => client[b].state = "new"
  <2>1. CASE Recv(c)
    BY <2>1 DEF Recv, CallsInv, Types, Clients
  <2>2. CASE NewSession(c) \/ NewSessionFails(c) \/ Muxer(c)
    BY <2>2 DEF NewSession, NewSessionFails, Muxer, Mux, MuxFinishes
  <2> QED
    BY <2>1, <2>2
<1>2. \/ handler[c] \in Active
      \/ handler[c] = "none" /\ link[c] = "up" /\ client[c].queue # <<>>
  BY DEF NewSession, NewSessionFails, Recv, Muxer, Mux, MuxFinishes, Active
<1>3. ASSUME NEW d \in acked', LastCall(d)' PROVE FALSE
  <2>1. d \in acked /\ LastCall(d)
    BY <1>1, <1>3 DEF LastCall
  <2> QED
    BY <1>2, <2>1, Quiet
<1> QED
  BY <1>3 DEF AckedInv

LEMMA StreamEndsAcked ==
    ASSUME CallsInv, AckedInv, CallsInv', NEW c \in Calls, StreamEnds(c) \/ EmptyStream(c)
    PROVE  AckedInv'
<1>1. UNCHANGED <<client, film, disk, job, movie>>
  BY DEF StreamEnds, EmptyStream, session, finalize
<1>2. /\ handler'[c] \in {"muxing", "unused"} /\ \A b \in Calls : b # c => handler'[b] = handler[b]
      /\ \A b \in Calls : b \in acked' => b \in acked \/ b = c
  BY DEF StreamEnds, EmptyStream, CallsInv, Types
<1> QED
  BY <1>1, <1>2, AckedUnchanged

(* The close: the film is covered, meta.json is written if it can be, and   *)
(* then the Ack.                                                            *)
LEMMA SessionCloseAcked ==
    ASSUME CallsInv, RecorderAssumption, VideoInv, CallsInv', NEW c \in Calls, SessionClose(c)
    PROVE  AckedInv'
<1>1. /\ handler[c] = "flushed" /\ UNCHANGED <<client, film, mux, job, movie>>
      /\ disk'.video = disk.video
      /\ disk'.meta \in {disk.meta, NoMeta, [of |-> c, at |-> mux.first]}
  <2>1. handler[c] = "flushed" /\ UNCHANGED <<client, film, mux, job, movie>>
    BY DEF SessionClose, finalize
  <2>2. \/ disk' = disk
        \/ disk' = [disk EXCEPT !.meta = [of |-> c, at |-> mux.first]]
        \/ disk' = [disk EXCEPT !.meta = NoMeta]
    BY DEF SessionClose
  <2>3. disk \in Disks
    BY DEF CallsInv, Types
  <2> QED
    BY <2>1, <2>2, <2>3 DEF Disks
<1>2. \A d \in acked : ~LastCall(d)
  BY <1>1, Quiet DEF Active
<1>3. \A d \in acked' : LastCall(d)' => d = c
  BY <1>1, <1>2 DEF SessionClose, LastCall
<1>4. FilmIsWhole(c)'
  <2>1. SUFFICES ASSUME film.of = c
        PROVE  /\ DOMAIN film.groups \subseteq Covered'
               /\ disk'.meta.of = c /\ film.groups # <<>> => disk'.meta.at = film.groups[1][1].at
    BY <1>1 DEF FilmIsWhole
  <2>2. Covered' = Covered
    BY <1>1 DEF Covered, Written
  <2>3. mux.file /\ DOMAIN film.groups \subseteq Covered
    BY <1>1, <2>1 DEF VideoInv, OwnersInv, Active
  <2>4. film.groups # <<>> => mux.first = film.groups[1][1].at
    BY <2>3 DEF VideoInv, MuxInv
  <2>5. disk'.meta.of = c => disk'.meta.at = mux.first
    <3>1. disk.meta.of # c
      BY <1>1 DEF VideoInv, OwnersInv
    <3>2. NoMeta.of # c
      BY DEF NoMeta, RecorderAssumption
    <3> QED
      BY <1>1, <3>1, <3>2
  <2> QED
    BY <2>2, <2>3, <2>4, <2>5
<1>5. c \in acked' => job'[c] \notin {"looked", "done"}
  <2>1. c \notin acked
    BY <1>1 DEF CallsInv, CallSteps
  <2>2. ASSUME link[c] = "up" PROVE job[c] = "none"
    <3>1. client[c].state # "finalized"
      BY <2>1, <2>2 DEF CallsInv, CallSteps
    <3> QED
      BY <3>1 DEF CallsInv, CallSteps
  <2> QED
    BY <1>1, <2>1, <2>2 DEF SessionClose
<1>6. c \in acked' => JobOnFiles(c)'
  BY <1>5 DEF JobOnFiles
<1> QED
  BY <1>3, <1>4, <1>6 DEF AckedInv

(* A step of the job of a call, which changes nothing else.                 *)
LEMMA JobAcked ==
    ASSUME CallsInv, AckedInv, NEW c \in Calls,
           UNCHANGED <<client, handler, film, disk, acked>>,
           \A b \in Calls : b # c => job'[b] = job[b] /\ movie'[b] = movie[b],
           JobOnFiles(c) => JobOnFiles(c)'
    PROVE  AckedInv'
<1>1. SUFFICES ASSUME NEW d \in acked', handler'[d] = "closed", LastCall(d)'
      PROVE  FilmIsWhole(d)' /\ JobOnFiles(d)'
  BY DEF AckedInv
<1>2. d \in acked /\ handler[d] = "closed" /\ LastCall(d) /\ d \in Calls
  BY <1>1 DEF LastCall, CallsInv, Types
<1>3. FilmIsWhole(d) /\ JobOnFiles(d)
  BY <1>2 DEF AckedInv
<1>4. FilmIsWhole(d)'
  BY <1>3, FilmStays
<1>5. CASE d = c
  BY <1>3, <1>4, <1>5
<1>6. CASE d # c
  <2>1. job'[d] = job[d] /\ movie'[d] = movie[d] /\ disk' = disk /\ SoundFiles' = SoundFiles
    BY <1>2, <1>6 DEF SoundFiles
  <2>2. JobOnFiles(d)'
    BY <1>3, <2>1 DEF JobOnFiles
  <2> QED
    BY <1>4, <2>2
<1> QED
  BY <1>5, <1>6

LEMMA CombineLooksAcked ==
    ASSUME CallsInv, AckedInv, NEW c \in Calls, CombineLooks(c)
    PROVE  AckedInv'
<1>1. /\ UNCHANGED <<client, handler, film, disk, acked>>
      /\ \A b \in Calls : b # c => job'[b] = job[b] /\ movie'[b] = movie[b]
      /\ job'[c] = "looked" /\ movie'[c].used = NonEmpty /\ movie'[c].offset = disk.meta.at
  BY DEF CombineLooks, recorder, session, CallsInv, Types, NoMovie
<1>2. SoundFiles' \subseteq movie'[c].used
  BY <1>1 DEF NonEmpty, SoundFiles
<1>3. JobOnFiles(c)'
  BY <1>1, <1>2 DEF JobOnFiles
<1> QED
  BY <1>1, <1>3, JobAcked

LEMMA CombineRunsAcked ==
    ASSUME CallsInv, AckedInv, NEW c \in Calls, CombineRuns(c)
    PROVE  AckedInv'
<1>1. /\ UNCHANGED <<client, handler, film, disk, acked>>
      /\ job[c] = "looked" /\ job'[c] = "done"
      /\ \A b \in Calls : b # c => job'[b] = job[b] /\ movie'[b] = movie[b]
  BY DEF CombineRuns, Makes, recorder, session, CallsInv, Types
<1>2. ASSUME JobOnFiles(c) PROVE JobOnFiles(c)'
  <2>1. /\ SoundFiles \subseteq movie[c].used
        /\ "video" \in movie[c].used => movie[c].offset = disk.meta.at
    BY <1>1, <1>2 DEF JobOnFiles
  <2>2. disk' = disk /\ SoundFiles' = SoundFiles
    BY <1>1 DEF SoundFiles
  <2>3. ASSUME NEW used, used \in {movie[c].used, movie[c].used \ {"video"}}, Makes(c, used)
        PROVE  JobOnFiles(c)'
    <3> DEFINE offset == IF "video" \in used THEN movie[c].offset ELSE 0
    <3>1. movie'[c] = Combined(disk, used, offset)
      BY <2>3 DEF Makes, CallsInv, Types
    <3>2. movie'[c].used = used /\ movie'[c].offset = offset
      BY <3>1 DEF Combined
    <3>3. SoundFiles \subseteq used
      BY <2>1, <2>3 DEF SoundFiles, Audio
    <3>4. "video" \in used => offset = disk.meta.at
      BY <2>1, <2>3
    <3> HIDE DEF offset
    <3> QED
      BY <1>1, <2>2, <3>1, <3>2, <3>3, <3>4 DEF JobOnFiles
  <2>4. ASSUME movie' = [movie EXCEPT ![c] = NoMovie] PROVE JobOnFiles(c)'
    <3>1. movie'[c].used = {}
      BY <2>4 DEF CallsInv, Types, NoMovie
    <3> QED
      BY <1>1, <3>1 DEF JobOnFiles
  <2> QED
    BY <2>3, <2>4 DEF CombineRuns
<1> QED
  BY <1>1, <1>2, JobAcked

LEMMA CrashAcked ==
    ASSUME CallsInv, AckedInv, CallsInv', Crash
    PROVE  AckedInv'
<1>1. UNCHANGED <<client, film, disk, acked, movie>>
  BY DEF Crash
<1>2. \A c \in Calls : /\ handler'[c] = "closed" => handler[c] = "closed"
                       /\ job'[c] \in {"looked", "done"} => job'[c] = job[c]
  BY DEF Crash
<1> QED
  BY <1>1, <1>2, AckedUnchanged

LEMMA NextAcked ==
    ASSUME CallsInv, RecorderAssumption, VideoInv, AckedInv, CallsInv', [Next]_vars
    PROVE  AckedInv'
<1>1. CASE UNCHANGED vars
  BY <1>1, AckedUnchanged DEF vars
<1>2. CASE Crash
  BY <1>2, CrashAcked
<1>3. CASE Restart
  BY <1>3, AckedUnchanged DEF Restart, recorder, session, finalize
<1>4. ASSUME NEW c \in Calls, Gateway(c) \/ Breaks(c) PROVE AckedInv'
  BY <1>4, GatewayAcked
<1>5. ASSUME NEW c \in Calls, Stream(c) \/ Muxer(c) PROVE AckedInv'
  BY <1>5, BusyAcked, StreamEndsAcked, SessionCloseAcked DEF Stream
<1>6. ASSUME NEW c \in Calls, Combine(c) PROVE AckedInv'
  BY <1>6, CombineLooksAcked, CombineRunsAcked DEF Combine
<1> QED
  BY <1>1, <1>2, <1>3, <1>4, <1>5, <1>6 DEF Next

LEMMA AckedIsWhole ==
    ASSUME AckedInv
    PROVE  AckedIsCombined
<1>1. SUFFICES ASSUME NEW c \in acked, handler[c] = "closed", job[c] = "done", movie[c].used # {},
                      \A b \in Calls : b > c => client[b].state = "new"
      PROVE  /\ SoundFiles \subseteq movie[c].used
             /\ movie[c] = Combined(disk, movie[c].used, movie[c].offset)
             /\ film.of = c => DOMAIN film.groups \subseteq Written \cup film.lost
             /\ film.of = c /\ disk.meta.of = c /\ film.groups # <<>> /\ "video" \in movie[c].used =>
                  movie[c].offset = film.groups[1][1].at
  BY DEF AckedIsCombined
<1>2. FilmIsWhole(c) /\ JobOnFiles(c)
  BY <1>1 DEF AckedInv, LastCall
<1> QED
  BY <1>1, <1>2 DEF FilmIsWhole, JobOnFiles, Covered

----------------------------------------------------------------------------
(* The theorems.                                                            *)

LEMMA FilesInv == Spec => [](CallsInv /\ VideoInv /\ AckedInv)
<1>1. SUFFICES ASSUME RecorderAssumption PROVE Spec => [](CallsInv /\ VideoInv /\ AckedInv)
  BY RecorderAssumption
<1>2. Init => CallsInv /\ VideoInv /\ AckedInv
  BY <1>1, InitCalls, InitVideo DEF Init, AckedInv
<1>3. CallsInv /\ VideoInv /\ AckedInv /\ [Next]_vars => (CallsInv /\ VideoInv /\ AckedInv)'
  BY <1>1, NextCalls, NextVideo, NextAcked
<1> QED
  BY <1>2, <1>3, PTL DEF Spec

(* However often the recorder is killed, whatever frames the call sends and *)
(* the mux drops, and whichever writes fail: the fragments that are on the  *)
(* disk are groups of what the mux took, numbered as they are, and the file *)
(* lacks no group but the last one and those whose write failed (handle,    *)
(* finishFragment and finalize of the muxer, with one sample held back).      *)
THEOREM VideoAlwaysPlayable == Spec => []CrashSafeVideo
<1>1. CallsInv /\ VideoInv /\ AckedInv => CrashSafeVideo
  BY VideoIsSafe
<1> QED
  BY <1>1, FilesInv, PTL

(* An Ack stands for complete files: what combine makes for the last call,  *)
(* if ffmpeg makes anything, is made of the files as they then stay, with   *)
(* both tracks of sound, every group of the film that could be written, and *)
(* the place in the call where it starts, if meta.json could be written.    *)
THEOREM AckMeansWhole == Spec => []AckedIsCombined
<1>1. CallsInv /\ VideoInv /\ AckedInv => AckedIsCombined
  BY AckedIsWhole
<1> QED
  BY <1>1, FilesInv, PTL

(* appendPCM keeps both files on the clock of the call, unless a write of   *)
(* padding can fail half way: the cursor does not count what such a write   *)
(* leaves.                                                                  *)
THEOREM SoundOnCallClock == ShortWrites = FALSE => (Spec => []CallAligned)
<1>1. SUFFICES ASSUME RecorderAssumption, ~ShortWrites PROVE Spec => []CallAligned
  BY RecorderAssumption
<1>2. Init => CallsInv /\ SoundInv
  BY InitCalls, InitSound
<1>3. CallsInv /\ SoundInv /\ [Next]_vars => (CallsInv /\ SoundInv)'
  BY <1>1, NextCalls, NextSound
<1>4. CallsInv /\ SoundInv => CallAligned
  BY SoundIsAligned
<1> QED
  BY <1>2, <1>3, <1>4, PTL DEF Spec

=============================================================================
