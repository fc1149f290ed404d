------------------------------ MODULE Recorder ------------------------------
(* The recording of one session id: the gateway's record client, the stream  *)
(* handler and the mux goroutine of the recorder, the files they leave, and  *)
(* the finalize job that combines them.  The recorder may be killed and      *)
(* started again, the stream may break, and the calls are the ones an offer  *)
(* starts under the id, one after the other; an earlier stream has ended in  *)
(* the recorder before the next call starts.                                 *)
(*                                                                           *)
(* Time and length are in units of sound: a unit of a file is silence or a   *)
(* part (1, 2) of the frame stamped with the call time at.  A write to the   *)
(* disk may fail, and leave a part of what was to be written.                *)
EXTENDS Naturals, Sequences, SequencesExt

CONSTANTS Calls,        \* 1 .. n: the calls started under the id, in order
          MaxFrames,    \* frames a call produces
          MaxGap,       \* the clock moves by at most this between two frames
          SendBuffer,   \* capacity of the client's queue
          VideoBuffer,  \* capacity of the video writer's channel
          MaxCrashes,   \* how often the recorder is killed
          MaxFaults,    \* how often a write to the disk fails
          ShortWrites   \* a write of padding may fail half way

ASSUME RecorderAssumption ==
  /\ Calls \subseteq Nat \ {0} /\ MaxFrames \in Nat /\ MaxGap \in Nat /\ MaxCrashes \in Nat
  /\ MaxFaults \in Nat
  /\ SendBuffer \in Nat \ {0} /\ VideoBuffer \in Nat \ {0}
  /\ ShortWrites \in BOOLEAN

Audio == {"user", "agent"}
Kinds == Audio \cup {"key", "delta"}    \* a key frame may carry SPS and PPS
Silence == [at |-> 0, part |-> 0]
Length == [user |-> 1, agent |-> 2]     \* speech comes in longer chunks
Units(f, n) == [i \in 1 .. n |-> [at |-> f.at, part |-> i]]

(* A fragment on the disk: its sequence number and, if it could be written   *)
(* whole, its samples; of a torn one there is a part that nothing can read.  *)
Fragment(n, samples) == [seq |-> n, whole |-> TRUE, samples |-> samples]
Torn(n) == [seq |-> n, whole |-> FALSE, samples |-> <<>>]

NoMux == [file |-> FALSE, started |-> FALSE, first |-> 0, seq |-> 0, frag |-> <<>>, pending |-> <<>>]
NoMeta == [of |-> 0, at |-> 0]
NoMovie == [used |-> {}, offset |-> 0, length |-> 0, user |-> <<>>, agent |-> <<>>, video |-> <<>>]

VARIABLES
  client,    \* per call: state, clock, frames sent so far, queue
  link,      \* the gRPC stream of each call: "none", "up" or "broken"
  handler,   \* RecordStream: "none", "recv", "muxing", "flushed", "closed", "gone", "unused"
  written,   \* userBytes and agentBytes of the Session
  channel,   \* the access units the mux goroutine has not taken
  mux,       \* muxState, and whether run() could make its file
  film,      \* history of the video file: the call whose mux made it, the groups of access
             \* units that mux kept, one per key frame, and the groups it could not write
  disk,      \* the files of the session directory: the samples of both PCM files; of
             \* video_raw.mp4 the init segment, the call time that its decode times
             \* count from and the fragments; the offset in meta.json and whose it is
  acked,     \* history: the calls whose stream was closed with an Ack
  job,       \* runFinalize: "none", "accepted", "looked", "done", "refused", "killed"
  movie,     \* full_call.mp4 as each job made it
  status,    \* HTTPAPI.status of the id, "unknown" when it is not in the map
  faults,    \* the writes that have failed
  up, crashes

vars == <<client, link, handler, written, channel, mux, film, disk, faults, acked, job, movie, status,
          up, crashes>>
session == <<written, channel, mux, film, disk, faults>>
recorder == <<handler, session, acked>>
finalize == <<job, movie, status>>
process == <<up, crashes>>

Fault == faults < MaxFaults /\ faults' = faults + 1

-----------------------------------------------------------------------------
(* The gateway.  The sender opens the stream when the client is made; with   *)
(* the recorder down it only drains the queue.                               *)
Start(c) ==
  /\ client[c].state = "new"
  /\ \A b \in Calls : b < c => client[b].state = "finalized" /\ handler[b] \notin {"recv", "muxing", "flushed"}
  /\ client' = [client EXCEPT ![c].state = "open"]
  /\ link' = [link EXCEPT ![c] = IF up THEN "up" ELSE "broken"]
  /\ UNCHANGED <<recorder, finalize, process>>

(* Send stamps a frame with the call clock; a full queue drops it.           *)
Send(c) ==
  /\ client[c].state = "open" /\ client[c].sent < MaxFrames
  /\ \E kind \in Kinds, gap \in 0 .. MaxGap :
       LET at == client[c].now + gap
       IN  client' = [client EXCEPT ![c].now = at, ![c].sent = @ + 1,
                        ![c].queue = IF Len(@) < SendBuffer THEN Append(@, [kind |-> kind, at |-> at]) ELSE @]
  /\ UNCHANGED <<link, recorder, finalize, process>>

(* A sender whose stream is broken drains the queue into nothing.            *)
Drain(c) ==
  /\ link[c] = "broken" /\ client[c].queue # <<>>
  /\ client' = [client EXCEPT ![c].queue = Tail(@)]
  /\ UNCHANGED <<link, recorder, finalize, process>>

CloseStream(c) ==
  /\ client[c].state = "open"
  /\ client' = [client EXCEPT ![c].state = "closing"]
  /\ UNCHANGED <<link, recorder, finalize, process>>

(* Faulty variant: Close does not wait for the Ack.                          *)
CloseReturnedEarly(c) ==
  /\ client[c].state = "closing" /\ client[c].queue = <<>>
  /\ client' = [client EXCEPT ![c].state = "closed"]
  /\ UNCHANGED <<link, recorder, finalize, process>>

(* Faulty variant: the wait for the Ack is not ended by a broken stream.     *)
CloseReturnedAckOnly(c) ==
  /\ client[c].state = "closing" /\ client[c].queue = <<>> /\ c \in acked
  /\ client' = [client EXCEPT ![c].state = "closed"]
  /\ UNCHANGED <<link, recorder, finalize, process>>

(* CloseAndRecv returns with the Ack, or with the error of a broken stream.  *)
CloseReturned(c) ==
  /\ client[c].state = "closing" /\ client[c].queue = <<>>
  /\ link[c] = "broken" \/ c \in acked
  /\ client' = [client EXCEPT ![c].state = "closed"]
  /\ UNCHANGED <<link, recorder, finalize, process>>

(* POST /finalize: a recorder that is down is not asked again.               *)
Finalize(c) ==
  /\ client[c].state = "closed"
  /\ client' = [client EXCEPT ![c].state = "finalized"]
  /\ job' = [job EXCEPT ![c] = IF up THEN "accepted" ELSE "refused"]
  /\ status' = IF up THEN "pending" ELSE status
  /\ UNCHANGED <<link, recorder, movie, process>>

Breaks(c) ==
  /\ link[c] = "up" /\ c \notin acked
  /\ link' = [link EXCEPT ![c] = "broken"]
  /\ UNCHANGED <<client, recorder, finalize, process>>

-----------------------------------------------------------------------------
(* RecordStream.  newSession truncates the two PCM files, and the mux        *)
(* goroutine it starts the video file; meta.json is left as it is.  Without  *)
(* a video file the goroutine only drains its channel, and one that an       *)
(* earlier call has left stays.                                              *)
NewSession(c) ==
  /\ up /\ handler[c] = "none" /\ link[c] = "up" /\ client[c].queue # <<>>
  /\ handler' = [handler EXCEPT ![c] = "recv"]
  /\ written' = [user |-> 0, agent |-> 0] /\ channel' = <<>>
  /\ \/ /\ mux' = [NoMux EXCEPT !.file = TRUE]
        /\ film' = [of |-> c, groups |-> <<>>, lost |-> {}]
        /\ disk' = [disk EXCEPT !.user = <<>>, !.agent = <<>>, !.init = "none", !.video = <<>>]
        /\ UNCHANGED faults
     \/ /\ Fault
        /\ mux' = NoMux /\ disk' = [disk EXCEPT !.user = <<>>, !.agent = <<>>]
        /\ UNCHANGED film
  /\ UNCHANGED <<client, link, acked, finalize, process>>

(* The directory or a PCM file cannot be made: the stream fails.             *)
NewSessionFails(c) ==
  /\ up /\ handler[c] = "none" /\ link[c] = "up" /\ client[c].queue # <<>>
  /\ Fault
  /\ handler' = [handler EXCEPT ![c] = "gone"]
  /\ link' = [link EXCEPT ![c] = "broken"]
  /\ disk' \in {disk, [disk EXCEPT !.user = <<>>]}
  /\ UNCHANGED <<client, written, channel, mux, film, acked, finalize, process>>

Pad(f) == IF f.at > written[f.kind] THEN f.at - written[f.kind] ELSE 0

(* What is added to the file of f, and what is counted of it.                *)
Writes(f, silence, n, counted) ==
  /\ disk' = [disk EXCEPT ![f.kind] = @ \o [i \in 1 .. silence |-> Silence] \o Units(f, n)]
  /\ written' = [written EXCEPT ![f.kind] = @ + counted]

(* Faulty variant: the cursor does not count the silence.                    *)
AppendPCMUncounted(f) ==
  Writes(f, Pad(f), Length[f.kind], Length[f.kind]) /\ UNCHANGED faults

(* appendPCM: silence up to the call time, then the frame; a frame behind    *)
(* the cursor follows what is there.  Of a frame that cannot be written      *)
(* whole the part that was is counted, and so is the silence before it; what *)
(* a failed write of silence left in the file is not.                        *)
AppendPCM(f) ==
  \/ Writes(f, Pad(f), Length[f.kind], Pad(f) + Length[f.kind]) /\ UNCHANGED faults
  \/ Fault /\ \E n \in 0 .. Length[f.kind] - 1 : Writes(f, Pad(f), n, Pad(f) + n)
  \/ Fault /\ Pad(f) > 0 /\ \E short \in IF ShortWrites THEN 0 .. Pad(f) - 1 ELSE {0} :
                               Writes(f, short, 0, 0)

Recv(c) ==
  /\ handler[c] = "recv" /\ link[c] = "up" /\ client[c].queue # <<>>
  /\ client' = [client EXCEPT ![c].queue = Tail(@)]
  /\ LET f == Head(client[c].queue)
     IN  IF f.kind \in Audio
         THEN AppendPCM(f) /\ UNCHANGED channel
         ELSE /\ channel' = IF Len(channel) < VideoBuffer THEN Append(channel, f) ELSE channel
              /\ UNCHANGED <<written, disk, faults>>
  /\ UNCHANGED <<link, handler, mux, film, acked, finalize, process>>

(* io.EOF after the last frame, or the error of a broken stream: close()     *)
(* closes the channel of the mux and waits for it.                           *)
AtEOF(c) == client[c].state = "closing" /\ client[c].queue = <<>>

StreamEnds(c) ==
  /\ handler[c] = "recv" /\ (AtEOF(c) \/ link[c] = "broken")
  /\ handler' = [handler EXCEPT ![c] = "muxing"]
  /\ UNCHANGED <<client, link, session, acked, finalize, process>>

(* A call that sent nothing has no session, and is acknowledged all the same.*)
EmptyStream(c) ==
  /\ up /\ handler[c] = "none" /\ link[c] = "up" /\ AtEOF(c)
  /\ handler' = [handler EXCEPT ![c] = "unused"]
  /\ acked' = acked \cup {c}
  /\ UNCHANGED <<client, link, session, finalize, process>>

-----------------------------------------------------------------------------
(* The mux goroutine: it drops until a key frame, which opens the file,      *)
(* holds back one sample until the next tells its duration, and writes a     *)
(* fragment per key frame.                                                   *)

(* finishFragment: a fragment that cannot be encoded is dropped, and the     *)
(* recording goes on with the next; a part of it may be in the file.  (So    *)
(* looks also a file whose writer was killed in the middle of a fragment.)   *)
FinishFragment(samples, groups) ==
  \/ /\ disk' = [disk EXCEPT !.video = Append(@, Fragment(mux.seq, samples))]
     /\ film' = [film EXCEPT !.groups = groups]
     /\ UNCHANGED faults
  \/ /\ Fault
     /\ disk' \in {disk, [disk EXCEPT !.video = Append(@, Torn(mux.seq))]}
     /\ film' = [film EXCEPT !.groups = groups, !.lost = @ \cup {mux.seq}]

Opens(au) ==
  /\ mux' = [mux EXCEPT !.started = TRUE, !.first = au.at, !.seq = 1, !.pending = <<au>>]
  /\ film' = [film EXCEPT !.groups = << <<au>> >>]
  /\ disk' = [disk EXCEPT !.init = IF @ = "none" THEN "whole" ELSE @, !.zero = au.at]
  /\ UNCHANGED faults

(* An init segment that cannot be written whole spoils the file: the next    *)
(* key frame writes another one behind what is left of it.                   *)
OpensTorn ==
  /\ Fault
  /\ disk' = [disk EXCEPT !.init = "torn"]
  /\ film' = [film EXCEPT !.lost = @ \cup {0}]
  /\ UNCHANGED mux

(* A sample that is not a key frame joins the group, behind the held one.    *)
JoinsGroup(au) ==
  /\ mux' = [mux EXCEPT !.frag = @ \o mux.pending, !.pending = <<au>>]
  /\ film' = [film EXCEPT !.groups[Len(film.groups)] = Append(@, au)]
  /\ UNCHANGED <<disk, faults>>

(* Faulty variant: the fragment is rolled before the held sample is in it.   *)
AddsRollsFirst(au) ==
  \/ au.kind # "key" /\ JoinsGroup(au)
  \/ /\ au.kind = "key"
     /\ mux' = [mux EXCEPT !.seq = @ + 1, !.frag = mux.pending, !.pending = <<au>>]
     /\ FinishFragment(mux.frag, Append(film.groups, <<au>>))

Adds(au) ==
  \/ au.kind # "key" /\ JoinsGroup(au)
  \/ /\ au.kind = "key"
     /\ mux' = [mux EXCEPT !.seq = @ + 1, !.frag = <<>>, !.pending = <<au>>]
     /\ FinishFragment(mux.frag \o mux.pending, Append(film.groups, <<au>>))

(* Without a file, or before a key frame with SPS and PPS whose init segment *)
(* can be written, everything is dropped.                                    *)
Handle(au) ==
  \/ ~mux.started /\ UNCHANGED <<mux, film, disk, faults>>
  \/ ~mux.started /\ mux.file /\ au.kind = "key" /\ (Opens(au) \/ OpensTorn)
  \/ mux.started /\ Adds(au)

Mux(c) ==
  /\ handler[c] \in {"recv", "muxing"} /\ channel # <<>>
  /\ channel' = Tail(channel)
  /\ Handle(Head(channel))
  /\ UNCHANGED <<client, link, handler, written, acked, finalize, process>>

(* muxState.finalize, when the closed channel is empty: the held sample and  *)
(* the last fragment.                                                        *)
MuxFinishes(c) ==
  /\ handler[c] = "muxing" /\ channel = <<>>
  /\ handler' = [handler EXCEPT ![c] = "flushed"]
  /\ \/ mux.started /\ FinishFragment(mux.frag \o mux.pending, film.groups)
     \/ ~mux.started /\ UNCHANGED <<film, disk, faults>>
  /\ UNCHANGED <<client, link, written, channel, mux, acked, finalize, process>>

(* The rest of close(): meta.json, best-effort, then the Ack of a stream     *)
(* that still stands.  A write that fails leaves the meta.json of an earlier *)
(* call or one that cannot be read, which means offset 0.                    *)
SessionClose(c) ==
  /\ handler[c] = "flushed"
  /\ handler' = [handler EXCEPT ![c] = "closed"]
  /\ \/ disk' = [disk EXCEPT !.meta = [of |-> c, at |-> mux.first]] /\ UNCHANGED faults
     \/ Fault /\ disk' \in {disk, [disk EXCEPT !.meta = NoMeta]}
  /\ acked' = IF link[c] = "up" THEN acked \cup {c} ELSE acked
  /\ UNCHANGED <<client, link, written, channel, mux, film, finalize, process>>

-----------------------------------------------------------------------------
(* combine: it looks which files hold something and where the video starts,  *)
(* and then runs ffmpeg on them.                                             *)
SoundFiles == {k \in Audio : disk[k] # <<>>}
NonEmpty == SoundFiles \cup (IF disk.init # "none" THEN {"video"} ELSE {})

CombineLooks(c) ==
  /\ job[c] = "accepted"
  /\ job' = [job EXCEPT ![c] = "looked"]
  /\ movie' = [movie EXCEPT ![c] = [NoMovie EXCEPT !.used = NonEmpty, !.offset = disk.meta.at]]
  /\ UNCHANGED <<client, link, recorder, status, process>>

Outcome(used) ==
  IF used = Audio \cup {"video"} THEN "complete"
  ELSE IF "video" \in used THEN "partial" ELSE "audio_only"

(* What a demuxer reads of the video: the fragments up to the first torn one.*)
Readable(files) ==
  LET torn == {i \in DOMAIN files.video : ~files.video[i].whole}
      intact == IF files.init # "whole" THEN <<>>
                ELSE IF torn = {} THEN files.video ELSE SubSeq(files.video, 1, Min(torn) - 1)
  IN  FlattenSeq([i \in DOMAIN intact |-> intact[i].samples])

(* The video is delayed by the offset.  amerge ends with the shorter of the  *)
(* two sound tracks, -shortest with the shorter of sound and video.          *)
ShownAt(files, offset, au) == offset + au.at - files.zero
Runtime(files, offset) ==
  IF Readable(files) = <<>> THEN 0 ELSE ShownAt(files, offset, Last(Readable(files))) + 1
Shortest(files, used, offset) ==
  Min({Len(files[k]) : k \in used \cap Audio}
      \cup (IF "video" \in used THEN {Runtime(files, offset)} ELSE {}))

(* full_call.mp4 from the files used: what the longer tracks hold beyond the *)
(* end of the shortest is cut.                                               *)
Heard(files, k, used, offset) ==
  IF k \in used THEN SubSeq(files[k], 1, Shortest(files, used, offset)) ELSE <<>>
Seen(files, used, offset) ==
  IF "video" \in used
  THEN SelectSeq(Readable(files), LAMBDA au : ShownAt(files, offset, au) < Shortest(files, used, offset))
  ELSE <<>>
Combined(files, used, offset) ==
  [used |-> used, offset |-> offset, length |-> Shortest(files, used, offset),
   user |-> Heard(files, "user", used, offset), agent |-> Heard(files, "agent", used, offset),
   video |-> Seen(files, used, offset)]

Makes(c, used) ==
  /\ used # {}
  /\ movie' = [movie EXCEPT ![c] = Combined(disk, used, IF "video" \in used THEN @.offset ELSE 0)]
  /\ status' = Outcome(used)

(* The first run of ffmpeg may fail, and so may the one with audio only.     *)
CombineRuns(c) ==
  /\ job[c] = "looked"
  /\ job' = [job EXCEPT ![c] = "done"]
  /\ \/ Makes(c, movie[c].used)
     \/ "video" \in movie[c].used /\ Makes(c, movie[c].used \ {"video"})
     \/ status' = "failed" /\ movie' = [movie EXCEPT ![c] = NoMovie]
  /\ UNCHANGED <<client, link, recorder, process>>

-----------------------------------------------------------------------------
(* The recorder is killed: its goroutines, its jobs and its status map are   *)
(* gone and its streams break; the files stay as they are.                   *)
Crash ==
  /\ up /\ crashes < MaxCrashes
  /\ up' = FALSE /\ crashes' = crashes + 1
  /\ handler' = [c \in Calls |-> IF handler[c] \in {"recv", "muxing", "flushed"} THEN "gone" ELSE handler[c]]
  /\ link' = [c \in Calls |-> IF link[c] = "up" /\ c \notin acked THEN "broken" ELSE link[c]]
  /\ channel' = <<>> /\ mux' = NoMux
  /\ job' = [c \in Calls |-> IF job[c] \in {"accepted", "looked"} THEN "killed" ELSE job[c]]
  /\ status' = "unknown"
  /\ UNCHANGED <<client, written, film, disk, faults, acked, movie>>

Restart ==
  /\ ~up
  /\ up' = TRUE
  /\ UNCHANGED <<client, link, recorder, finalize, crashes>>

Init ==
  /\ client = [c \in Calls |-> [state |-> "new", now |-> 0, sent |-> 0, queue |-> <<>>]]
  /\ link = [c \in Calls |-> "none"]
  /\ handler = [c \in Calls |-> "none"]
  /\ written = [user |-> 0, agent |-> 0]
  /\ channel = <<>> /\ mux = NoMux
  /\ film = [of |-> 0, groups |-> <<>>, lost |-> {}]
  /\ disk = [user |-> <<>>, agent |-> <<>>, init |-> "none", zero |-> 0, video |-> <<>>, meta |-> NoMeta]
  /\ faults = 0
  /\ acked = {}
  /\ job = [c \in Calls |-> "none"]
  /\ movie = [c \in Calls |-> NoMovie]
  /\ status = "unknown" /\ up = TRUE /\ crashes = 0

Gateway(c) == Start(c) \/ Send(c) \/ Drain(c) \/ CloseStream(c) \/ CloseReturned(c) \/ Finalize(c)
Stream(c) == NewSession(c) \/ NewSessionFails(c) \/ Recv(c) \/ StreamEnds(c) \/ EmptyStream(c) \/ SessionClose(c)
Muxer(c) == Mux(c) \/ MuxFinishes(c)
Combine(c) == CombineLooks(c) \/ CombineRuns(c)

Next ==
  \/ \E c \in Calls : Gateway(c) \/ Breaks(c) \/ Stream(c) \/ Muxer(c) \/ Combine(c)
  \/ Crash
  \/ Restart

Spec == Init /\ [][Next]_vars

(* The sender and Close of the client, the handler and the mux goroutine of  *)
(* the recorder run as long as they have work; a call need not send or end,  *)
(* and nothing makes a killed recorder come back.                            *)
FairSpec ==
  /\ Spec
  /\ \A c \in Calls : WF_vars(Drain(c)) /\ WF_vars(CloseReturned(c))
                      /\ WF_vars(Stream(c)) /\ WF_vars(Muxer(c))

-----------------------------------------------------------------------------
(* A frame of sound lies at its call time, or right behind sound that ran    *)
(* past it, in one piece, and after every earlier frame: appendPCM, whose    *)
(* cursor must tell the length of the file.                                  *)
CallAligned ==
  \A k \in Audio :
    LET file == disk[k]
        sound == {i \in DOMAIN file : file[i].part > 0}
    IN  \A i \in sound :
          /\ file[i].part = 1 /\ i - 1 # file[i].at => i - 1 > file[i].at /\ i - 1 \in sound
          /\ file[i].part > 1 => i - 1 \in sound /\ file[i - 1] = [file[i] EXCEPT !.part = @ - 1]
          /\ \A j \in sound : j < i => file[j].at <= file[i].at

(* "A killed process still leaves a playable file containing every fragment  *)
(* flushed before the crash" (videowriter.go:12-14).  Each fragment that     *)
(* could be written is, under its number, a whole group of what the mux      *)
(* kept, with its only key frame at the start; the file has them in order;   *)
(* and it lacks no group but the one under assembly and those whose write    *)
(* failed.  Where no write failed, nothing in the file is torn, and what the *)
(* killed process leaves has no gap.                                         *)
Written == {disk.video[i].seq : i \in {j \in DOMAIN disk.video : disk.video[j].whole}}

CrashSafeVideo ==
  /\ \A i \in DOMAIN disk.video :
       /\ disk.video[i].seq \in DOMAIN film.groups
       /\ \A j \in DOMAIN disk.video : i < j => disk.video[i].seq < disk.video[j].seq
       /\ disk.video[i].whole =>
            /\ disk.video[i].samples = film.groups[disk.video[i].seq] /\ disk.video[i].samples # <<>>
            /\ \A j \in DOMAIN disk.video[i].samples : disk.video[i].samples[j].kind = "key" <=> j = 1
       /\ ~disk.video[i].whole => disk.video[i].seq \in film.lost
  /\ \A n \in DOMAIN film.groups : n < Len(film.groups) => n \in Written \cup film.lost
  /\ 0 \notin film.lost => (disk.init = "whole" <=> film.groups # <<>>)

(* An Ack stands for complete files: the Ack comes after the flush, the      *)
(* finalize request after the Ack.  The movie of an acknowledged call that   *)
(* ffmpeg did not fail on is made of files to which nothing was added any    *)
(* more: all the sound there is, every group of its film that could be       *)
(* written, and, if meta.json could be written, the video at the call time   *)
(* of its first access unit.  It ends with the shortest track (RECORDER.md   *)
(* would have the shorter side padded).  This is for the last call of the    *)
(* id, if it sent a frame; one that sent none combines what an earlier call  *)
(* has left, and one whose video file could not be made the film of an       *)
(* earlier call.                                                             *)
AckedIsCombined ==
  \A c \in acked :
    (/\ handler[c] = "closed" /\ job[c] = "done" /\ movie[c].used # {}
     /\ \A b \in Calls : b > c => client[b].state = "new") =>
      /\ SoundFiles \subseteq movie[c].used
      /\ movie[c] = Combined(disk, movie[c].used, movie[c].offset)
      /\ film.of = c => DOMAIN film.groups \subseteq Written \cup film.lost
      /\ film.of = c /\ disk.meta.of = c /\ film.groups # <<>> /\ "video" \in movie[c].used =>
           movie[c].offset = film.groups[1][1].at

(* Close of the record client returns, whatever becomes of the recorder: the *)
(* teardown of the call, which waits for it, comes to an end.                *)
CloseReturns == \A c \in Calls : client[c].state = "closing" ~> client[c].state = "closed"

(* RECORDER.md: "three append-only files per session": what a call recorded  *)
(* stays in the sound files of the session.                                  *)
FilesOnlyGrow == [][IsPrefix(disk.user, disk'.user) /\ IsPrefix(disk.agent, disk'.agent)]_vars
=============================================================================
