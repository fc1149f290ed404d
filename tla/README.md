# Formal models of the video KYC system

TLA+ modules, TLC configurations and TLAPS proofs for the consent call of this
repository: a *brain* that holds the dialogue, a *gateway* that holds the media of a
call, a *recorder* that keeps it, and the browser.  Paths below are relative to the
root of the repository.

## 1. The system

| component | source | state | operations | interacts with |
|---|---|---|---|---|
| verification flow | `brain/app/services/state_machine.py` | `state`, `attempts`, `has_alt_mobile` | `step(intent)` | called by the turn service; its state is overwritten by `/end` |
| session routes, turn service, session store | `brain/app/routes/sessions.py`, `services/turn_service.py`, `services/session_manager.py` | `Session`: turn number, texts by turn, transcript, events, `ended_at`, recording status | `/start`, `/turn`, GET, `/end` | intent service (await), storage (await), gateway `/close` (await), recorder `/status` (await) |
| transcript files | `brain/app/storage/*.py` | two files per session, on disk and in S3 | `finalize_call`, `write` | called by `/end` |
| phrases, languages, speech plan | `brain/app/services/{phrase_builder,language_processor,tts_plan}.py`, `i18n/` | the phrases of a session, resolved once | conversion of the customer's data (await), number words, dates, declaration, speech plan | used at `/start` and in answers |
| intent service | `intent/`, `brain/app/pipeline/intent_client.py` | encoder and three voters, loaded once; the encoder's directory on disk | `warmup`, `classify`: lazy load, ensemble vote | HTTP from the brain, a thread per request |
| call registry and teardown | `internal/gateway/call/call.go`, `cmd/gateway/main.go` | map id -> `Call`; per call peer, recorder stream, control socket, ctx, `loopDone`, `once` | `/offer`, `/control`, `/close`, `Close`, `End` | everything in the gateway |
| control socket | `internal/gateway/control/` | WebSocket, inbox of 8 | read, send events, send audio | browser, turn loop, recorder tee |
| turn loop | `internal/gateway/turnloop/` | none of its own | greet, listen, ask the brain, speak | control socket, peer's listening window, STT, TTS, brain |
| STT and TTS clients | `internal/gateway/{stt,tts}/` | `MicBuffer` (400 frames), one socket per turn | `Run`, `Speak` | Sarvam, ElevenLabs |
| peer, H264 assembler, resamplers | `internal/gateway/{peer,audio}/` | connection state, read goroutines, listening window, access unit under assembly | `Reoffer`, `SetMic`, `Close`, readers | browser media, record client |
| record client | `internal/gateway/recordclient/`, `session/` | queue of 512 frames, clock origin per kind | `Send`, `SendAt`, `Close`, `Finalize` | recorder gRPC and HTTP |
| recorder stream, video writer | `internal/recorder/{server,session,videowriter}.go` | PCM files placed by time, fragmented MP4, meta | `RecordStream`, `write`, `close` | record client |
| recorder finalize | `internal/recorder/{finalize,httpapi,s3}.go` | status by id, in memory | `/finalize`, `/status`, combine, upload | record client, brain GET |
| browser | `web/index.html` | signals for `agent_done` and `final`, its own status | offer, start_turn, end, ICE restart, `/end` | brain and gateway |

Hard behaviours.  The brain is one asyncio process: handlers interleave at their
awaits.  The gateway runs a goroutine per handler, per turn loop, per track, per
callback; its teardown must stop every producer of recorder frames before it closes
their channel, while sockets attach, peers fail and `/close` arrives.  The recorder
finalizes files that a stream may still be writing.  The repository's own statement of
the fault model is "the call degrades, it never breaks": requests fail, queues drop,
sockets vanish.

What makes each component correct:

* *flow*: the points of the script are confirmed in order and none is skipped; one
  verdict, recorded once; misses are counted, so a call ends.
* *session*: overlapping requests are as good as some sequence of them; a decided call
  stays decided; files and snapshots tell one story.
* *call*: nothing is sent to a closed recorder stream; a disconnect leads to a complete
  teardown; the microphone is open in turns only; nobody waits for ever.
* *microphone*: no frame is pushed to a closed buffer and none is closed twice;
  backpressure costs the oldest speech only; the recognizer flushes after the last frame.
* *turn loop and browser*: page and loop stay in step over signals that carry no turn
  number; the microphone is never open while the agent is audible; what is asked was
  heard in that turn; a lost answer leaves nobody waiting.
* *start*: the customer hears the policy that was written, each number in the right
  place, whether or not a conversion failed; what is said is what the transcript keeps.
* *intent*: a yes or a no is the vote of the loaded ensemble on that turn and nothing
  else; every question of the brain is answered in time.
* *recorder*: sound is placed by one clock; what is on the disk can be played whenever
  the process dies, and lacks what could not be written and no more; what was
  acknowledged is combined from finished files; closing never waits for ever.

`PROJECT.json` lists every component with its status and every hazard with its line.

## 2. Modules

| module | models | how state and actions correspond |
|---|---|---|
| `Consent` | the abstract promise of a call | points `required` and `confirmed`, one `verdict` |
| `ConsentFlow` | `ConsentVerificationFlow`, events | one disjunct of `Step` per return of `step()`; `ForceFailed` is the assignment of `/end` |
| `BrainSession` | `/turn`, `/end`, GET over one session | extends `ConsentFlow`; one action per piece of a handler between suspensions |
| `GatewayCall` | registry, offer, control, loop, peer, teardown | one program counter per goroutine; `stage[c]` is the position of `Call.Close` |
| `MicBuffer` | one turn's microphone: audio reader, `MicBuffer`, writer, `listen()` | `Push` is its three selects; `micMu` is held when `push` is not `"idle"` |
| `Conversation` | the abstract promise of a spoken conversation | turns `opened`, `taken` up and `closed`, whose `stage` it is, `answers` on their way; `TurnLoop` maps `opened` to `asked`, `taken` to `turn`, and the rest to `Closed`, `Stage`, `Audible` and `Answers` |
| `TurnLoop` | one conversation: page, control socket, loop, recognizer streams | one action per message the page handles and per step of the loop between its blocking calls |
| `SpokenText`, `EnglishPack`, `HindiPack` | number words, dates, contacts, frequencies, declaration and phrases of the two packs | operators on texts; the listener's side (`Heard`, `Amount`, `DateMeaning`) knows nothing of how the packs choose words |
| `TtsPlan` | `build_tts_plan`, `strip_var_markup` | operators on a phrase split into plain and slow parts |
| `SessionStart` | `POST /start` to the created session | extends the four above; `StartConversion` and `Gathered` are the two sides of the `gather`, any set of its calls may fail, and each number of a converted address comes back in one of `Manners` |
| `IntentService` | the service's process and the brain's client of it | one action per step of `_ensure_loaded` and of the vote, per thread; `Timeout` is the client's, `Restart` kills the process, `disk` survives it |
| `Recorder` | record client, stream handler, mux goroutine, files, finalize job | one action per frame, per stage of the stream's end and per stage of `combine`; any write to the disk may be the one that fails (`Fault`); `Crash` kills all but the files and the gateway |
| `MC...` | TLC instances | constants, symmetry, and the requests of `/start` |
| `BrainSessionProofs` (flow and session), `GatewayCallProofs`, `MicBufferProofs`, `IntentServiceProofs`, `TurnLoopProofs`, `RecorderProofs`, `SessionStartProofs` | theorems | see section 5 |
| `SequenceLemmas` | facts about sequences that the proofs share | queues (`TailItems`, `AppendItems`), prefixes, `FlattenSeq` of an appended sequence, induction over numbers and sequences, `Expand` |

The three gateway modules look at one call from three distances.  `GatewayCall` has all
goroutines of a call but nothing of a turn; `TurnLoop` has the turns and takes the
teardown as one step (`Cancel`, then the socket drops); `MicBuffer` has the inside of
one `listen()`.  They share no variables and are not composed yet (section 6).  `Recorder`
starts where `GatewayCall` ends: its `CloseStream`, `CloseReturned` and `Finalize` are
the last three steps of the teardown, seen with what the other side makes of them.

Operators whose comment says *Faulty variant* are not part of any specification.  Each
is a definition with one plausible bug; putting it in the place of the definition that
follows makes TLC report the property that `PROJECT.json` names for it.

Abstractions.  A text is the state whose phrase it is.  An intent is an element of
`Intents`.  The transcript is its length, since entries are only appended; the events
are kept in full.  `stored` is what the last completed upload of each transcript file
left in the bucket; with local storage the writes do not suspend, which is the case in
which the upload steps follow at once.  In `GatewayCall` the content of a turn is left
out: a loop is *able to speak* from the time its bootstrap request is sent until it
exits, and a message in the inbox is a `start_turn` or an `end`.  What `listen()` does to
the microphone is kept, step by step: the window is opened (`"opening"`), END_SPEECH
closes it while `Run` waits for the final (`"flushing"`), `Run` returns from before or
after that (`"closing"`), and the window is closed on every path.  A re-offer of a known
session changes none of the variables and has no action.  In `MicBuffer` a frame is its
number.  In `TurnLoop` a final is the number of the turn it answers and a transcript is
the number of the stream it was heard on, which is what the properties tell apart;
START_SPEECH, which changes an indicator only, is left out, and END_SPEECH comes at most
once a stream (`MicBuffer` and section 4 show what depends on that).

The reports that `/end` writes hold the outcome and the number of events.  In the start
modules a text is a sequence of tokens, a digit, a sign, a number word or a piece of
wording each; the templates keep their placeholders and `<var>` spans and lose their
words.  A conversion by the language model replaces a word by the same word in the other
script.  Of an address its prompt (`language_processor.py:78-80`) asks for more, numbers in
words and the pincode digit by digit: which number is the pincode is for the model to tell,
and it may also leave a number or write it in digits of the script, so each number comes
back in any of these four ways (`SayNumber`); a number in words counts as one word.
Otherwise the model is taken to do what the prompt asks, or to fail: what it could
make up instead has no bounds.  In
`IntentService` a trained model is any label for each voter.  In `Recorder` time is in
units of sound, a frame of the agent is two units long, a fragment is its number and its
access units, and a video file is its init segment and its fragments, each whole or
*torn* by a write that failed; a demuxer reads as far as the first torn one.  Sound of a
failed write is cut between units and not inside a sample; `ts_us`, boxes and durations
are left out.  `ffmpeg` is external: it fails, or combines what it is given as its
arguments in `finalize.go` say, delaying the video by the offset and ending with the
shortest track (`amerge`, `-shortest`); an access unit lasts one unit of time.
An earlier stream of the same id has ended in the recorder before the next call starts.

Assumptions about what lies outside `src/`:

* a peer does not reach a terminal state, and delivers no track, before its answer has
  been registered (gathering is over long before ICE can fail);
* a peer that was closed delivers no track any more, and its reads fail;
* a read may or may not fail once the connection has failed.

## 3. Runs

| run | instance | shows |
|---|---|---|
| `flow` | whole script, 2 attempts | outcome and steps recorded once; implements `Consent`; decided if turns go on |
| `brain` | 2 turns, 2 ends, 1 GET | terminal is final; ended is terminal; a GET answers from one moment; quiet text is current; no stored file tells another outcome or lacks events, whatever upload comes last; implements `Consent` |
| `start` | both languages: 99 amounts, 30 schedules, contacts, dates, digits of another script, every set of failed conversions, an address with three numbers, each converted in every way | the declaration tells the policy; the questions ask for the customer's own data; plan and transcript say the same |
| `start_paise` | amounts with a decimal point | finding 1 |
| `intent` | 2 turns and the warmup, 1 kill | a yes or no is a vote of the whole ensemble; warm turns do not pay for a load; every question is answered |
| `intent_half_loaded` | the same | finding 2 |
| `gateway` | 1 call, 2 sockets (the second after a refused upgrade of the first), 2 close requests | no producer is left when the stream closes; the microphone is open for a loop in `listen()` before END_SPEECH and for nobody else, on every path out of the turn; under fairness every disconnect ends in a finished teardown, and every `End` returns |
| `mic_buffer` | capacity 2, 5 frames | no panic of a channel; what is kept is the most recent and every frame is counted; a flush is complete; `listen()` returns though the writer is stuck |
| `turn_loop` | 2 turns, 1 chunk of audio each | implements `Conversation`: page and loop stay in step; deaf to the agent; own transcript; under fairness the page does not hang on a good socket and a dropped one ends the loop |
| `turn_loop_brain` | the same | finding 3 |
| `recorder` | 1 call of 3 frames, 1 failed write, 1 kill | sound on the call clock; at every moment a video of whole groups, which lacks the one under assembly and those whose write failed; an acknowledged call combined from finished files; `Close` returns |
| `recorder_second_call` | 2 calls of 2 frames under one id | finding 4 |

Bounds, and why they are enough:

* `MAX_ATTEMPTS = 2` (3 in the code): one retry and one last miss per question are both
  reached; a third attempt repeats the retry.  The proofs hold for every value.
* `MaxTurns = 12` turns, the number it takes to complete the longest script;
  `MaxMissed = 1` question may be missed in a behaviour of the session runs, since
  `flow` already mixes misses over the script.
* Two turns, two ends and one GET under way: each hazard is between two requests.
* The amounts of `start`: every boundary of the number words (below ten, teens, tens,
  hundreds, thousands, lakhs, crores, and the recursion on crores), each with and
  without zero groups, up to 2147483647, and sixty numbers in between; four ways to
  write an amount.  One request at a time: sessions share nothing.
* Two request threads and the warmup: a load that is alone, one that another has begun,
  and one that another has finished.  One kill reaches every stage of a load.
* One call in `gateway`: the theorems of section 5 hold for any number of calls.  Two
  close requests: one is in the teardown and one waits for it.
* `InboxSize = 1` (8 in the code): full and empty are both reached, and a message is
  dropped on a full inbox.
* `Capacity = 2`, `MaxFrames = 5` (400 and unbounded in the code): the buffer is full
  with frames before and after, so that every select of `Push` meets a writer that has
  or has not taken a frame in between.  The proofs hold for every value.
* `MaxTurns = 2` in `turn_loop`: what one turn may leave behind for the next.  Three
  turns were checked as well (896 thousand states) and show nothing else.
* `MaxFrames = 3` in `recorder`, of four kinds, up to 1 unit apart (`MaxGap = 1`), with a
  queue of 2 and a mux channel of 1 (512 and 256 in the code): frames that are early, on
  time and overtaken, both buffers full, a fragment closed and one open.
* `MaxFaults = 1`: each write to the disk is the one that fails, the init segment, a
  fragment, the last one, sound and `meta.json` among them; the proofs hold for any number.
* `MaxCrashes = 1`: at every step of the recorder.
* `recorder_second_call` has no failed write and no kill: finding 4 needs neither.
* `MaxChunks = 1`: audio is streamed, on its way, or playing; a second chunk is in the
  same places.

Fairness.  `flow` assumes that the gateway posts a next transcript while the status it
got is active (`turnloop.Run`).  `gateway` assumes that started goroutines
go on.  Of a turn loop it assumes so only once the ctx is cancelled: the brain client
has no timeout, so before that a loop may wait for ever.  It assumes that the recorder
answers or its connection breaks; the code sets no deadline there, and without this
assumption the properties fail.  Nothing is assumed of the browser and of `/close`.
`mic_buffer` assumes that the reader leaves `Push`, that `listen()` goes on, and that
`Run` returns, which its deadline sees to; the writer may be stuck for ever.  `turn_loop`
assumes that page, control reader and loop go on (listening and speaking end by their
deadlines; that the brain answers or its connection breaks is again an assumption about
the outside) and that a cancelled call closes its socket.  Nothing is assumed of the
recognizer, the user or the network.

`intent` assumes the client's timeout alone: a load or a download may hang for ever.
`EveryTurnAnswered` therefore rests on that timeout (`intent_client.py:73`) and on little
else; it says that no path of the service takes a turn to where the timeout does not reach.
`recorder` assumes that the sender, `Close`, the stream handler and the mux goroutine run
while they have work; a killed recorder need not come back, and a stream need not break.

Deadlock is checked in the runs of the flow, the session and the call: requests may
always be made again, or are answered without effect, so no state is without a step.
It is not in the others, where a turn, a conversation, a start or a recording comes to
its end; `ListenReturns`, `PageNeverHangs`, `LoopUnwinds`, `EveryTurnAnswered` and
`CloseReturns` say that nobody is left behind.

## 4. Findings

1. *Paise* (`i18n/english.py:251`).  The words of a number are made from its digits
   after every other sign was dropped, the decimal point too: 25000.50 is read out as
   twenty-five lakh and fifty.
2. *Half loaded for ever* (`intent/classifier.py:47`).  Whether the ensemble is loaded is
   asked of the encoder, which is set first.  A load that fails after that is not taken
   up again, and every turn of every call is `please_repeat` until a restart, though
   `intent/service.py:46` announces a lazy load.
3. *Brain unavailable* (`web/index.html`, `docs/GATEWAY.md:95-97`).  The gateway sends
   an error and an `agent_done` so that the call may continue.  The page treats any
   error during a turn as the end of the session and posts `/end`.
4. *Second call* (`recorder/session.go:39`).  A call that an offer starts under an id
   whose first call is over opens the session's files with `os.Create` and truncates
   what the first one recorded; `docs/RECORDER.md:13` calls the files append-only.

Some statements hold under an assumption that the code does not enforce.  They are no
findings, since no text of the repository claims them, but they show what the
properties above rest on; the definitions are there to be checked again:

* *One control socket at a time* (`call.go:51-56`, `105-109`).  A second one that is open
  with the first replaces `conn`, `sink` and `loopDone`; the teardown then waits for
  one loop and may close the recorder channel under the other.  With
  `BrowserKeepsOneSocket = FALSE` and two sockets `NoProducerLeft` fails.  The page opens
  one socket per call.
* *Registered until done* (`call.go:163-168`).  `Close` closes the peer, whose callback
  starts a second `End`; its `Remove` may come after a new call has been registered
  under the id, and takes that call out of the map.  With two calls `RegisteredUntilDone`
  and `DisconnectTearsDown` fail.  It needs a goroutine that is delayed for as long as
  an offer takes.
* *One END_SPEECH a turn* (`turnloop.go:126-131`, `stt.go:90-91`).  `listen()` calls
  `CloseInput` at every END_SPEECH, and `CloseInput` closes the channel without asking
  whether it is closed.  `Run` emits any number of vad events ("zero+").  With
  `EndSpeechOnce = FALSE` `NoPanic` fails.
* *One turn at a time* (`sessions.py:117`).  The number of a turn is read again after the
  await of the intent, so two overlapping turns are recorded under the later number:
  `OwnTurnNumber` fails with two turns.  The gateway posts one at a time.
* *Whole writes* (`recorder/session.go:92`).  Silence that a failed write left in the
  file is not counted by the cursor, and all later sound is late by it.  With
  `ShortWrites = TRUE` `CallAligned` fails.

One text is contradicted by the ffmpeg command and has no run of its own.
`docs/RECORDER.md:42-43` asks to pad the shorter of the two sound tracks with silence.
`finalize.go:108` merges them with `amerge`, which ends with the shorter one, and
`-shortest` (130-132) ends the movie with the shortest of sound and video; the agent's
track ends with his last word, so what the user says and shows after it is not in
`full_call.mp4`, and the status is `complete` all the same.  What ffmpeg makes of its
arguments is outside this repository; `Combined` models it as its documentation
describes it, and `AckedIsCombined` says what the movie then is, cut and not padded.

The recorder logs a failed write and goes on (`videowriter.go:188-192`, `session.go:115-118`).
A group of pictures may so be missing in the middle of a video, and a torn fragment may
make all that follows it unreadable; a `meta.json` that could not be written leaves the
offset of an earlier call of the id, or none.  The properties allow for both by name
(`film.lost`, `disk.meta.of`), and demand the rest.

Two more hangs of the page are listed as hazards and excluded in `PageNeverHangs`: a
bootstrap that failed (the page keeps waiting for a greeting) and a socket that dropped
(the page has no handler for its close).

## 5. Proofs

All theorems hold for every value of the constants.

*Flow.*  `FlowTypeCorrect` needs more than `FlowTypeOK`: that no open question has
reached the limit (`AttemptsOpen`), otherwise a count could pass `MAX_ATTEMPTS`.
`FlowKeepsPromise` maps every step to a step of `Consent` or a stutter.  Its invariant
says, for each state, which points are confirmed; that the next point of the script is
the one the state asks for follows from it.  `FlowRecordsOutcome` and
`FlowReportsStepsOnce` share `RecordInv`: the record of an open call holds no outcome,
and the steps it reports lie before the point the state asks for, so that the step that
is reported next is a new one.

*Session.*  `SessionImplementsFlow` shows that every step of a handler is a step of the
flow or leaves it alone, so `SessionKeepsPromise` follows from the theorem about the
flow.  `EndedStaysTerminal`, `SessionSettles` and `SnapshotsAreConsistent` rest on
`SettledInv`: once `ended` is set the state is
terminal, the reports that were formatted carry it, and what a waiting GET has seen is
still true.  `TerminalStaysFinal` and `SessionTextIsCurrent` are shown directly.

*Call.*  `TeardownLeavesNoProducer` and `WindowFollowsTurn` assume
`BrowserKeepsOneSocket`; section 4 shows that they are false without it.
`NoProducerLeft` is not inductive, since nothing in it says why a loop that starts late
cannot speak.  `LoopInv` does: a loop that may speak sent its bootstrap request before
the ctx was cancelled, when its done channel was in place, so the teardown, which
cancels before it reads the channel, has found that channel and waits for it.
`SocketInv` (one socket per call) makes the channel it finds the one of that loop,
`FoundInv` and `OffersInv` keep calls that are being created apart from those that are
found, and `ReadersInv` orders the closing of the peer, its readers and the stream.
`WindowFollowsTurn` follows each path through `listen()`: whoever holds the window is
between its two ends, and a loop that has left by END_SPEECH, by the deadline or by the
cancelled ctx holds none.  That no window outlives the teardown's wait takes the same
invariant as `NoProducerLeft`: a loop that listens is one the teardown waits for.

*Microphone.*  `BufferNeverPanics`, `OnlyOldestDropped` and `FlushFollowsSpeech` assume
`EndSpeechOnce`; section 4 shows why.  `NoPanic` is not inductive: that no push is under
way when the buffer is closed follows from `BarrierInv`, which says that from the
`SetMic(nil)` on the window is shut and the reader idle.  `OnlyOldestDropped` needs
`NewestKept` (a retry finds the slot it freed, since there is one producer),
and `FlushFollowsSpeech` needs that every frame is accounted for.

*Intent.*  `OnlyVotesDecide` is inductive with the types: a thread that has voted takes
no further step, and a restart, which forgets the votes, forgets the threads too.
`WinnerIsMajority` shows that the vote (`CHOOSE` of a label with two votes, else the
SVM's) is the SVM's label unless the other two agree.  `WarmTurnsVote` needs that a
loaded ensemble stays loaded (`WarmInv`).

*Turn loop.*  Page and loop exchange signals that carry no turn number, so nothing but
their order keeps them in step.  `TurnInv` says that there is one token: a start_turn on
its way up, the turn in the loop, the final and the agent_done on their way down, and
the page again.  Its parts say for each place of the token what the other places may
hold (`UpOK`, `LoopOK`, `DownOK`, `PageOK`); a broken socket loses the token for good, so
that a lost message leaves them true.  `AnswersMatch` and `MicDeafToAgent` are not
inductive: they say what holds when a message arrives, and not why no older one can be
ahead of it.  `MicHearsUserOnly`, `StartTurnFindsLoopWaiting` and `PageAndLoopInStep`
follow from `TurnInv` for any number of turns, chunks of audio and places in the inbox.
`TurnAsksWhatItHeard` has an invariant of its own (`HeardInv`): every event that waits in
the stream of a turn was made on that stream.

`PageAndLoopTakeTurns` says that the two implement `Conversation`: a turn is opened when
nothing of the earlier ones is under way or to be heard, taken up at most once, and
closed by the answer that was given for it, or given up.  Each step of page and loop is
one step of `Conversation` or none; a socket that drops is `Lose`, whatever it carried.
Besides `TurnInv` the mapping needs `QuietInv`: while a turn that the page has opened is
not taken up, the page waits, the loop is idle, and nothing is to be heard.
`TakesTurns` contains `AnswersMatch`, which is therefore no property of the run of its
own; `PageAndLoopInStep` still states it.

*Start.*  `StartInv` is what an answered start has in common with all others: its session
and its declaration were made from *one* form of its *own* request, which is the request
as written, converted by any set of the calls to the model, or converted into digits the
pack cannot spell (such a start is refused).  Which of the conversions succeeded
does not matter after that, and the three theorems are about the operators alone.

* `PlanIsTranscript`: `BuildTtsPlan`, `StripVarMarkup` and the listener each replace the
  parts of a text one by one (`Expand`), so what holds of every part holds of every text.
  The first attempt failed for a reason: `Segments` was a `CASE` in which a slow part that
  is empty satisfied two arms, and TLA+ leaves open which one is taken; the code drops
  empty parts first (`tts_plan.py:55-57`), and so does the definition now.
* `QuestionsOfCustomer`: a spelling is a function of every token, so that the digits of
  the spelled text are the words of the digits of the written one, at the same places.
  The address is heard (`AddressMeaning`: its places in order, and the number between
  two of them, which leaves leading zeros aside) as it was written, whichever of its
  numbers the conversion put into words, spelled, left or wrote in the other script;
  `ConvertedHeard` follows the conversion word by word, with the number that it has
  not yet said as part of the state.  No digit is left to the voice, and an address
  that needs no conversion is said digit by digit.
* `PolicyIsTold`: the declaration tells each field in a clause of its own (`ClausesTell`),
  an amount is heard as it was written (`AmountSaid`) and so is a date (`DateSaid`).
  It rests on `EnNumberHeard` and `HiNumberHeard`, the round trip of `number_to_words` for
  *every* natural number.  The recursion of `IndianNumber` is shown to define a function
  (`NumberBuilds`); the listener is a state (a total and a part) that words change, and
  `Tells(s, x, y)` says that a text takes him from one state to another.  The words of a
  group tell their units, so those of a number do if those of its crores do
  (`BodyHeard`), and strong induction goes from the crores to the number.
  A date in Hindi is heard as written because the listener's notes of the words and of
  the tokens agree before every token (`Agree`), as long as no two numbers touch.

`PolicyIsTold` assumes that every request is `Tellable`: a frequency of the table, dates
whose numbers are separated by a month or a comma, and no decimal point (nor, in English,
letters of another script) in a number.  With a point it is false (finding 1); an unknown
frequency is repeated as it was written in English and left out, together with the years,
in Hindi; and a date like 5 2024 is said in Hindi as what is heard as one number.
`TellableRequests` in `MCSessionStart` says, and TLC evaluates, that all requests of the
run `start` are tellable and none of `start_paise` is.  The other two theorems have no
such assumption.  All three take requests to hold ASCII digits in their numbers and dates
(`RequestsAssumption`); names, addresses and telephone numbers may hold any.

*Recorder.*  All streams of an id share the files, so nothing could be said of them
without `OneAtATime`: when a call has begun the calls before it are over and no handler
of theirs is active.  It rests on the assumption at the end of section 2; and the
earlier call's files are lost all the same (finding 4).  On it stand three invariants.

* `SoundInv`, for `SoundOnCallClock`: the queue is in call time, the cursor of each kind
  is the length of its file, and a file ends in sound.  The cursor is what a short write
  breaks, so the theorem assumes `ShortWrites = FALSE`; section 4 shows that it is false
  otherwise.
* `VideoInv`, for `VideoAlwaysPlayable`: what the mux holds, the open fragment and the
  access unit whose duration is not known yet, is one group of pictures, and each group
  before it was written or lost to a failed write.  A kill then costs a group and no more.
* `AckedInv`, for `AckMeansWhole`: after the Ack of the last call the file lacks nothing
  but what could not be written, `meta.json`, if it is of this call, tells where the
  video starts, and nobody changes either while the finalize job looks at them and
  combines.

The first attempt at `AckMeansWhole` failed for a reason: a second call that sends no
frame is acknowledged before the handler opens a file (`server.go` returns at the end of
an empty stream), and its finalize combines what an earlier call of the id left, which
a kill may have cut.  `AckedIsCombined` therefore speaks of calls whose stream brought a
frame; the model tells the two apart by the handler's `"unused"` and `"closed"`.

`SequenceLemmas` holds what these proofs need of sequences.  What a fold computes takes
induction over the sequence, and the library's theorems for that take an operator;
`SetInduction`, `StrongInduction` and `SeqInduction` state induction for a set (the numbers,
or the sequences, of which the property holds), which the provers can instantiate, and
`FlattenAppend`, `FlattenType` and the facts about `Expand` are derived from them.  For the
same reason the folds of the start modules (`Scan`) take their step as a function and not
as an operator: a lemma can then speak of any.

Only model-checked is everything under fairness (`Decided`, `DisconnectTearsDown`,
`EndReturns`, `ListenReturns`, `PageNeverHangs`, `LoopUnwinds`, `EveryTurnAnswered`,
`CloseReturns`), which the prover does not treat.  Every invariant of a run is a theorem.

## 6. Not modelled, and the plan

Not modelled: wording, transliteration and layout; the trained models; SDP, codecs and
the ffmpeg command; the resamplers; the assembly of H264 access units from packets; the
duration of video samples (`ts_us`); the upload of a recording to S3; the polling of the
recording status; the legacy browser transport, which has no server here; generated
code, configuration and tools; the loss of all sessions when the brain restarts.

Planned, in this order:

1. A composition of the end of a session: the page's `/end`, the brain, `/close`, the
   teardown, the finalize job, and a GET that polls until the recording is settled.
2. The access units of the H264 assembler under packet loss, the resamplers' carried
   phase, and `ts_us`.
