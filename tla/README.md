# Musetric in TLA+

Musetric takes a song apart: a server (Rust, `packages/server`) stores projects,
drives processing steps on a GPU executor that runs in a browser, and serves the
results to a frontend (TypeScript) with a player, a recorder and shared rooms.
These modules model the parts whose correctness depends on the order of steps of
several actors. Of the server: the processing queue, the checkpoints of a step
that is stopped and resumed, the uploads of a step's units, the host of the
browser that computes them, the cache of the models it computes with, and the
store of blobs with its collector. Of the
browser, with the server at the other end where there is one: a take on its way
to the server, the recorder and its microphone, the audio thread while it
records, the tries of a loop, the player a room shares, the recordings a page
shows, the gestures of a view, the pacer of the GPU, and the microphone that a
page and the app it runs in share among those who open it.

## Inventory

Paths are under `packages/server` unless they say otherwise.

| Component | State it keeps | Operations | Interacts with | What is hard | What makes it correct |
| --- | --- | --- | --- | --- | --- |
| Processing queue (`crates/jobs`) | parked steps, cancelled projects, `wake` and `cancel` permits, the running step | drain, start, execute, park, settle, rest; wake, pause_changed, cancel_project | rows of the database, step runners, HTTP handlers | signals before anyone waits, merged signals, a dropped runner's commit, crash between result and status, lost wakes | one row processed at a time; no stop signal and no wake lost; a done step has its result; every claimed step settles |
| Processing rows (`crates/db/src/processing.rs`) | status, attempt, checkpoint cursor of each step | create, compare-and-set of the status, bind, commit, abandon | queue, runners | late writes of dropped runners | claims exclude each other; commits are fenced by the attempt |
| Step runner (`src/analysis/stage_attempt.rs`, `checkpoint_persist.rs`, `src/unit_fold.rs`, `unit_plan.rs`, `checkpoint.rs`) | the fold, prefix and tail files | resume, bind, fold, persist, publish, close | row, files, executor | dropped at any await, stopped between any two file operations, another release | a resumed fold is that of an uninterrupted run |
| Blob store (`src/publish.rs`, `garbage.rs`, `blobs.rs`, `storage.rs`) | files, references, publication lock | stage, publish, collect | handlers, runners, database | collector against publication, dropped publication | no referenced blob is deleted; orphans are |
| Executor host (`crates/gpu`) | connections, leader, session, answers, active job | attach, ready, detach, open, send_job, answers, unit transport | runners, browser | three locks taken one by one, stale messages, replaced leaders | every job is answered or fails; one job runs at a time; the lead moves on |
| Unit sessions (`src/analysis/stage_units.rs`, `transcribe_units.rs`) | accepted and folded units | window, target, completed, opened, done | executor's HTTP requests, runner | duplicate and concurrent outputs | each unit is folded once, its fold is announced |
| Transcription runner (`src/analysis/transcribe.rs`) | pass, state, checkpoint | decode, repair, restore | unit session, row | two passes, resume in either | the result of both passes from any checkpoint |
| Rooms (`src/realtime`) | members, player, take, session owner | join, leave, claim, seek, begin/save/end session | recordings, decoder workers | members that leave in between, echoed revisions, refusals | one session at a time; one master; a take holds its own packets |
| Recordings (`src/recording`) | pieces, layers, peaks | commit_take, undo, redo, switch | rooms, blob store | read before, publish after; announcements that overtake | undo and redo restore; every page learns of the last change |
| Model cache (`crates/gpu/src/cache.rs`) | file, partial file, manifest | ensure, download, resume | runners | crash between rename and manifest, a changed release | a model in use is a verified one |
| Realtime client (`packages/engine/src/decoder`) | socket, held sends, streams, list and pieces of the recordings | start, chunk, flush, finish, events, reload | main thread, audio thread, rooms | a socket that closes or is refused while packets wait; events against HTTP answers | each packet in its take; the page shows what there is |
| Player and recorder (`packages/engine/src/player`) | store, session, waiters, tries; on the audio thread the position and the take | play, stop, seek, record, finish, loop; quanta | decoder worker, devices, room | a stop while the microphone opens, echoes, latencies | the microphone is let go; a sample lands where it was sung |
| Audio session (`packages/engine/src/audioSession`, `calibration/preview.ts`; the Android bridge and the iOS plugin of `packages/app`) | microphones that are open or opening, the native capture, the denial | open, close, recheck, preview, start, stop | player, settings, the permission of the system | an opening that is stale when it ends, a stop that crosses a start, one capture for all | who has a microphone hears; the last to leave stops the capture |
| Gestures (`packages/interaction`) | pointers, mode, frozen | down, move, up, wheel, inertia, abort | views, player | pointers and inertia that meet | the view is let go |
| GPU pacer (`packages/ai/src/runtime/gpuPacer.ts`) | held pieces, fence, run | enqueue, run, fail, release | model runtimes, device | a device that is lost while somebody waits | order of the work; every wait ends |
| Routes, media, stretch, start-up | none, or options | parsing, coding | all of them | nothing that TLC reaches | tests |
| Numerical kernels (`fft`, `cqt`, `spectrogram`, most of `ai`), views, `api`, `audio`, `utils`, `spa-router`, `app`, tools | buffers, views, shells | | | arithmetic and layout | tests |

`PROJECT.json` lists each with its files, and under `hazards` the places where the
code is hard to test, with the property that watches each of them or the reason
why none does.

## Modules

| Module | What it is |
| --- | --- |
| `JobQueue` | the queue, the handlers that write and then signal, the runner as the queue sees it, crash and restart |
| `StepLifecycle` | what the queue promises of the rows; `JobQueue` implements it (`LifecycleSpec`) |
| `JobQueueProofs` | proofs of the safety properties and of the refinement |
| `StageCheckpoint` | a row's cursor, its files and the runner that resumes, folds, persists and publishes |
| `DurableFold` | what checkpoints promise; `StageCheckpoint` implements it (`DurableSpec`) |
| `MCStageCheckpoint` | the unit plan of the runs |
| `BlobStore` | publications, transactions handed to the blocking pool, and the collector |
| `StageUnits` | how one attempt's units come back: the runner, the page's uploads, overlapping handlers, and the fold |
| `StageProofs` | proofs of the safety properties of `StageCheckpoint` and `StageUnits`, and of the refinement |
| `ExecutorHost` | the host's connections, leader, sessions and jobs, and the pages at the other end |
| `ExecutorHostProofs` | proofs of its safety properties |
| `TakeWire` | the stream of a take: main thread, port, decoder worker, socket, the room's session |
| `TakeWireProofs` | proofs of its safety properties |
| `TakeRecorder` | the main thread's player and recorder, the microphone, the answers of the audio thread |
| `HeardTake` | the audio thread, quantum by quantum: what is rendered, what is heard, where a sample is written |
| `HeardTakeProofs` | proofs of `SungWhereHeard` and `TakeKept` |
| `LoopTries` | the tries of a loop in the player and in the decoder worker |
| `PlayRoom` | the player of a room, its members' pages and decoder workers |
| `RecordingShelf` | the recordings of a project, their announcements, and the page that shows one |
| `ViewportGesture` | pointers, inertia and wheel of a view |
| `GpuPacer` | the pacer of the model runtimes |
| `PageProofs` | proofs of `WorkInOrder`, `FreezeReleased`, `TriesAgree` and `ShelfAgrees` |
| `MicrophoneShare` | those who open microphones, the audio sessions of Android, iOS and the web, and the native capture |
| `MicrophoneProofs` | proofs of `MicrophoneHeld`, `MicrophonesShared` and `SlavesFollow` |
| `ModelCache` | a model's file, its manifest and its partial file, and the runner that asks for it |
| `FileProofs` | `BlobStore`: proofs of type correctness and of `ReferencedKept`; `ModelCache`: of `CopyVerified` and `DownloadRecovers` |
| `MCBrowser` | the nine modules of the browser, and `ModelCache`, side by side |

The modules meet in what each takes of the other: `JobQueue` sees a runner that
reports, commits and answers; `StageCheckpoint` follows one such runner and takes
of the queue its claim, its settling write and the drop of the runner; a
`CommitSave` of the one and a `Publish` of the other are a publication of
`BlobStore`. `StageUnits` opens up what is one `FoldUnit` of `StageCheckpoint`, and
`ExecutorHost` what is "no answer" or "lost" for both.

Of the browser, `TakeRecorder` is the main thread between a command and the answers
of the others: what it takes as one answer of the audio thread is what `HeardTake`
does quantum by quantum, and what it takes as one answer of the decoder worker
("finished", or a failure) is what `TakeWire` and `LoopTries` open up. `PlayRoom`
and `TakeWire` are two users of one socket and one lock of the server's rooms;
`RecordingShelf` is a third, with the database and the HTTP routes beside it.
`TakeRecorder` opens and closes its microphone as a take of `MicrophoneShare` does.
`MCBrowser` composes these and `ModelCache` as a sum: the first state chooses one of them and
only that one moves, since they share no variable and their product would show
nothing a sum does not.

### JobQueue

`pc` is where the worker stands in `work`/`drain`/`run_job`: `read` (next_job),
`claim` and `states` (start), `run` and `check` (the select of execute, and its
read of the pauses), `settle` and `clear` (settle and what follows it), `revert`
(the undoing of a start), `rest` and `sleep` (work). Each action is one stretch
between two awaits. A handler is two actions, its transaction and its signal
(`calls`, `removals`), since an await lies between them. A `Notify` is a boolean
permit. A runner is any sequence of reports, one commit and an answer, or
nothing at all; if it is dropped with its commit in the blocking pool, the commit
stays in `late` and lands when it likes. `stored` is the jobs whose result rows
exist. The drain reads the foremost pending step with one action although
`read_pending` runs a query per step: the steps it could miss in between are
found by the next drain.

The report that marks `executor_ran` is possible before any unit has run, as it is
in the code, which reports a unit before it sends it.

### StageCheckpoint

A frame of the signal is a cell whose content is the sequence of the units added
to it: float addition is not associative, so equal sequences are what equal bits
need. A digest is the tail itself. `prefixFile` grows record by record and is cut
with `set_len`; a tail appears by a rename, whole. `Drop` leaves the bind or the
commit that was under way to land later; the queue settles the row meanwhile.
`release` may change with a restart, as an update of the program would change the
computation's identity.

### BlobStore

A publication stages its files, enters the lock, renames them, hands its
transaction to the blocking pool and returns; each of these is an await at which
its task may be dropped. The collector lists, takes the lock, reads the
references, and deletes one file after another. `Age` lets a file of any state
grow older than the retention, as the first files of a long take do before they
are published.

### StageUnits

A handler's `pc` is the await it stands at in `receive_output`: `create` and
`body` (`write_part`), `remove`, `promote`, `mark` and `read` (`completed`),
`clean`, `compare`; `stored` and `refused` are its answers. A file holds "whole",
"cut", or the handler that is writing it: `File::create` truncates what another
handler has open, and a rename carries a file along that is still being written
(`Written`). `overlapped` and `lostFold` are history: outputs two handlers have had
at once, and units whose handler was cut off on its way to the fold. `FoldAccumulator::add`
panics on a chunk that is too short; the model adds it and says so in `added`, so that
`AddedOnce` can tell that this needs overlapping handlers.

The page uploads one output after another and does not repeat an upload itself; a
repeated PUT is one that the browser sends anew on a connection that was reset.

### ExecutorHost

The host has no task of its own: each connection's task (`serve_socket`) and the
runner take one lock after another, and each action is what happens under one of
them. `task` is where a connection's task stands: `open` (the loop of
`read_socket`), `retire` (the second half of `answer`), `find`, `publish` and
`reload` (`report_ready`), then `detach`, `leftFind`, `leftPublish`, `serves`, `gone`. `abandoning`
is who stands where in `SessionState::abandon`. `runner` is where the runner
stands between `open` and the drop of its session; a step that is stopped goes to
the drop from any await (`Stop`). The page is `up`, `ready`, `closed` (its socket is
closed and its job may still run) or `over`. The channel of a connection and the
wire are one sequence, `commands`; what is left in it is lost with the page.

Sessions have one job each and its units are one command. A session's identity is
the number of its job, so an answer that comes late is one that names another
session. Reads of `session` and of the state inside it are one step where the code
has no lock in between that another actor changes. Connections serve one after
another, as the Web Lock wants it (`Connect`). The code's list of connections is a
set: they are attached in the order of their numbers, so the first of the list is
the least of the set (`FirstCapable`).

### TakeWire

`singer` is the main thread and its place in a recording, `pipe` the port of each
stream from the audio thread, `stage` the decoder worker with the promise chain of
each take (`chain`: flush, ready, start, finish) and of its clean-up, `wire` the
socket and what waits for it to be open or accepted, `room` the connection and the
session of the server. A continuation of a resolved promise runs before the next
message; events wait until the worker is still. Faults: sockets that break or
close, time limits that run out at any time, sessions of others in the room.
`gaveUp`, `failed`, `rushed`, `misled` and `ended` are history for the properties.

### TakeRecorder

`deck` is everything the main thread keeps; its operators are functions of that
record, as the functions of `recorder.ts` and `playback.ts` are of theirs, and
`Run` commits what one of them did and posts its messages. A session's
`init`, `halt` and `back` are the awaits at which `initializeSession`,
`stopSession` and `record` stand. `box` is the audio thread: it handles a message
at once, its answers take their time, so that seeks, echoes, the end of the song
and other members' commands come before them.

### HeardTake

A quantum is one frame and the tempo is one: the code's rounding at other tempos is
left out. `player` is `heardPosition` and the flags of `runtime.worklet.ts`,
`recorder` the locals of `recording.worklet.ts`, `booth` the main thread between
the stop and the flush of a take. The singer repeats what is heard, so a sample
*is* the frame that was rendered a round trip before (`air`), and the property
compares it with the place at which it is stored. `late`, `unheard` and `dropped`
count the quanta in which the song stood still and nothing was written, so that
the property says exactly how far a sample is off then. Latencies may become known
only when the take begins (`known`). Changes of tempo and of the loop's edges while
a take runs are left out. A loop has more than one quantum: the page makes it a second
long at least (`minLoopSeconds`).

### MicrophoneShare

`mikes` is the page, a record on which the functions of the session, of the
preview and of the check of the access are operators; `platform` chooses among
`android.ts`, `native.ts` (iOS) and `web.ts`. A microphone is a number: it is in
`opening` from its request to its answer and in `sources` until it is closed;
`calls` says who asked and whether the module is loading, the native side asked or
its answer heard. `inputs` are the runs of `openInput`, each at one of its awaits,
with the life of the preview and the generation it began in. `capture` is the
native side: `MicrophoneBridge.kt` asks for the permission once and answers all who
waited, `MicrophoneCapture.swift` answers each start by itself and drops those from
before a stop. A start on iOS that fails halts the capture for whoever has it
(`halted`), and `MicrophonesShared` excepts it. The recovery of an interrupted
iOS capture and the notices of changed devices, other than that the preview opens
its input anew, are left out.

### ModelCache

A file is a sequence of chunks, each of a release: what the digest tells apart. The
time of its last change is the value of a `clock` that every write advances. `fetch`
is where the runner stands in `ensure_model_file`, whose awaits are its `pc`;
`disturbed` says that the run met a mishap itself, and `found` how long the partial
file was when it began. `pinned` is the release the app wants, which an update
changes, and whether the address answers a range. A loss of power, after which a
rename may be there without the bytes, is left out, and so is a write of a dropped
runner that ends after the next one begins.

### LoopTries, PlayRoom, RecordingShelf

`LoopTries` has the store (`loop`), the two ordered ports and the decoder's tries
(`keeper`); a session of the recorder is `preparing`, `open`, `closing`,
`settling`. In `PlayRoom` a position is the number of the seek it follows from;
`net` is what is under way to the server, to a decoder worker and to its page;
`awaits` is where the main thread stands in a stop or in a synchronisation. In
`RecordingShelf` the pieces of a recording are the number of their changes; an
announcement is a read of the list and a later broadcast (`works`), and the
decoder worker's reload queue, its mount and its two HTTP reads are actions of
their own.

### ViewportGesture, GpuPacer

A gesture is one function of a record per handler; a move counts only when it
locks an axis. `hand.readable` is the axes that have a state: without a song the x
axis has none. The pacer hands over any prefix of what it holds that ends with a
submission, so that its budget is any number; the fence is reached, or the device
is lost before it is.

## Runs

| Run | Question | Bounds |
| --- | --- | --- |
| `JobQueueSteps` | all safety properties and the refinement with every action | one project, a separation and one analysis that needs its stems, `AttachLimit` 2 (one loss that waits and one that fails), one signal under way |
| `JobQueueQuiet` | does a claimed step settle, and is the foremost step taken | one project, two steps, no pauses |
| `JobQueueStops` | is a pause honoured by a runner that never answers | one project, one step |
| `StageCheckpoint` | is a resumed fold exact, are commits fenced, is progress durable | five units of two cells on five cells with a checkpoint every two: settled and unsettled frames, overlapping units, a last unit that ends with the one before; three attempts and two releases, so that a late write of the first can meet the third |
| `StageCheckpointClosed` | does the committed generation restore while the step is pending (it does not) | the same plan, two attempts, one release |
| `BlobStore` | is a referenced blob kept, and are orphans deleted | two publications of one file; the theorem covers more files |
| `BlobStoreDropped` | is it kept even when the publication is dropped (it is not) | one publication of one file |
| `StageUnits` | is each unit added once, whole and in order, and does the attempt end | three units of which one was restored, two outputs (one that is not the last), two handlers at once, two broken connections |
| `StageUnitsRetry` | does a unit fold whose upload was repeated (not always) | one unit of one output, one break |
| `ExecutorHost` | does one job run at a time, is the job of a gone session stopped, does the lead move on, does no runner wait for ever | two connections one after another, two sessions one after another, any two faults (a stop, a reload, a silence, a failed job, the end of a page) anywhere |
| `ExecutorLease` | does the lead move on when publications overtake one another (it does not) | two connections, one session, one fault |
| `MCBrowser` | for each part of the browser the question its section below names | see below |

States and time with two workers: `JobQueueSteps` 1,490,000 in 80 s, `MCBrowser`
513,000 in 170 s (most of it for the liveness properties), `ExecutorHost` 580,000 in
100 s, `StageUnits` 410,000 in 45 s; the others take seconds.

`MCBrowser`, part by part:

| Part | Properties | Bounds |
| --- | --- | --- |
| `TakeWire` | `TakesApart`, `TakesWhole`, `RefusalsAnswered`, `PageSettles` | two takes of one chunk, so that the second meets what the first left; one fault |
| `TakeRecorder` | `MicrophoneHeld`, `PageSettles` | two sessions, three commands, one mishap: a session, its stop, and a command or a mishap in between |
| `HeardTake` | `SungWhereHeard`, `TakeKept` | a song of seven frames with a loop of three; two frames of output latency and one of input latency, so that the two cannot be mistaken; chunks of two; three commands |
| `LoopTries` | `TriesAgree` | two tries, two choices |
| `PlayRoom` | `SlavesFollow`, `FollowersConverge` | two members, two presses, one coming or going |
| `RecordingShelf` | `ShelfAgrees` | two edits or takes, two visits |
| `ViewportGesture` | `FreezeReleased` | three pointers (a pinch and one more), two turns or aborts |
| `GpuPacer` | `WorkInOrder`, `PageSettles` | four pieces, two runs |
| `MicrophoneShare` | `MicrophonesShared` | each of the three platforms; two microphones and two runs of the preview, so that one opens, closes or fails while the other does; one failed capture |
| `ModelCache` | `CopyVerified`, `DownloadRecovers`, `PageSettles` | releases of three and four chunks, so that a partial file of one may be shorter or longer than the other; the code's three attempts; three runs, three mishaps |

Larger instances that were checked by hand, each to its end: `PlayRoom` with three
presses of two members (1.6 million states), `RecordingShelf` with three edits
(6.7 million) and with four on an open page (4.5 million), `HeardTake` with four commands and latencies of two and one, one and
two, three and two frames, and with five commands (1.4 million); `MicrophoneShare` with
three microphones and three runs of the preview; `TakeWire` with three takes and no fault
(555,000 states), which is what it takes for an answer to meet a wrong take (`misled`).

One signal under way is enough for the order of a write, its signal and the
worker: several merge into the same permits, and the proofs hold for any number.

### What the runs found

*A step that is stopped while its area is closed cannot resume.* `run_step`
deletes the area of the step after the stems are stored, but the row keeps its
cursor until it is settled as done. A pause or the end of the process in between
makes the row pending again; the next attempt finds the cursor and no tail,
refuses to restore, and fails, as does every retry.

*A dropped publication can lose its blob.* The lock is held by the future of
`publish`, its transaction runs in the blocking pool. If the future is dropped in
between, a collector that had listed an old file of it may read the references
before the transaction commits and delete the file after. `ReferencedKept`, which
leaves such publications out, is proved.

*A unit can be accepted and never folded.* `completed` marks the last output
accepted before it reads the files for the fold. If its handler is dropped or fails
in between, a repeated upload is only compared and confirmed, and the runner waits
for a fold that nobody makes, until the queue's watchdog ends the step.
`DeliveredFolds` and `AttemptEnds`, which name such units as their exception, hold.

*The lead can be lost.* `publish_leader` finds the leader under a lock and
publishes it after it, on the thread of the connection that changed. Two
publications can overtake one another; the host then has no leader, or one that has
left, until another connection comes or goes. `LeaderFirst` names this as its
exception.

Of the server, two more things came up that are no violations of what is written: overlapping
handlers of one output share a part file, so a truncated chunk can be accepted
(`AcceptedStored` and `AddedOnce` need two handlers on one output for it); and
`answer` completes the ticket before it takes the active job, so a session dropped
at once may close a connection that is healthy, which the page survives by
connecting anew.

What the modules of the browser showed is named in their properties as an
exception, with a history variable, so that the rest holds with nothing left out:

*A waiter can be overtaken.* The player has one `playingWaiter`, one flush and one
stream promise. A play after a stop of the room, while a play or stop of a session
is unanswered, takes the waiter over: the session's stop never ends and its
microphone stays open (`Overtaken`). A song that ends while the microphone opens
leaves a session that connects with nothing playing; the echo of an earlier stop
ends a recording that has begun since.

*A take can be answered twice.* A take that is refused or interrupted while its finish
is under way is answered once for each. The second answer resolves whichever promise
is held (`decoder/index.ts`, `recordingStreamFailed` and `recordingStreamFinished`):
that of the take that has begun since, whose finish is then never sent, so that the
server keeps less of it than was sung (`misled`; this needs a third take).

*The end of a take is shifted.* Between the stop of the player and the request to
drain lies an answer of the audio thread; the quanta in between are dropped, and
what arrives after them is stored that much too early. At the end of the song the
last frames of the input's latency are lost. A hold shorter than the round trip
while recording misplaces up to a round trip of samples, and a take that begins
within the output latency of a hold, or of a loop that was closed after it went
round, is off to its end (`late`, `unheard`, `crossed`).

*A closed loop can list a try that is gone.* Closing the loop while a whole pass is
being settled discards the tries before the answer lists one more (`crossed`); and
closing it while the first try is prepared does not cancel that try.

*A room can disagree.* A stop, or the state of a room at rest, that crosses a
granted claim stops the member that has become the master (`late`). A late
continuation of `applyRemoteSyncState` puts back an older revision, and the page
drops every later position (`overtaken`). Two seeks that cross leave the members
apart while nobody plays.

*An announcement can be overtaken.* `announce_recordings` reads and broadcasts
without a lock; an HTTP answer may be older than an event that was applied; a load
that failed is not repeated (`outrun`, `early`, `failed`). Of a switch that is taken
back two things can be lost (`lost`). A finished take's load that was dropped meanwhile
leaves its live take on the screen. And a change of the recording that is being
loaded, told while another is chosen again, is not loaded: when the first is chosen
once more the load that was under way is laid as it is, and the load of the switch
finds itself needless. The second came to light in the proof: it takes four edits, more
than the run has.

*A complete partial file is never used.* A run that stops between the last chunk and
the rename, or an earlier release that was longer, leaves a partial file as long as
the model. The next download asks for the range after it, an address that knows
ranges refuses (416), and the refusal is an error like any other: all three
attempts of this run and of every later one fail, though the file may be the model.
The test `resumes_a_download_that_was_cut_short` cuts the file shorter.
`DownloadRecovers` names this as its one exception.

*A view can stay frozen, or be let go too early.* A wheel turned during a drag
releases the freeze; without a song a wheel on the x axis during the inertia of
the y axis leaves the view frozen (`turned`, and `readable` in `FreezeReleased`).

## Fairness

The worker is a task of the runtime that nothing else waits for, so its steps are
weakly fair; a database read or write that fails is tried again and is assumed not
to fail for ever (strong fairness of the reads and claims that a failure disables).
A handler sends its signal after its write. Nothing is assumed of the runner:
`JobQueueStops` holds with none, and `JobQueueQuiet` assumes only that the
watchdog ends a step that does not end itself, which is so once pauses cease (each
stop signal starts its wait anew; the run has none). Crashes may go on for ever,
and `ForemostClaimed` says so. The collector's fairness is that of its loop,
while the process is up.

In `MCBrowser` one weak fairness condition covers what the code does by itself:
handlers of messages that have arrived, continuations, timers, answers of the
audio thread and of the server, the wait for the device (`WireSystem`,
`DeckSystem`, `RoomWorks`, `PacerSystem`, `CacheSystem`). Nothing is said of commands, faults, or
anything a user does. A broken socket is either opened anew or its time limits run
out. A download that stalls is ended by the client's time limit, which is one of the
mishaps of `ModelCache`.

In `StageUnits` the runner, the handlers and the page's script are weakly fair, and
the end of a broken connection is noticed, so its handler is dropped; nothing is
said of whether a connection breaks. In `ExecutorHost` every task of the host and
every page that is there go on. A page that answers the pings and never ends its job
is left to the queue's watchdog; one that is frozen is a `Silence`, which the host
ends itself. Faults are never fair.

## Proofs

For every value of the constants (assumptions: `QueueAssumption`,
`CheckpointAssumption`, `UnitsAssumption`, `PartsAssumption`, `PacerAssumption`,
`HostAssumption`, `GestureAssumption`, `LoopAssumption`, `ShelfAssumption`,
`DeckAssumption`, `MikeAssumption`, `PlayRoomAssumption` and `TakeWireAssumption`, which say that bounds are
numbers, `CacheAssumption`, which asks for two attempts at least, and `HeardAssumption`,
which puts a loop of two quanta at least inside the song and asks for latencies that are
not zero):

* `JobQueueProofs`: `TypeCorrect`; `OneProcessingCorrect`; `StopSignalKeptCorrect`;
  `ParkedCorrect`; `ResultsCorrect`; `LifecycleImplemented`; `DrySleeperCorrect`. Each property is
  inductive together with the type invariant and, where a step depends on it, with
  the properties before it: a settling write keeps `ResultsBeforeStatus` only since
  the row written is the one held (`OneProcessing`) and since the answer "done"
  comes after the commit; the implementation of `StepLifecycle` needs
  `OneProcessing` for "no other row is claimed". Each proof has one lemma for the
  steps, split by action. `DrySleeper` (what a worker that sleeps after
  a dry drain could still take no wake is on its way for) is inductive only once
  it is said from the end of the drain on (`DryRest`: at `rest` as well as at
  `sleep`), and needs `IInv` for the handlers and for the commits of dropped
  runners.
* `StageProofs`, of `StageCheckpoint`: `LateCommitsFencedCorrect`, `FoldExactCorrect`,
  `CheckpointRestoresCorrect`, `ResultWholeCorrect`, `ProgressKeptCorrect` and
  `DurableFoldImplemented`, for any plan, interval, number of attempts and sequence of
  releases. The invariant has two halves. `Fenced` says that an attempt leaves one
  write behind at most and none while it runs, so that a bind or a commit that lands
  late names an attempt that the row has not, or meets a row about to be settled.
  `Exactness` rests on it: what the committed cursor needs (`SavedKept`) and what any
  commit left behind would need (`LateReady`) is in the files, whatever a later
  attempt has appended, cut or renamed; the fold under way is that of its count
  (`Counting`), and each step of a save leaves the old checkpoint or the new one whole
  (`Persisting`). Under these lie three facts about a plan: a unit is added to each
  cell it covers behind all units before it (`UnitAdds`); a prefix that is settled and
  a tail that is not are together the fold (`CheckpointExact`); and the frame to
  which a prefix is settled, a minimum, exists (`Settled`, `Reached`, from the
  well-foundedness of the naturals).
* `StageProofs`, of `StageUnits`: `AddedOnceCorrect`, `FoldedPrefixCorrect`,
  `AcceptedStoredCorrect`, `DeliveredFoldsCorrect`, for any number of units, outputs,
  handlers and broken connections. The invariant adds `InOrder` (a unit is sent only
  after all before it are folded, and no handler is at work on one not sent), `Apart`
  (two handlers on one output make it overlapped), `Relies` (what a handler may count
  on at each of its awaits as long as its unit is not folded: above all that a file
  nobody shared is its own until it is whole), `Answers` (the outputs the page no
  longer asks for are accepted) and `Entered` (a unit with all outputs accepted has a
  handler on its way to the fold, or lost it).
* `FileProofs`, of `BlobStore`: `TypeCorrect` and `ReferencedKeptCorrect`. `ReferencedKept` is
  not inductive. `IInv` adds `Guarding` (a transaction handed over belongs to a
  task that holds the lock, or that was dropped; its files are in the tree, and no
  task holds the lock while the collector does) and `KnownComplete` (what the
  collector has read includes every reference of a publication that was not
  dropped, since nothing commits under the lock).

* `PageProofs`: `WorkInOrderCorrect`, `FreezeCorrect`, `TriesCorrect` and
  `ShelfCorrect`. `WorkInOrder` speaks of the work that was given; the invariant `PacerInv` adds the work that is held: `InOrder`
  says that what is held are the last calls, one after another, and all of what was
  given comes before them, and `Emptied` that the pump never rests on work. One lemma
  on sequences for each way they change (a call, a hand-over, a failure), then one
  step per action. `FreezeReleased` speaks of the playback and of the fingers on the
  screen; the invariant `GestureInv` adds what the trackers believe. `Tracked`: a pan
  or a pinch has its fingers on the picture, only one of them has any, a mode that
  moves the picture has an axis locked, and inertia is no gesture's. `Held`: a gesture
  that is not idle has frozen the playback, unless a wheel has let it go, and with
  both axes there nothing is frozen without a finger or inertia. The step that needs
  them is a finger that leaves a pinch: what becomes of the other one decides whether
  the view is let go. `TriesAgree` speaks of the rest, when both queues are empty; the
  invariant `LoopInv` says what the queues hold meanwhile. One session at a time is
  before the end of its stream (`InSession`). For every order or answer that settles a
  try there is a try that waits for it (`Awaited`), so that a discard that meets one
  has crossed it and is known to have. A try is drafted once and known to nobody before
  it is settled (`Fresh`); it is listed, about to be listed or about to be removed, one
  of them and once (`Apart`); one that is being inserted is ordered, sent or answered
  for (`Inserting`). From these follow, unless a discard crossed a settling, what the
  rest needs: what the decoder keeps is what the player lists, adding the answers and
  the removals under way (`Listed`), nothing is listed or settled ahead of a discard
  nor removed behind it (`Discarding`), and obeying what is queued shows the selected
  try (`Showing`). Lemmas on queues say what the end and the front of one change.
  `ShelfAgrees` too speaks of the rest; `ShelfInv` says what else is on its way. A list
  that is announced is true of the changes it counts, and the page knows no more than
  was changed (`Truths`, `Learnt`). As long as nothing slipped: the list that counts all
  changes is known or comes (`Informed`); the pieces that are mounted, fetched or loaded
  are current, or the page will be told, or has a load in its queue that is not one of
  a switch (`Fetching`); a load for another recording than the one chosen, or one whose
  pieces were thrown away, has the load of a switch behind it (`Switching`); and a live
  take is on, ends, is about to begin, or there is a load that takes it away
  (`Lighting`, `Lives`). `Switching` is what showed the exception above.

* `MicrophoneProofs`: `MicrophoneCorrect` (the recorder), `MikesCorrect` (those who
  share the microphone) and `RoomCorrect` (the members of a room). For the recorder, `Ordered` follows a session through its three
  awaits: one that is still being prepared is the current one, its stop waits for it,
  and no answer that is held belongs to its stop; nothing of this is so of a session
  that was not made yet. Each continuation is one lemma over a deck, so that a step
  of `Run` is their composition. For those who share it, `MikeGood` has three parts.
  `Shared` relates the page to the native capture: a microphone is opening, open or
  neither (`Placed`); one that was asked for is posted, waits or is answered for, in
  exactly one place once (`Underway`); a stop is behind all starts and is posted when
  nobody has a microphone (`StopsFirst`); who is answered for meets a capture that
  runs and is the one the page lets through (`AnswerHolds`, `LetThrough`), in a
  browser a track (`TracksHeld`); and a capture that runs has somebody who has it or
  asks for it, or a stop on the way. `Preview` says that of the runs of `openInput` one
  at most is not stale, that none has opened before the devices were listed anew, and
  that a microphone it asks for is asked for by it alone. `Owned` says that an open
  microphone is a take's or the preview's. `SlavesFollow` speaks of the rest;
  `RoomInv` says it of every page at any time, of what the page has still to hear: its
  way, the messages at the page behind which come those at the decoder. A page minds
  when the last of its way that plays or stops it makes it a follower, or when nothing
  there does either and it follows, or waits to. Who minds is somebody else's
  follower; who ought to and does not is excused by a stop or a question of its own
  that the server has not met (`Minding`). That the state of a room at rest cannot undo
  a page that waits to follow needs `Heeding`: such a state is told only behind a stop
  (`Stepwise`). `Joining` says that who asks for the state has not claimed the
  room, and `Leading`, as long as no stop crossed a claim, that who has claimed it, or
  has it, plays or takes the claim back, and is told to stop by nobody.

* `FileProofs`, of `ModelCache`: `CopyVerifiedCorrect` and `DownloadRecoversCorrect`. For the
  first, `CacheInv` adds that nothing else on the disk bears the time of a partial
  file (`Stamped`: so a file that was just renamed fits no manifest that is left
  over), that a manifest that fits a file is that of the release it names
  (`Vouched`), and that the hash is that of the partial file, whatever it was gone on
  from (`Hashed`, `Checked`). For the second, `Recovering` says what the run has in
  each of its attempts: the first goes on from what was found, a second begins with
  nothing and holds the beginning of the model, and so has no way to fail.

* `ExecutorHostProofs`: `OneJobCorrect`, `OrphanCorrect` and `LeaderCorrect`, for any
  number of connections, sessions and faults. `HostInv` follows a job from its
  session to its page and back. `Standing` says that pages come one after
  another and that only a page that is there has a job. `Leaving` says who abandons
  which session, that one which has ended holds no connection and is not active, and
  that one that waits for its executor is active or finds it gone. `Delivered` says that a job is at one place, that it
  is sent once, and that nothing was said of it before it had ended. `Served` is what
  `OrphanStopped` comes from: a job that nothing on the channel stops belongs to a
  session that has the connection and is still there to stop it. Lemmas on channels
  (`LoadsOf`: the jobs a connection has or is about to get; `Apart`: none of them
  twice) carry it through sends, deliveries and losses; then one lemma per part and
  group of actions. `LeaderFirst` is inductive with the types and `Standing`
  alone.

* `TakeWireProofs`: `WholeCorrect`, `ApartCorrect` and `RefusalsCorrect`. The three
  properties speak of runs in which the page and the worker are in step (`InStep`), and so does
  the invariant: `WireSafe` says that in step the wire is good (`WireGood`), and the
  two flags that say otherwise are only ever set. `WireGood` has three parts besides
  the types. `Led` relates the main thread to the worker: a start that is on its way,
  or a stream that is open, is of the last take, nobody has said that it is over,
  and at most its finish is behind it. `Stands` says of each take how far its
  stream is: nothing has become of one that was not met (`Fresh`), a port is read in
  its order (`Piped`), and what a closed stream has still to do goes on at once
  (`Staged`). `Wired` relates the worker, the socket and the server. `Paired`: on the
  line a start is behind the finish of the take before it, and a line that ends
  without one is owed one by the worker, which is why a refusal is always answered
  before the next start. `Phase`: how far the server is with the take that is sung.
  `Sorted`: packets lie behind no text but that of their own take. `Complete`: the
  numbers of a take's packets, in the order in which they are stored, on the socket
  and waiting, are those read from its port (`Counts`). What waits is sent in part
  (`Picked` at the places that are `Sendable`): `PickedFacts` shows by counting
  places (`Rank`) that what is picked keeps its order and nothing else is there, and
  `CountWhole` that a counted queue is the take. One lemma says what each exchange does
  to `Wired`, one to `Stands` and one to `Led`; a step of the system is put together
  from them.

* `HeardTakeProofs`: `SungCorrect` and `KeptCorrect`, for any song, loop, latencies,
  length of the chunks and number of commands. Both properties speak of the samples
  that are stored; the invariant `HeardInv` follows a quantum from its rendering to
  its sample, a round trip later. Places of a try are compared by their remainders in
  the loop (`Same`), for which the module begins with lemmas: the solver knows
  neither that remainders add up nor that two places of one round with the same
  remainder are one. Then its parts, besides the types. `Control` relates the flags of
  the main thread, of the player and of the recorder: when a drain runs, what is left out of a
  take that has just begun, that a pass has its loop open. `Course` is about the player and the
  air alone: the way of the player, which is what it rendered and has not yet heard and what it
  renders next, goes on by one frame, to the start of the loop, or not at all while it is held, and the air
  tells the same story (`Chained`, by `Reach`: how far the song goes between two
  places of the way is their distance less the quanta that were held). `Records`: a
  run has its places one after the other, none left out (`Whole`), and a try has
  only those of the loop (`Try`). `SungRight` is `SungWhereHeard` of the samples in
  the chunk as well. What makes it inductive is `SungNext`, which says it of what
  is still to come: what is in the air will be sung where the recording will be when
  it is (`AirSung`), and so will what is rendered next (`Aligned`), or the song is over and
  what comes is left out (`Muted`). `KeptNext` is the same of `TakeKept`: what is due is
  written, or comes within what is left of the input's latency (`Owed`), and each place of
  the way is where the recording will be when it has been heard and sung (`Ahead`); of
  a try it may be whole rounds away, but not before the loop once the recording is in it. One lemma per function of the worklets says what it does to each part (a
  sample is pushed, a run begins, a pass ends, a chunk is flushed); a quantum of
  `process` and a command are put together from them. The hardest step is the start of
  a run (`StartRun`): the player's position heard, its pending output and the search
  of the loop's next round (`FindPass`) have to give the place that `Reach` says.

Only model-checked: the liveness properties, which are out of the prover's reach. Every invariant and action property of the passing
runs is stated by a theorem.
Only proved, and in no run's list: `FoldedPrefix`, `ResultWhole` and the type
invariants.

## Not modelled

Of the server: project removal in `StageCheckpoint` (the row is then gone and its
writes miss, as `JobQueue` shows); file operations of a dropped runner that run on
after the next claim; the HTTP routes that serve files and windows, phases and
logs, the child process that runs the browser; transcription and its units, which
differ from those of `StageUnits` in that a folded unit's file is removed; undo and
redo of takes (`recording/store.rs`); the removal and listing of models; loss of power (the code
does not sync files); summaries; the wording of errors. Poisoned locks are left
out: only a chunk cut short by overlapping handlers panics under one (see
`StageUnits`).

Of the browser: most of its code is signal processing (`fft`, `cqt`,
`spectrogram`, the model runtimes of `ai`, time stretching, resampling), whose
correctness is numerical, and views that show state. Neither has control whose
order matters, so the modules cover a small share of the lines and the parts where
threads, sockets and devices meet. Left out there as well: calibration of the
latency (but for the microphone of its preview), persistence of settings, live pitch, packets
relayed to listeners, and a room whose members have two projects open.

The candidates for what would come next: `recording/store.rs` (a take that commits
between an undo and a redo) and the unit queue of `browserUnitServing.ts`.
