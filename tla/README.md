# Video translator: verification project

The application transcribes a video, translates the transcript, dubs it and
renders the result. A FastAPI server keeps one JSON history file with a record
per task; an integrated *pipeline* runs all stages of a task, and the same
stages can be started one by one. The TLA+ modules in this directory model the
parts of it where several threads, event loops, processes, clients or restarts
meet, and the algorithms whose results later steps rely on.

## 1. Inventory

### 1.1 Components, their state and their operations

| Component (source) | State | Operations |
| --- | --- | --- |
| Pipeline runs (`services/pipeline_service.py`, `core/task_run.py`) | `_tasks`, `_workers`, `_runs`, `TaskRun.active/started/lock` | start, run (its stages), cancel, worker callbacks, shutdown |
| History (`core/history.py`) | the records on disk, one lock per file | create, update, compare-and-update, finish cleanup, delete, recover after restart |
| Task events (`core/events.py`) | a queue per SSE connection, its last revision | emit, deliver, snapshot, keepalive reconciliation |
| GPU manager and lifecycles (`core/gpu_manager.py`, `gpu_lifecycle.py`, `provider_lifecycle.py`, `lm_studio_lifecycle.py`, `ollama_lifecycle.py`) | FIFO queue, active lease, one condition | acquire, release, load, unload |
| Standalone operations (`api/burn.py`, `dubbing.py`, `transcribe.py`, `translation.py`, `tasks.py`) | reservations in the record, the set of translation jobs | burn, dub, translate, transcribe, retry, export, edit, delete |
| Translation review (`services/translation_review_service.py`) | review decisions bound to a fingerprint | request, pause, approve |
| Subtitle timing (`services/subtitle_timing.py`, `subtitle_timing_versions.py`) | copy-on-write versions of the subtitle files | analyze, apply, undo, extend by a translation |
| ASR (`services/asr_service.py`, `chunking_service.py`, `asr_segments.py`, `workers/asr_worker.py`) | the worker process | start, transcribe, close; split and merge chunks |
| Translation (`services/translation_service.py`) | batches of rows | batch, retry, split, align |
| Dubbing (`services/dubbing_service.py`, `services/tts/*`, `workers/*tts*`, `workers/cosyvoice_worker.py`) | cancel and finished events per task, speech cache, workers | synthesize, place on the timeline, mux, cancel |
| Rendering (`services/video_burn_service.py`, `video_encoding.py`, `video_output.py`) | the encoder process and its reader thread | encode, fall back to another encoder |
| TTS runtime installer (`services/tts/qwen_installer.py`) | the installed bundle, a staging and a backup directory per request, one lock | assemble, verify, activate, restore, clean up |
| Configuration (`core/config.py`, `core/config_migrations.py`, `core/settings_schema.py`, `api/config.py`) | `config.yaml` and its copy in memory | load, migrate, update, save, show without secrets |
| Client (`frontend/src`) | selected task, request tickets, last revision | load, listen, process, cancel |

### 1.2 How they interact

- The server's event loop starts and advances pipeline coroutines; dubbing and
  rendering run in worker threads that a cancelled coroutine cannot stop
  (`pipeline_service.py:53-78`), and rendering starts one more thread that reads
  the encoder's progress.
- Every thread writes the record through the history lock. Code that runs in the
  context of a `TaskRun` writes only while the run's lease is open and the record
  names the run (`TaskRun.accepts`).
- Stages that use the GPU wait in the GPU manager's queue; transcription and
  translation wait on the server's loop, dubbing on a loop of its own thread.
- A write may be followed by an event. Events reach a connection's queue directly
  or through `call_soon_threadsafe`; the client orders them by revision against
  the responses of its own requests.
- A dubbing's thread talks to a worker process over a pipe (CosyVoice), starts a
  process per utterance (llama-tts) or speaks in a thread (Kokoro), and finds
  earlier speech in a cache on the disk.
- Transcription, translation, an edit and the timing repair write the same
  subtitle files; the record says which of them count.
- After a restart `recover_interrupted_tasks` is the only repair. It repairs the
  record; the files and directories stay as the crash left them.

### 1.3 Hard behaviours and what makes each component correct

| Behaviour | Property wanted |
| --- | --- |
| A retired worker thread beside a new run | one execution per task, the one the record names |
| Cancellation at any moment: before the first turn, between stages, while the worker ends | outcome published once, reservations released, "cancelling" resolved |
| Late writes | a published outcome stands |
| Crash and recovery | no record that says "processing" without a run |
| GPU waiters cancelled while they are notified, on several event loops | no wake-up of the server's loop lost, FIFO, exclusive use |
| Failing callbacks, failing unloads, impatient cancellation | the lease always comes back |
| Events dropped, reordered, of an older run or job | the stream of an active task stays open; the screen never goes back by itself, and catches up |
| Standalone operations beside each other and beside the pipeline | reservations exclude each other and are always released |
| Subtitles edited, retimed or regenerated while a decision is open | only the reviewed text is consumed |
| A speaking or rendering process that dies, hangs, fails or is cancelled | none is left behind, the dubbing ends, the GPU comes back |
| Cached speech after an edit, another voice, a new model | what is heard is the present text, voice and model; nothing is spoken twice |
| Timing versions beside edits, translations, crashes | a repair is of all tracks or none, and undone exactly or not at all |
| A model that answers with too many, too few or displaced rows | a row's translation is its own, or marked for review |
| Overlapping chunks, overlapping rows, speech longer than its time | no word lost, order and length kept, or a refusal with a way out |
| An installation that fails or dies between two renames | a complete former bundle is there, or a newer one |
| Values of a settings file that this version cannot read | they are not replaced by what was not asked for |

`PROJECT.json` lists each hazard at its line with the properties that cover it.

## 2. The modules and the code

| Module | Models | Extends / refines |
| --- | --- | --- |
| `PipelineRuns` | one task's consecutive pipeline runs, their coroutines, worker threads and record | |
| `FairLock` | what the GPU manager promises | |
| `GPUStages` | the manager, three event loops and the providers' lifecycles | implements `FairLock` |
| `TaskEvents` | from a write of the record to the client's screen | |
| `TaskOperations` | the operations a user may start on one task, beside each other and the pipeline | |
| `Dubbing` | one dubbing after another: its thread, its speech cache and the processes that speak and render | |
| `SubtitleTiming` | the repair of overlapping rows | |
| `UndoPoint` | what the timing versions promise | `SubtitleTiming` |
| `SubtitleVersions` | the subtitle files and the versions that the repair makes | `SubtitleTiming`; implements `UndoPoint` |
| `TranslationBatches` | one translation: batches, retries, alignment, audit | |
| `DubbingTimeline` | rows to utterances, and speech into their time | |
| `AsrChunks` | chunks of a recording, and the rows made of them | |
| `Settings` | loading, migrating, updating and saving the settings | |
| `VideoPlans` | the encoder, size and rate of a rendering, and its plan after a failure | |
| `QwenInstaller` | the installation of the Qwen3-TTS bundle | |
| `PipelineRunsProofs`, `GPUStagesProofs`, `TaskEventsProofs`, `TaskOperationsProofs`, `DubbingProofs`, `TranslationBatchesProofs` | theorems about the module of that name | the module, `TLAPS` |
| `SubtitleVersionsProofs` | theorems about `SubtitleVersions` and `SubtitleTiming` | `SubtitleVersions`, `MCAlgorithms`, `TLAPS` |
| `ServicesProofs` | theorems about `QwenInstaller` and the algorithms | `QwenInstaller`, `MCAlgorithms`, `TLAPS` |
| `MC*` | instances for TLC | `MCAlgorithms` composes the five modules of algorithms |

`PipelineRuns`, `GPUStages`, `TaskEvents` and `TaskOperations` look at the same
record from four sides. Each keeps the fields that its own properties tell
apart; `TaskOperations` abstracts a pipeline run to what `is_busy` and the
record show, and `PipelineRuns` has its inside. `Dubbing` and
`TranslationBatches` are the insides of two stages, and `SubtitleVersions` has
the files behind the content that `TaskOperations` keeps. The operators under a
comment "Faulty variant" are plausible mistakes in the code. They are not part
of a specification: `PROJECT.json` pairs each with a property that it breaks.

### 2.1 PipelineRuns

| Model | Code |
| --- | --- |
| `tasks`, `runs` | `PipelineService._tasks[task_id]`, `_runs[task_id]` |
| `lease[r]` | `TaskRun.active` |
| `pc[r]`, `cancelReq[r]` | where the coroutine of the run is, and `Task.cancel()` not delivered yet |
| `callback[r]` | `finished`, the done-callback that `start` adds |
| `worker[r]` | the executor thread of `_run_thread_stage` with its future |
| `reader[r]` | `burn`'s stderr reader, a plain thread outside the run's context |
| `task` | the record: pipeline, stage and cleanup fields |
| `up` | the process |

`Update(r, new)` is `HistoryManager.update_task` under a run: check of the
lease, of the record's owner, and the write are one step because `TaskRun.lock`
and the history lock are held over them. A coroutine's step goes from one await
to the next. A worker thread claims its stage, publishes its outcome and
returns, in separate steps, since the loop's thread may act in between. `Crash`
keeps the record and nothing else; `Recover` is the recovery in `lifespan`.

### 2.2 GPUStages and FairLock

A section under the manager's condition does not await, so it is one action:
`Enqueue`, `Announce`, `TakeTurn`/`Sleep`/`Refused`, `CancelWait`, `Switch`, and
`Release`. `bound` is the event loop that `asyncio.Condition` binds to on its
first wait: stages on the server's loop and dubbings on loops of their own
share one condition.

Whom a notification wakes depends on the loop. `notify_all` sets the waiters'
futures, which appends their callbacks to their loop's ready queue
(`call_soon`), and says nothing to a loop that blocks in its selector. The
server's loop does not block for long: uvicorn's main loop runs on it and sleeps
a tenth of a second at a time, so what another thread appends is found. The loop
of a dubbing has nothing but its one coroutine: once it has run what was ready it
blocks without a timeout (`Doze`), and a stage that is "asleep" is not among the
`Waiting` whom `LeaveLine` and `Release` tell. Until it dozes it may still be
told. The contention of two threads for the condition's own `asyncio.Lock` is left out: its
sections never await, so it is held for an instant only.

`engine` is the memory of each provider's model, with the
loads and unloads that go on in a thread or a process nobody awaits any longer.
`Faults` says which failures of the environment a run admits: a status callback
that raises, a cancellation during a load or unload, an unload that fails.
`FairLock` has three variables and four actions; the mapping is `line <- queue,
owner <- active, asked <- the stages that have begun`. That a free GPU is given
away is promised to `Prompt` only, which the mapping gives the stages of the
server's loop; to dubbings the code cannot promise it (observation 3).

### 2.3 TaskEvents

Writers are the server's loop thread, a worker thread per run, the reader thread,
and the thread of a job outside every run. An owned publication goes through
`locked`, `updated` and `deliver` while it holds the run's lock. The loop
delivers to a connection's queue at once, any other thread by
`call_soon_threadsafe` (`calls`). The connection's generator takes a snapshot,
then follows the queue, drops what its `last_revision` has overtaken, and asks
the history again after a keepalive. `wire` is what the client has still to read.

The job is a standalone rendering (`burn.py`): `JobStart` is the request,
`JobEnds` the outcome that `burn()` writes itself and that admits the next work,
and `JobCloses` the last write and event of `_run_burn_task`. That event is
terminal and carries neither run nor revision (`Closing`), so the generator's
checks let it pass. A transcription and a translation outside the pipeline close
with such an event too (`transcribe.py:123`, `131`, `translation.py:212`,
`234`). One job works at a time.

| Model | Code of the client |
| --- | --- |
| `shown` | `currentTask` in `App.jsx`, with the events merged over it |
| `cached` | the task's entry in the list `tasks`, refreshed by `FetchTasks` and by the events of App's own listener |
| `listening` | `listeningTaskId`, or the panel's `running` (`useTaskProcessing.js:193-206`, `297`) |
| `latest` | `acceptTaskState`'s memory (`taskStateVersion.js`) |
| `fetch` | the request of `readSelectedTask` |

`OpenTask` is `loadTask`: it shows the list's entry as it is and asks for the
task; only the answer goes through `acceptTaskState` (`FetchApply`). A message
is taken by App's listener or by the panel's, which differ in what else they
update; the two have one connection here. A terminal event ends the listening,
and the task is read again. `log` is a history variable: the record at every
revision.

### 2.4 TaskOperations

One action per handler of `app/api/burn.py`, `dubbing.py`, `translation.py`,
`transcribe.py`, `tasks.py` and `pipeline.py`, cut where the handler awaits:
`AskDub`/`VoiceFound` and `AskPipeline`/`StartPipeline` are the two halves of
the handlers that wait for voice discovery, `AskTranslation`/`Translated` of the
translation. A standalone rendering or dubbing is a `job` that is reserved in
the record by the handler, works in a background thread (`JobBegins`,
`JobPublishes`) and is closed by the write of `_run_burn_task` or
`_run_dubbing_task` (`JobCloses`). The translated subtitles are a content,
because a review decision compares fingerprints of the content, not file names;
the subtitles may thus come back to a content that was reviewed before. `view`
is the review that the user has on the screen, perhaps an old one. `confirmed`
is a history variable: the user has agreed to the present text since it was
generated or changed last.

`Windows` names two intervals in which the code admits other requests and the
properties then fail (observations 7 and 8). The passing run has `Windows = {}`: no
request comes between an outcome and the closing write that follows it in the
same thread, and none that starts work comes during a transcription outside the
pipeline, which is how the interface behaves (it offers no processing before
`transcription_path` exists, `useTaskProcessing.js:528`). Everything else may
happen in any order. `MCOperationsTail.cfg` and `MCOperationsTranscription.cfg`
open one of the two each.

### 2.5 Dubbing

| Model | Code |
| --- | --- |
| `dub` | the thread in `DubbingService.dub`: where it is, the row, the voice, the look-up's model identity, whether its GPU stage has begun, how many ffmpeg processes are still to run (`todo`) |
| `cancel` | the task's entry in `_cancel_events` |
| `raw`, `heard` | the `raw_*.wav` files, and the speech on its way there |
| `cache` | `SpeechCache`'s directory: the `.wav` files and the `.json` files that vouch for them |
| `model`, `loaded` | the identity of each provider's model files, and what Kokoro's shared instance was made from |
| `child`, `client` | the speaking process or thread, and the adapter's side of the conversation |
| `ffmpeg` | the one ffmpeg process that the thread waits for, and how it ended |

`NextRow` to `Finally` follow the thread from the loop of `_synthesize_all`
through its `finally`, the shutdown of the stage, the timeline, `_mux_video` and
the `except` clauses. A row whose text is in `Blank` is not spoken: ffmpeg writes
a silence in its place (`WriteSilence`). `dub()` itself never gets there, because
its grouping drops blank rows (`dubbing_service.py:540-548`), but
`_synthesize_all` has the case. `Trim` and `BuildTimeline` are `_build_timeline`:
a process per speech, which may fail and leaves the speech as it was; the plan,
which may be refused; then between `Utterances + 1` and `2 * Utterances + 2` processes for
gaps, speeches, the end and the joining, of which any failure fails the
dubbing. Each of these is `_run_ffmpeg`: `subprocess.run` without a timeout and
without a look at the cancel event. `_mux_video` polls both.

A call to a provider is several steps, because the child
runs, fails, dies or hangs beside it: the CosyVoice worker is started, gets a
request, answers; llama-tts is one process per utterance, on the GPU and once
more on the CPU; Kokoro is a thread that may download its model first. The
cache's two files are written one after the other (`PutWav`, `PutJson`), each
may fail, and a crash may come between them. Qwen's turn at the GPU is
`Startup`; whether it comes is a question to `GPUStages` (`AtGPU`). Assumed: a killed process ends, and
the files of a model change only between two dubbings.

### 2.6 SubtitleVersions, SubtitleTiming and UndoPoint

`SubtitleTiming` is `analyze` and `apply` of `subtitle_timing.py` on sequences
of rows: which overlaps are repaired, which need a review and why, in the order
of the code's conditions. `SubtitleVersions` has the files by name, the record's
pointers (`source`, `target`, `original`, the active version), a staged repair
or undoing (`op`), and the digest the user's analysis showed (`view`). The
operations end without an await, so that only another thread's write of the
record or a crash comes between the files and the record. An edit writes its
files in place one after the other, and may be cut off. A file that nothing
names is forgotten, and its name may be used again.

`UndoPoint` is the promise: a repair replaces all tracks, the point remembers
what they were, undoing gives exactly that back, a new translation of the
repaired tracks becomes part of it with its times set back, and after an edit
there is no undoing. The mapping reads the files: `cur` is what the record's
pointers name, `point` what the active version's files hold.

### 2.7 TranslationBatches

A translation is represented by the row whose meaning it has, so that a
displaced answer is a wrong number at a place. `translate_full_result` goes
through the batches: one call, row by row when the length is wrong, twice more
for rows that failed, an audit, a second call for the rows it names, and a
second audit. The model answers anything. The auditor, a model too, is assumed
to name at least the rows that are displaced, or to fail, in which case the
result says that its review is incomplete. `job.todo` is what is left to ask.

### 2.8 The algorithms: DubbingTimeline, AsrChunks, Settings, VideoPlans

Definitions without a state. A loop is a recursive function that gives the state
after each pass (`Grouping`, `Search`, `Splitting`, `Sorting`, `Deduplicating`,
`Bounding`, `Dropping`, `Reading`), and what the loop returns is its last value:
this is the form that can be reasoned about. `DubbingTimeline` groups rows, places utterances
with gaps, leads and lags, searches the lowest tempo that keeps time, and names
the utterances to shorten when there is none; times are integers because each
position is scaled by its tempo. `AsrChunks` follows a word through the chunks,
the split of a long segment, the shift to the recording's time and the dropping
of doubled rows, whose texts are compared without the blanks around them
(`Stripped`). `Settings` has one key for each kind of field and follows a
file through load, migration, update and save. `VideoPlans` has the order in
which `make_output_plan` tries codecs and `select_encoder` encoders, on a machine
that is a set of encoders (hardware up to a width), and what `burn` plans when
an encoder fails at work; `NoOptions` is the rendering without output options,
and `Preferred` is the first encoder of a codec that fits.
The exponent 0.65 of a rate is replaced by the two ends of its range, so the
properties hold for any exponent that may be chosen there.

`MCAlgorithms` makes the inputs: `of` says for which algorithm, and `input` grows
by one row, line, word, entry or encoder in each step of `Inputs`. Its constants
are the lengths and two texts; words are taken from a vocabulary of four, so that
they differ.

### 2.9 QwenInstaller

One action per change of the disk: the bundle is staged, its runtime, models and
metadata added, verified, the former bundle is moved aside, the new one takes
its place, and the former one is restored or removed. `dest`, `staging` and
`backup` are the three directories, `lock` is `_qwen_install_lock`, `before` (a
history variable) what a request found. A crash may come anywhere. The retries
on a locked file are one action that happens or raises, since an attempt that
fails changes nothing.

## 3. Runs

| Run | Instance | Shows |
| --- | --- | --- |
| `pipeline_runs` | 2 runs of one task | one execution, which the record names; no orphaned "processing", reservation or cleanup; outcomes stand; every run and cleanup ends |
| `retired_run_is_silent` | 1 run, no fairness; a violation | finding 1 |
| `gpu_stages` | 5 stages (1 ASR, 2 LM Studio, 2 TTS), no faults, fair | exclusion of models, no lost wake-up of the server's loop, cleanup, refinement of `FairLock` with its liveness |
| `gpu_faults` | 4 stages, all faults | leases exclude each other even then |
| `gpu_loops` | 4 stages, no faults; a violation | finding 2 |
| `task_events` | 2 runs and a job, 4 revisions, queue of 2, 1 callback, wire of 1, fair | consistent snapshots, fencing, no stream closed by an old run, the screen goes back only when the task is opened, and catches up |
| `task_operations` | 2 jobs, 2 contents, no windows, fair | operations exclude each other, reservations stand and are released, preflight sees all work, only confirmed subtitles are consumed, work ends |
| `dubbing` | 3 providers, 2 utterances, 2 texts and a blank one, 2 voices, 2 dubbings, Qwen's model replaced once | nothing is left behind, what is heard is the present text, voice and model, nothing is spoken twice, a dubbing ends unless it waits for the GPU or one ffmpeg for ever |
| `subtitle_versions` | 2 rows, 2 tracks, 8 files, 2 transcriptions | refinement of `UndoPoint`, the recognised original stays readable, source and translation keep the same times |
| `translation_batches` | 4 rows, batches of 2, 1 retry, 2 providers | a row's translation is its own or marked for review, and a translation ends |
| `algorithms` | every input of up to 3 rows, 3 lines, 3 words, 2 entries, 3 encoders | timing repair is harmless, complete and reversible; a script is spoken whole and in time or refused; no word is lost; settings survive; a rendering is what the user chose and survives hardware that fails at work |
| `qwen_installer` | 2 requests, 2 devices, revisions 0 to 4 | a complete bundle is never lost, a failed request leaves what it found |

Why the bounds are enough. `start` refuses a run while another one executes, so
at most one run is retiring beside the current one; a third would repeat the
second. Five GPU stages give a holder, a head and waiters behind it of each
kind and of three loops. Four revisions let a run or a job start and end, the
next one start, and one more write come between them: an event of the first is
then late for the second. A queue of two is the shortest that can drop an
event and keep another, and a wire of one message is enough for a reordering
between a response and an event. Of two jobs one may wait for voice discovery
while the other works; a third is refused like the second. Two contents are the
text the user saw and another one, and a text that changes and changes back.
Two utterances and two dubbings let the first one be cached, fail, be
cancelled or crash before the second one looks it up, with another text or
voice; all dubbings of a behaviour go to one provider, since no other looks up
its entries. A model that changes once is enough for an old entry beside a new
one. Two subtitle rows can overlap, be edited apart, be retimed and translated;
eight names are as many as a staged repair of two tracks, a version and an
original refer to at a time, and a second transcription meets the remains of the
first. Four rows make two batches, a batch of two the shortest that can be
displaced. Two install requests are one that waits and one that works, and of
the revisions one is older, one is current, one newer, and 0 unreadable. The
algorithms get their input element by element, so that every prefix is an input
too; the rows' times are chosen around each threshold, three rows have a
neighbour on both sides, and three words lie in, before and after an overlap of
chunks. The search for a tempo halves 4 times instead of 20, and 2 utterances
instead of 8 are proposed for shortening: the properties say what any number of
halvings must. Three encoders are one that fails, one that replaces it, and
another that must not. No symmetry is used, so the liveness checks are sound.

`CHECK_DEADLOCK FALSE` everywhere: each run may be used once, each stage runs
once, a deleted task has nothing left to do, the bounded dubbings, translations
and requests end, and an input has its full length: the system may really stop.

Fairness. Weak fairness of a coroutine, a thread, a worker's callback or a
connection's generator is what the event loop and the operating system give
ready callbacks and threads; of a GPU stage's end it rests on the timeouts of its
provider. A rendering's ffmpeg has no deadline (`process.wait()` in
`video_burn_service.py:324`, `363`): that it ends is an assumption about the
environment, on which `RunsEnd`, `CleanupEnds` and `WorkEnds` rest. Weak
fairness of `Recover` says that the application is opened again.

In `gpu_stages` a waiter's turn is fair once it has been told (`Awake`), and
nothing tells a loop that sleeps; hence the liveness of `FairLock` is for the
server's stages only. Fairness of the dubbing's thread includes the deadlines of
its speech requests, which the code enforces by killing the process, and that of
Kokoro its thread; nothing is assumed of a child process, and not that the GPU's
turn comes. `DubEnds` says so in its condition: if again and again the dubbing
does not wait for its turn at the GPU, or for an ffmpeg that is at work (but for
the muxing one after a cancellation), then it ends. Without an end of what it
waits for it does not.

Fairness of a translation rests on the timeout of each HTTP request and, like
that of a pipeline's stages, on its turn at the GPU. `gpu_stages` shows that the
manager gives it to the head of the line; that the line moves on assumes besides
that no dubbing sleeps at its head (observation 3).

`ScreenCatchesUp` needs strong fairness of `OnMessage` and of `FetchApply`: a
network that breaks again and again delivers now and then, and a user who opens
the task again and again lets an answer come through now and then. It needs
nothing of the threads that publish: the keepalive makes up for what they do not
deliver.

Nothing is assumed of the user: starts, cancellations, edits, reviews and
crashes are never fair.

## 4. What the models found

Two violations are runs of the project. `PROJECT.json` quotes the sentence that
each disagrees with.

1. *A retired rendering still writes.* `pipeline_service.py:374` promises that
   no retiring worker publishes after a cancellation. The stderr reader of
   `burn` (`video_burn_service.py:322`) is a plain thread in which no run is
   current, so its progress writes are not fenced and may overwrite the
   published status. (`retired_run_is_silent`)
2. *A dubbing cannot wait behind another loop's stage* (`gpu_manager.py:76`):
   the shared `asyncio.Condition` raises in a second loop. (`gpu_loops`)

Nine more are observations that a configuration in this directory reproduces,
by the counterexample that TLC prints. They are kept beside the runs as
regression material; the passing runs exclude them by a constant (`Faults`,
`Windows`, `Replaced`) or by the property's own condition, never by leaving the
step out.

3. *A dubbing that waited first is not woken* (`gpu_manager.py:100`): then the
   condition is of its loop, the release comes from the server's thread, and
   `notify_all` does not wake a loop that blocks. The GPU stays free with a line
   behind the dubbing, against the first line of the file.
   (`tlc -config MCGPUOversleep.cfg MCGPUStages`)
4. *A job's last event closes the stream of a pipeline* (`events.py:159`):
   `burn()` writes its outcome, a pipeline starts, and then `_run_burn_task`'s
   own terminal event arrives, without a run or a revision to tell it by;
   `events.py:157-158` says that this must not be.
   (`tlc -config MCTaskEventsJob.cfg MCTaskEvents`)
5. *A raising status callback keeps the GPU.* `acquire` notifies before its
   `try` and after its grant (`gpu_manager.py:72`, `92`); the callback writes
   the history file. If that raises, the request stays in the queue or the
   lease with nobody. (`tlc -config MCGPUCleanup.cfg MCGPUStages`)
6. *A cancelled load overlaps with the next stage* (`lm_studio_lifecycle.py:33`).
   (`tlc -config MCGPUImpatient.cfg MCGPUStages`)
7. *A closing write ends the next operation's reservation* (`burn.py:35`,
   `dubbing.py:53`): it follows an outcome that has already admitted the next
   request, and does not check whose reservation it ends.
   (`tlc -config MCOperationsTail.cfg MCTaskOperations`)
8. *Work beside a transcription hides it* (`tasks.py:129`): a transcription
   outside the pipeline is known by the status only. A rendering admitted beside
   it overwrites that status, and deletion's and retry's preflight then passes.
   (`tlc -config MCOperationsTranscription.cfg MCTaskOperations`)
9. *Speech of an old Kokoro model is kept under the new one's name*
   (`kokoro.py:117`, `speech_cache.py:37-42`): the instance of the process stays
   loaded when `KOKORO_MODEL_PATH` changes, a setting said to hold for the next
   task, while the cache's fingerprint is of the files now configured.
   (`tlc -config MCDubbingKokoro.cfg MCDubbing`)
10. *One provider is started and another one asked*
   (`translation_service.py:540`, `549-550`): the provider's name is read before
   the wait for its startup, the configuration after it.
   (`tlc -config MCTranslationSettings.cfg MCTranslationBatches`)
11. *Opening a task may show an older state for a moment* (`App.jsx:88-91`):
   the list's entry is shown as it is, and is older than the screen when the
   last answer of `readSelectedTask` did not update the list. The answer to the
   request that follows puts it right.
   (`tlc -config MCTaskEventsOpen.cfg MCTaskEvents`)

Reading the code for the models also showed, without a run: a dubbing one of whose
track's ffmpeg processes hangs never ends, cancelled or not
(`dubbing_service.py:405`; `DubEnds` excepts it); a load of the
settings stops at the first malformed value, and the next save writes defaults
over the rest (`config.py:145-188`); keys of a newer version's file are dropped
by a save (`config.py:255`); `split_audio` does not end when the overlap is as
long as a chunk (`chunking_service.py:131`; the settings page cannot set that);
after a crash between the installer's two renames the former bundle stays under
its backup name, and leftover staging directories are never removed. With output
options, a second hardware encoder that fails fails the rendering although
software could do it, while the retry is logged as one "with software encoder"
(`video_burn_service.py:353`).

## 5. Proofs

Every theorem is for all values of the constants that meet its assumptions. Each
module's invariant is a conjunction of named parts; a lemma per action, or per
group of actions that disturb the same parts, says that the step keeps it, and
`InvariantStep` puts the lemmas together.

### 5.1 PipelineRunsProofs

For every set of runs and with the only assumption `NoRun \notin Runs`:
`TypeCorrect`, `Invariant`, from it `OneExecution`, `ProcessingHasOwner`,
`NoOrphanReservation`, `CleanupHasWorker` and `RetiringWorkerIsVisible` as
invariants, and `OutcomeIsFinal` as an action property.

`OneExecution` is not inductive by itself. That `start` sees every live
execution needs that live coroutines are registered (`CoroutineIsRegistered`)
and that workers belong to the run that the record names (`ExecutionIsRecorded`,
`WorkerFollowsCoroutine`). That a late write cannot undo an outcome needs that
the lease is closed as soon as the coroutine cannot publish any more
(`LeaseFollowsCoroutine`). That "cancelling" is resolved needs that the record's
cleanup belongs to a retired run with a worker whose callback is still to come
(`CleanupIsRetired`, `RetiringWorkerIsVisible`). That no reservation is orphaned
needs that one is only ever written by a claimed worker that its coroutine
awaits (`ReservationIsClaimed`). `DownIsEmpty` carries all of them over a restart.

### 5.2 GPUStagesProofs

For any number of stages on any event loops, in any order of arrival and with
whatever faults: `TypeCorrect`, `OneLease`, `ServerIsWoken` and `ImplementsLock`, that every
behaviour of the manager is one of `FairLock`'s (`Lock!Safety`; its liveness is
checked by TLC). `OneEngine` is proved for fault sets without "impatient" and
"unload", `CleanupGuaranteed` for those without "callback": observations 5 and 6 are
the counterexamples without these assumptions.

`ServerIsWoken` needs to know who is in the queue: exactly the stages that wait,
none twice (`LineIsWaiting`; the lemmas `JoinLine`, `ServeLine` and `QuitLine`
say what appending, taking the head and `list.remove` do to such a queue). Then
every step that frees the GPU or changes the head of the queue is one that
notifies, and whoever it does not reach sleeps in a loop of its own
(`SleeperHasOwnLoop`). The holder is who `_active` names (`LeaseIsHeld`, `OwnerHasLease`), a
model in memory is its holder's (`ModelIsLeased`), and who is over has left both
(`LeftClean`).

### 5.3 TaskOperationsProofs

For any number of jobs and any contents: `TypeCorrect`, and with `Windows = {}`
`OneOperation`, `ReservationStands`, `ProgressHasOwner` and
`ConsumedTextIsConfirmed` as invariants and `PreflightSeesWork` as an action
property. The assumption is the one under which TLC checks them (section 2.4);
observations 7 and 8 are the counterexamples without it.

A job's reservation stays in the record from its admission to its outcome
(`Reserved`), and every handler that starts something or touches the subtitles
refuses while there is one, so whoever is admitted is alone (`Exclusive`,
lemmas `StartIsAlone` and `JobIsAlone`). A decision is never left behind on
other subtitles (`DecisionIsCurrent`), and nobody changes the text of a job at
work, so the decision that admitted a job still holds when its thread reads the
text (`Admitted`). A transcription outside the pipeline starts with no files
(`StartsAnew`), so no consumer can be admitted beside it. Most handlers find
nobody at work; `QuietStep` has what such a step must show, and the lemmas of
the handlers cite it.

### 5.4 TaskEventsProofs

For any runs and any sizes of queue, callbacks and wire: `TypeCorrect`,
`EventsAreSnapshots` and `PublicationIsFenced` as invariants,
`OldRunDoesNotCloseStream` and `ScreenNeverGoesBack` as action properties. The
only assumption beside the sizes is that no run is called like one of the other
three threads or like "free".

`log` holds the record of each revision and the record is its last entry
(`LogIsComplete`), so whatever is copied from the record stays a snapshot of its
revision wherever the message goes: calls, queue, wire, response
(`MessagesAreSnapshots`). Who is between the check and the delivery holds the
run's lock (`LockIsHeld`); a lease is closed by a holder of the lock, and a new
run starts only when every lease is closed, so what is delivered under a lease
is the record's run (`Fenced`). A message with a revision that closes a stream
was not older than the record, so it is the record, which is at rest; any other
that does carries no revision.

What the client shows, keeps in its list and remembers are revisions that were
written. While it listens, and only then is there a message to read, its filter
remembers at least the revision on the screen; an answer under way is as new as
the screen, or the filter remembers that much (`ScreenIsKnown`). So what passes
the filter is no older than the screen, which gives the last property.

### 5.5 DubbingProofs

For any utterances, texts, voices, dubbings and models: `TypeCorrect`,
`ChildIsOwned`; and when Kokoro's model is not replaced while the program runs,
`SpeechIsOfText`, `NothingTwice` and `KeptUnderItsModel`. Observation 9 is the
counterexample without that assumption. `DubbingAssumption` asks for a text, an
utterance and one model at least, and that the blank texts are texts.

For the processes: outside a call only a worker may exist (`ClientKnowsChild`),
and Qwen's stage has its lease from its begin until its adapter is closed
(`LeaseIsHeld`), so each way out of a call meets the one `close_adapter` that
ends what is left; an ffmpeg is waited for by the step that started it. For the
speech: an entry is named after what it is, by a
model its provider has or has had (`EntriesAreTrue`); the look-up's context is
the present model, or none before the first download (`ContextIsModel`); and an
instance that has spoken was made from the files that are there
(`LoadedIsModel`). Hence what is taken from the cache is what would be spoken
now (`HeardIsPresent`), and each row written keeps `SpeechIsOfText`; only a blank
row is ever a placeholder (`BlankIsText`). The
download is the step that needs care: it changes the model under the rows
already spoken, and `ModelHasSpoken` says that there are none.

### 5.6 ServicesProofs: the installer

For any requests, devices and revisions: `TypeCorrect`, and `NothingLost` and
`FailureKeepsTheFormer` as action properties. Only the request with the lock
changes the disk (`LockIsHeld`); until it moves something, the destination is
what it found (`NothingMoved`); what it moved aside is in its backup as it was
(`FormerIsKept`); what it puts in place has been verified (`StagingIsReady`,
`NewIsInstalled`).

### 5.7 TranslationBatchesProofs

For any number of rows, any rows without text, any size of the batches, any
limit of retries, any answers of the model and any providers: `TypeCorrect` and
`RowsKeepTheirPlace`. The last says that a saved translation has a text for each
row that has one and blanks elsewhere, and that a row with another row's meaning
is in the review, or that the review says it is incomplete.

`RowsKeepTheirPlace` is about `saved` alone; the invariant is about the job on
its way there. What is done are the places before the batch, without a gap, and
what is left to ask are places of the batch in their order (`InOrder`). A batch
has as many rows as were asked before anything looks at it (`BatchIsFull`). In a
batch that is being put right every wrong row is a suspect, or the review is
incomplete (`SuspectsAreAll`); in what is done it is in the review
(`DoneIsRight`). `Ascending` lists a set in its order for any finite set
(`AscendingProperties`, by counting the smaller members); it is what takes the
numbers of rows with text to rows of the subtitles and back (`PlaceOfRow`), and
`ResultIsRight` uses that for the cleared rows.

That the auditor names at least the displaced rows, or fails, is a guard of
`AuditAnswers` and not proved of anything: it is a language model.

### 5.8 SubtitleVersionsProofs

`AnyRepairIsSafe`: `RepairIsSafe` for any sequence of tracks with any rows, in
or out of order, aligned or not. The run `algorithms` checks it of up to three
rows in one or two tracks (`RepairsAreSafe`); `RepairsAreSafeHolds` says that it
does at any number of rows. A change names a row whose only
conflict is the next one, and whose own only conflict it is (`ChangeOfPair`), so
ends only shrink, a trimmed row overlaps nobody any more, and an overlap that
stays has both its rows as they were (`OverlapsThatStay`). Hence a pair that is
isolated after the repair was isolated before it (`PairThatStays`), with the same
reason: there is nothing for a second repair.

For any tracks that may be heard, any edits, texts and times and any number of
file names and transcriptions: `TypeCorrect`, `OriginalIsKept`,
`TracksStayTogether` and `ImplementsUndoPoint`, that every behaviour of the
versions is one of `UndoPoint`'s. `VersionsAssumption` says that what is heard is
a track, that only its rows are edited and the types of texts and times;
`NoneAssumption` that `None` is none of the values it is compared with.

The invariant `IInv` relates files, record and staged operation. A name has a
file exactly as long as somebody may read it (`Held`); this is what makes fresh
names safe although names are used again. The record's pointers are different
files (`Apart`). The backups of the active version are in files of their own,
with what the tracks were when they were made, and the version's `new` is what
its changes make of its `old` (`Backed`, `Describes`). What is staged is under
names that neither the record nor its active version uses, with the contents
that it will bring (`Brings`). What was recognised is in the file named for it
(`Original`). `FreshNames` and `StoredFiles` say what choosing names and writing
files do; each operation then has a lemma that it keeps the invariant.

For the refinement, `PointNow` and `PointThen` read the undo point off the
record instead of the files. A step of `Transcribe` is `UndoPoint`'s, a
`Translate` that joins the repair is its `Translate`, and `Publish` is its
`Repair` or its `Undo`, by what is staged; staging, giving up, edits, other
translations and other writes of the record are its `Change` or a stutter.
`TracksStayTogether` follows from the same invariant: a version's tracks are
aligned, before the repair and after it.

### 5.9 ServicesProofs: the algorithms

Each of these is proved for inputs of any length and values, and then of the
inputs that the run `algorithms` makes (`...Holds`), at any value of its
constants; for that, an invariant says of which type those inputs are
(`IsScript`, `IsSpeech`, `IsConfiguration`, `IsMachine`).

| Theorem | For any | Property of the run |
| --- | --- | --- |
| `AnyScriptKeepsTime` | rows at any times, lengths of speech, length of the video; any number of halvings and targets | `ScriptsKeepTime` |
| `AnyRecordingIsCovered`, `AnySplitKeepsWords`, `AnySpeechIsKept` | recording, chunk longer than the overlap, limit; words that differ and are no longer than the overlap | `SpeechIsKept` |
| `AnySettingsSurvive` | version, sequence of entries, update; sets of keys and values that hold the ones the model tells apart | `SettingsArePreserved` |
| `AnyRenderingKeepsStrategy` | machine, options, set of failing encoders; source whose sides are 2 pixels or more and at most 960 to 1 | `RenderingsKeepStrategy` |

*Induction.* The library states it with an operator as a parameter, which the
provers cannot instantiate. Here it is stated of sets: `EveryNumber` (a set with
0, and with n + 1 for each n in it, has every number) and `EachStep` (the same
up to a bound), proved from the library's theorem about well-founded orders.
`Recursion` and `RecursionFromOne` say in the same way that a function defined
step by step exists and satisfies its equation. A proof about a loop then has
three parts: its equation (`GroupingDef`, `SearchDef`, `ReadingDef`,
`SplittingDef`, ...), the loop's invariant as a set of numbers
(`GroupingKeeps`, `SearchKeeps`, `SplittingKeeps`, `DeduplicatingKeeps`, ...),
and what it gives at the last pass.

*The timeline.* An utterance is placed at the latest of three times, which do
not grow with the tempo once multiplied out (`FasterIsEarlier`); so what fits at
one tempo fits at each faster one (`FasterFits`), which the bisection relies on:
its upper end always fits and its lower end never does (`SearchKeeps`,
`TempoParts`). When nothing fits at the cap, the utterance that is late the most
is later than the one before it, so its own speech is too long for its share
(`SomeIsLate`, `LateIsOverlong`), and the targets named to the user are utterances
whose shortening is needed (`TargetsParts`, `RefusedRightly`). The grouping keeps
the rows in order, none lost and none twice, and an envelope as long as it may be
(`FlushedParts`, `JoinedParts`, `AddedRow`).

*Speech.* A chunk begins before the overlap of the one before it ends, so a word
that does not fit in the one it starts in fits in the next (`AnyRecordingIsCovered`).
The split of a segment is a partition of its words into runs (`SplittingKeeps`),
whose texts flatten to the segment's (`RowsHaveTheWords`). A row that says word k
is one of a set, `Saying`: the words i to j around it, at the time of word i to the
time of word j. Some row of the pieces is in that set for every word
(`PiecesSayAll`), the sort keeps it (`InOrderParts`), and of two doubled rows both
have the same text, so, as the words differ, either of them is in the set again
(`DoublesSayTheSame`): dropping one loses nothing. A row of the recording survives
the cut to its length (`SayingIsKept`).

*Settings.* Reading the file is a loop whose state is the values read, the
entries that are not known and whether it has stopped; what was stored by a save
is read again as it is (`ReadAgain`, `SavedIsFound`), and a file that is readable
is what its save would write (`ReadableIsKept`).

*Renderings.* Sizes are compared as quotients by products: one of the three scales
is the least (`ScaleExists`), both sides are rounded down to it by less than two
pixels (`ScaledParts`), so the shape differs by less than that (`ShapeIsKept`). The
bound on the source is where the code's minimum of two pixels sets in; a picture
that is much narrower is distorted by it. What is tried is admitted, and
software is tried for everything that it may replace (`TriesParts`); software takes
any width (`SoftwareFits`), so a plan is left when the hardware that failed is
excluded (`SubstitutesPlan`, `SubstitutesKeep`).

### 5.10 Only model-checked

- Liveness, which needs fairness and ENABLED: `RunsEnd`, `CleanupEnds`,
  `ScreenCatchesUp`, `WorkEnds`, `DubEnds`, `TranslationEnds`, and the liveness
  of `FairLock` in `ImplementsFairLock`. The prover does not reason about ENABLED.

Every invariant and every safety property that a passing run checks is stated by
a theorem.

## 6. Not modelled

- `PipelineRuns` leaves out the check of `translation_busy` and of standalone
  reservations in `start`, which `TaskOperations` has, and an operating system
  that refuses a thread. What a stage computes is its outcome.
- `GPUStages` leaves out the timeout of `acquire`, which no caller passes, and
  the Ollama lifecycle, which has the same order of load, use and unload but
  awaits HTTP requests on the loop where LM Studio's commands run in threads.
- `TaskOperations` makes the writes of one handler between two awaits one step;
  a crash inside a handler is a listed hazard without a property. It has one
  task and one target language; deleting all tasks, workflow options and the
  cancellation of a standalone rendering are left out.
- `Dubbing` leaves out Kokoro's second download when a cached model turns out to
  be invalid (`kokoro.py:147-155`), the checksums of artifacts, and what a
  remote provider does beyond answering. A llama-tts process that outlives a
  crash of the program until its utterance ends is taken as gone, and so is an
  ffmpeg.
- `TaskEvents` has one listener's connection for the two that the interface may
  open, one job at a time, and no selection of another task in between. A
  record's status is active or at rest, as `_active` says; App's listener looks
  at the status alone, and so may stop listening to a pipeline whose record still
  has a job's last status, until it reads the task again.
- `SubtitleVersions` has one translation. Review decisions are in
  `TaskOperations`.
- `TranslationBatches` leaves out the shortening of utterances after the user's
  approval (`compress_for_dubbing`) and the HTTP clients.
- `AsrChunks` has words with different texts: `deduplicate_segments` may merge
  overlapping rows of a word that is said twice. Remote transcription, the
  choice of a device and the quality report are not modelled.
- `QwenInstaller` leaves out preflight and status, which only read, and a
  dubbing that loads the bundle while it is replaced.
- `VideoPlans` leaves out ffmpeg's options, the five minutes that a probe's answer
  is kept, a probe that depends on height or rate, frame rates other than 30 for
  a source without a rate, and the plan without overlays, which copies the stream.
- Not modelled at all: the interface's request scopes (a list of tickets that
  `TaskEvents` has in the small, as `fetch`), text layout, path and request checks, hardware and font detection,
  file dialogs, packaging and the interface's components. Except for the first
  these are pure functions, I/O or scripts that run once.

`PROJECT.json` lists every component with its status, and every hazard with the
properties that cover it or the reason why none does.

## 7. Plan

Done, in this order: `PipelineRuns`, `GPUStages` refining `FairLock`,
`TaskEvents`, `TaskOperations`; `SubtitleVersions` refining `UndoPoint`;
`Dubbing` with the worker processes; `TranslationBatches`; the algorithms in one
run, with `Settings` and `VideoPlans`; `QwenInstaller`; the proofs of section 5.

Left, the most useful first:

1. `compress_for_dubbing` beside `DubbingTimeline`'s targets.
2. The client's request scopes over A -> B -> A selections of a task.

## 8. Running

    tlc -config MCPipelineRuns.cfg MCPipelineRuns
    tlc -config MCTaskOperations.cfg MCTaskOperations
    tlapm PipelineRunsProofs.tla
    tlapm GPUStagesProofs.tla
    tlapm TaskEventsProofs.tla
    tlapm TaskOperationsProofs.tla
    tlapm DubbingProofs.tla
    tlapm TranslationBatchesProofs.tla
    tlapm SubtitleVersionsProofs.tla
    tlapm ServicesProofs.tla

The last takes about ten minutes from nothing, the others less. `PROJECT.json`
("runs") names the module and the configuration of each run.
