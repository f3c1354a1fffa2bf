------------------------------ MODULE Dubbing ------------------------------
(***************************************************************************)
(* One task's dubbing: DubbingService.dub, its speech cache, and the       *)
(* processes that speak and render for it.                                 *)
(*                                                                         *)
(* The dubbing runs in a background thread.  It speaks the utterances one  *)
(* after the other with one of three providers: "cosyvoice" keeps a worker *)
(* process for the whole dubbing and talks to it over a pipe; "qwen"       *)
(* starts a llama-tts process for each utterance, on the GPU first and, if *)
(* that fails, on the CPU; "kokoro" speaks in a thread of the program, and *)
(* downloads its model when it is first used.  The track is then made of   *)
(* the speeches by one ffmpeg process after the other.  A child process    *)
(* answers, fails, dies or hangs as it likes, and the program may crash    *)
(* anywhere.                                                               *)
(*                                                                         *)
(* A speech is the record of what was said by which voice with which       *)
(* model; speed and language belong to the voice.  Assumed: a killed       *)
(* process ends, and models are replaced only between two dubbings.        *)
(* Whether the GPU's turn comes is a question to GPUStages.                *)
(***************************************************************************)
EXTENDS Naturals, FiniteSets

CONSTANTS Providers, Texts, Voices,
          Blank,        \* texts with nothing to speak; dub() itself groups them away
          Utterances,   \* how many utterances a task has
          Replaced,     \* providers whose model changes while the program runs
          MaxModel,     \* bound: how often a model is replaced
          MaxDubs       \* bound: how many dubbings are started

ASSUME DubbingAssumption ==
  /\ Providers \subseteq {"cosyvoice", "qwen", "kokoro"} /\ Replaced \subseteq Providers
  /\ Blank \subseteq Texts
  /\ Texts # {} /\ Utterances \in Nat \ {0} /\ MaxModel \in Nat \ {0} /\ MaxDubs \in Nat

VARIABLES
  status,   \* dubbing_status in the record
  dub,      \* the thread that runs dub()
  cancel,   \* the task's entry in _cancel_events
  texts,    \* the utterances of this dubbing
  raw,      \* raw_000000.wav ...: the speech of the utterances done
  heard,    \* what the provider or the cache returned for the present one
  cache,    \* the task's speech-cache directory: its .wav and .json files
  model,    \* the identity of each provider's model files; 0 when missing
  loaded,   \* the model in Kokoro's shared instance; 0 before its first use
  child,    \* the child process, or the thread that speaks with Kokoro
  client,   \* the worker's owner: what it waits for, and its device
  ffmpeg    \* the ffmpeg process that the dubbing waits for, and how it ended

vars == <<status, dub, cancel, texts, raw, heard, cache, model, loaded, child, client, ffmpeg>>

Models == 0..MaxModel
Speech == [provider: Providers, text: Texts, voice: Voices, model: Models]
Silent == [provider |-> "none"]
Rows   == 1..Utterances

NoChild == [kind |-> "none", at |-> "gone", says |-> "nothing"]
Child   == [kind: {"worker", "llama", "thread"},
            at: {"loading", "idle", "busy", "gone"},
            says: {"nothing", "ready", "done", "error"}]
NoTexts == [i \in Rows |-> CHOOSE t \in Texts : TRUE]
NoDub   == [pc |-> "idle", row |-> 1, provider |-> "none", voice |-> "none", ctx |-> 0,
            fresh |-> TRUE, started |-> FALSE, lease |-> FALSE, fate |-> "none", todo |-> 0,
            count |-> 0]

\* How many processes make the track: one for each speech, the gaps before
\* some of them, silence at the end perhaps, and the joining.
Renderings == Utterances + 1..2 * Utterances + 2
Left       == 0..2 * Utterances + 2

TypeOK ==
  /\ status \in {"none", "processing", "completed", "cancelled", "compression", "failed"}
  /\ dub \in [pc: {"idle", "row", "blank", "lease", "speak", "wav", "json", "write", "close",
                   "release", "trim", "fit", "mux", "publish", "except", "finally"},
              row: 1..Utterances + 1, provider: Providers \cup {"none"},
              voice: Voices \cup {"none"}, ctx: Models, fresh: BOOLEAN, started: BOOLEAN,
              lease: BOOLEAN, fate: {"none", "cancelled", "compression", "failed"},
              todo: Left, count: 0..MaxDubs]
  /\ cancel \in {"none", "clear", "set"}
  /\ texts \in [Rows -> Texts]
  /\ raw \in [Rows -> Speech \cup {Silent}] /\ heard \in Speech \cup {Silent}
  /\ cache.wav \subseteq [key: Speech, speech: Speech] /\ cache.json \subseteq cache.wav
  /\ model \in [Providers -> Models] /\ loaded \in Models
  /\ child \in Child \cup {NoChild}
  /\ client \in [at: {"none", "start", "wait"}, device: {"none", "gpu", "cpu"}]
  /\ ffmpeg \in {"none", "busy", "done", "failed"}

Init ==
  /\ status = "none" /\ dub = NoDub /\ cancel = "none"
  /\ texts = NoTexts
  /\ raw = [i \in Rows |-> Silent] /\ heard = Silent
  /\ cache = [wav |-> {}, json |-> {}]
  /\ model = [p \in Providers |-> IF p = "kokoro" THEN 0 ELSE 1] /\ loaded = 0
  /\ child = NoChild
  /\ client = [at |-> "none", device |-> "none"] /\ ffmpeg = "none"

files  == <<raw, heard, cache>>
models == <<model, loaded>>
worker == <<child, client, ffmpeg>>

-----------------------------------------------------------------------------
(* The dubbing thread.                                                     *)

Text  == texts[dub.row]
Ended == [NoDub EXCEPT !.count = dub.count, !.provider = dub.provider]

\* dub(): the events are registered once the request is valid.  Bound: all
\* dubbings go to one provider, whose cache entries no other looks up.
Begin(p, v, new) ==
  /\ dub.pc = "idle" /\ dub.count < MaxDubs /\ dub.provider \in {"none", p}
  /\ p = "kokoro" \/ model[p] > 0
  /\ dub' = [NoDub EXCEPT !.pc = "row", !.provider = p, !.voice = v, !.ctx = model[p],
                          !.count = dub.count + 1]
  /\ texts' = new
  /\ cancel' = "clear"
  /\ status' = "processing"
  /\ raw' = [i \in Rows |-> Silent] /\ heard' = Silent
  /\ client' = [at |-> "none", device |-> "none"]
  /\ UNCHANGED <<cache, models, child, ffmpeg>>

Goto(pc) == dub' = [dub EXCEPT !.pc = pc]

\* An exception inside _synthesize_all: its finally clause closes the adapter.
Abandon(fate) == dub' = [dub EXCEPT !.pc = "close", !.fate = fate]

\* Faulty variant: the voice is not part of a cache entry's name.
KeyOfText(text, ctx) ==
  [provider |-> dub.provider, text |-> text, voice |-> CHOOSE v \in Voices : TRUE, model |-> ctx]

\* SpeechCache._key: the fingerprint of what an utterance is spoken from.
Key(text, ctx) == [provider |-> dub.provider, text |-> text, voice |-> dub.voice, model |-> ctx]

\* SpeechCache.get: an entry counts when its .json vouches for its .wav.
Kept(key) == {e \in cache.wav \cap cache.json : e.key = key}

\* _run_ffmpeg starts its process, which fails if it cannot be started, and
\* waits for it: without a deadline, and without a look at the cancel event.
Run == ffmpeg' \in {"busy", "failed"}

\* The head of the loop in _synthesize_all.
NextRow ==
  /\ dub.pc = "row"
  /\ \/ dub.row > Utterances /\ Goto("close") /\ UNCHANGED <<heard, ffmpeg>>
     \/ dub.row <= Utterances /\ cancel = "set" /\ Abandon("cancelled") /\ UNCHANGED <<heard, ffmpeg>>
     \/ /\ dub.row <= Utterances /\ cancel # "set" /\ Text \in Blank
        /\ Goto("blank") /\ Run
        /\ UNCHANGED heard
     \/ /\ dub.row <= Utterances /\ cancel # "set" /\ Text \notin Blank
        /\ \E e \in Kept(Key(Text, dub.ctx)) : heard' = e.speech
        /\ Goto("write")
        /\ UNCHANGED ffmpeg
     \/ /\ dub.row <= Utterances /\ cancel # "set" /\ Text \notin Blank
        /\ Kept(Key(Text, dub.ctx)) = {}
        /\ Goto(IF dub.started THEN "speak" ELSE "lease")
        /\ UNCHANGED <<heard, ffmpeg>>
  /\ UNCHANGED <<status, cancel, texts, raw, cache, models, child, client>>

\* A blank utterance's place is kept by a silence that ffmpeg writes.
WriteSilence ==
  /\ dub.pc = "blank" /\ ffmpeg # "busy" /\ ffmpeg' = "none"
  /\ \/ /\ ffmpeg = "done"
        /\ raw' = [raw EXCEPT ![dub.row] = Silent]
        /\ dub' = [dub EXCEPT !.pc = "row", !.row = @ + 1]
     \/ ffmpeg # "done" /\ Abandon("failed") /\ UNCHANGED raw
  /\ UNCHANGED <<status, cancel, texts, heard, cache, models, child, client>>

\* startup of the stage: the GPU's for Qwen, nothing for the others.  A stage
\* that was begun is shut down, whether its startup succeeded or not.
Startup(succeeds) ==
  /\ dub.pc = "lease"
  /\ succeeds \/ dub.provider = "qwen"
  /\ dub' = [dub EXCEPT !.started = TRUE,
                        !.lease = succeeds /\ dub.provider = "qwen",
                        !.pc = IF succeeds THEN "speak" ELSE "close",
                        !.fate = IF succeeds THEN @ ELSE "failed"]
  /\ UNCHANGED <<status, cancel, texts, files, models, worker>>

\* Faulty variant: the entry is stored under the model found before the call.
OldContext == dub.ctx

\* The first synthesis may have downloaded the model: its entry, and all later
\* look-ups, go by the identity found now.
NewContext == IF dub.fresh THEN model[dub.provider] ELSE dub.ctx

\* SpeechCache.put, the .wav: a failed write is only logged.
PutWav(succeeds) ==
  /\ dub.pc = "wav"
  /\ LET key == Key(Text, NewContext)
     IN cache' = IF succeeds
                 THEN [wav  |-> {e \in cache.wav : e.key # key} \cup {[key |-> key, speech |-> heard]},
                       \* an older .json does not vouch for these bytes
                       json |-> {e \in cache.json : e.key # key}]
                 ELSE cache
  /\ dub' = [dub EXCEPT !.pc = IF succeeds THEN "json" ELSE "write",
                        !.ctx = NewContext, !.fresh = FALSE]
  /\ UNCHANGED <<status, cancel, texts, raw, heard, models, worker>>

PutJson(succeeds) ==
  /\ dub.pc = "json"
  /\ cache' = IF succeeds
              THEN [wav  |-> cache.wav,
                    json |-> cache.json \cup {e \in cache.wav : e.key = Key(Text, dub.ctx)}]
              ELSE cache
  /\ Goto("write")
  /\ UNCHANGED <<status, cancel, texts, raw, heard, models, worker>>

WriteRaw ==
  /\ dub.pc = "write"
  /\ raw' = [raw EXCEPT ![dub.row] = heard]
  /\ dub' = [dub EXCEPT !.pc = "row", !.row = @ + 1]
  /\ heard' = Silent
  /\ UNCHANGED <<status, cancel, texts, cache, models, worker>>

\* Faulty variant: the adapter is only closed when all went well.
ClosedWorker == IF dub.fate = "none" THEN NoChild ELSE child

\* close_adapter: a worker is asked to end, then terminated, then killed.
CloseWorker == NoChild

CloseAdapter ==
  /\ dub.pc = "close"
  /\ child' = CloseWorker
  /\ client' = [at |-> "none", device |-> "none"]
  /\ Goto("release")
  /\ UNCHANGED <<status, cancel, texts, files, models, ffmpeg>>

\* shutdown of the stage, and the way on: an exception skips the rest of dub().
Release ==
  /\ dub.pc = "release"
  /\ dub' = [dub EXCEPT !.lease = FALSE, !.todo = Utterances,
                        !.pc = IF dub.fate = "none" THEN "trim" ELSE "except"]
  /\ UNCHANGED <<status, cancel, texts, files, models, worker>>

Throw(fate) == dub' = [dub EXCEPT !.pc = "except", !.fate = fate]

OfTrack == UNCHANGED <<status, cancel, texts, files, models, child, client>>
RunOne  == dub.todo > 0 /\ dub' = [dub EXCEPT !.todo = @ - 1] /\ Run

\* _build_timeline trims one speech after the other, and takes one that cannot
\* be trimmed as it is.  Then it plans, which may be refused.
Trim ==
  /\ dub.pc = "trim" /\ ffmpeg # "busy"
  /\ \/ RunOne
     \/ /\ dub.todo = 0 /\ ffmpeg' = "none"
        /\ \/ \E n \in Renderings : dub' = [dub EXCEPT !.pc = "fit", !.todo = n]
           \/ Throw("compression") \/ Throw("failed")
  /\ OfTrack

\* It makes the track, which is copied to the outputs and muxed.
BuildTimeline ==
  /\ dub.pc = "fit"
  /\ \/ ffmpeg \in {"none", "done"} /\ RunOne
     \/ ffmpeg = "done" /\ dub.todo = 0 /\ Goto("mux") /\ Run
     \/ ffmpeg = "done" /\ dub.todo = 0 /\ Throw("failed") /\ ffmpeg' = "none"
     \/ ffmpeg = "failed" /\ Throw("failed") /\ ffmpeg' = "none"
  /\ OfTrack

\* _mux_video: a loop that polls ffmpeg and the cancel event.
Mux ==
  /\ dub.pc = "mux"
  /\ \/ ffmpeg = "done" /\ Goto("publish")
     \/ ffmpeg = "failed" /\ Throw("failed")
     \/ ffmpeg = "busy" /\ cancel = "set" /\ Throw("cancelled")
  /\ ffmpeg' = "none"
  /\ OfTrack

Publish ==
  /\ dub.pc = "publish"
  /\ status' = "completed"
  /\ Goto("finally")
  /\ UNCHANGED <<cancel, texts, files, models, worker>>

Outcome == dub.fate

\* The except clauses of dub(); a refused timeline outside a pipeline "failed".
Except ==
  /\ dub.pc = "except"
  /\ \/ status' = Outcome
     \/ dub.fate = "compression" /\ status' = "failed"
  /\ Goto("finally")
  /\ UNCHANGED <<cancel, texts, files, models, worker>>

Finally ==
  /\ dub.pc = "finally"
  /\ raw' = [i \in Rows |-> Silent]
  /\ cancel' = "none" /\ texts' = NoTexts
  /\ dub' = Ended
  /\ UNCHANGED <<status, heard, cache, models, worker>>

-----------------------------------------------------------------------------
(* Speaking one utterance: adapter.synthesize.                             *)

Calling == dub.pc = "speak"
Now(at) == client' = [client EXCEPT !.at = at]

Give(fate) == Abandon(fate) /\ Now("none") /\ UNCHANGED heard

\* The answer is taken, unless the task was cancelled meanwhile.
Take ==
  /\ Now("none")
  /\ \/ cancel = "set" /\ Abandon("cancelled") /\ UNCHANGED heard
     \/ /\ cancel # "set"
        /\ heard' = [Key(Text, 0) EXCEPT !.model = IF dub.provider = "kokoro" THEN loaded
                                                   ELSE model[dub.provider]]
        /\ Goto("wav")

Spawn(kind, at) == child' = [kind |-> kind, at |-> at, says |-> "nothing"]

\* Before anything is asked of a provider, it looks at the cancel event.
CancelBeforeCall ==
  /\ Calling /\ client.at = "none" /\ cancel = "set"
  /\ Give("cancelled")
  /\ UNCHANGED child

Asking == Calling /\ client.at = "none" /\ cancel # "set"

\* CosyVoice: a worker that is alive gets the request, else one is started.
AskWorker ==
  /\ Asking /\ dub.provider = "cosyvoice"
  /\ IF child.at = "idle" THEN Spawn("worker", "busy") /\ Now("wait")
     ELSE Spawn("worker", "loading") /\ Now("start")
  /\ UNCHANGED <<dub, heard>>

\* start(): until the worker is ready, cancellation is not looked at.
WorkerStarted ==
  /\ Calling /\ client.at = "start"
  /\ \/ child.says = "ready" /\ child.at = "idle"
        /\ Spawn("worker", "busy") /\ Now("wait") /\ UNCHANGED <<dub, heard>>
     \/ child.at = "gone" /\ child' = NoChild /\ Give("failed")

WorkerAnswers ==
  /\ Calling /\ client.at = "wait" /\ child.kind = "worker"
  /\ \/ child.says = "done" /\ Take /\ child' = [child EXCEPT !.says = "nothing"]
     \/ child.says # "done" /\ child.at = "gone" /\ Give("failed") /\ UNCHANGED child

\* A request that is cancelled or late has its process killed.
CancelCall ==
  /\ Calling /\ client.at = "wait" /\ child.kind \in {"worker", "llama"} /\ cancel = "set"
  /\ child' = NoChild
  /\ Give("cancelled")

\* Faulty variant: a request waits as long as it takes.
NoDeadline == FALSE

HasDeadline == child.kind \in {"worker", "llama"}

Timeout ==
  /\ Calling /\ client.at \in {"start", "wait"} /\ HasDeadline
  /\ child' = NoChild
  /\ Give("failed")

\* llama-tts: the artifacts are verified once, then each utterance has its own
\* process, which may fail to start.
AskLlama ==
  /\ Asking /\ dub.provider = "qwen"
  /\ \/ /\ client.device # "none"
        /\ Spawn("llama", "busy") /\ Now("wait")
        /\ UNCHANGED <<dub, heard>>
     \/ /\ client.device # "none"
        /\ child' = [kind |-> "llama", at |-> "gone", says |-> "error"] /\ Now("wait")
        /\ UNCHANGED <<dub, heard>>
     \/ /\ client.device = "none"
        /\ \E d \in {"gpu", "cpu"} : client' = [at |-> "none", device |-> d]
        /\ UNCHANGED <<dub, heard, child>>
     \/ client.device = "none" /\ Give("failed") /\ UNCHANGED child

\* A process that failed on the GPU is tried once more on the CPU, where the
\* client stays, if the settings allow it and nobody has cancelled.
LlamaEnds ==
  /\ Calling /\ client.at = "wait" /\ child.kind = "llama" /\ child.at = "gone"
  /\ child' = NoChild
  /\ \/ child.says = "done" /\ Take
     \/ child.says # "done" /\ client.device = "gpu" /\ cancel # "set"
        /\ client' = [at |-> "none", device |-> "cpu"] /\ UNCHANGED <<dub, heard>>
     \/ child.says # "done" /\ client.device = "gpu" /\ cancel = "set" /\ Give("cancelled")
     \/ child.says # "done" /\ Give("failed")

\* Kokoro speaks in a thread, which is waited for.
AskKokoro ==
  /\ Asking /\ dub.provider = "kokoro"
  /\ Spawn("thread", "busy") /\ Now("wait")
  /\ UNCHANGED <<dub, heard>>

KokoroEnds ==
  /\ Calling /\ client.at = "wait" /\ child.kind = "thread" /\ child.at = "gone"
  /\ child' = NoChild
  /\ \/ child.says = "done" /\ Take
     \/ child.says = "error" /\ Give("failed")

Speak ==
  /\ \/ CancelBeforeCall \/ AskWorker \/ WorkerStarted \/ WorkerAnswers \/ CancelCall \/ Timeout
     \/ AskLlama \/ LlamaEnds \/ AskKokoro \/ KokoroEnds
  /\ UNCHANGED <<status, cancel, texts, raw, cache, models, ffmpeg>>

-----------------------------------------------------------------------------
(* The processes, the user, and the machine.                               *)

OfChild == UNCHANGED <<status, dub, cancel, texts, files, client, ffmpeg>>

\* An ffmpeg that dies has failed.
FfmpegEnds ==
  /\ ffmpeg = "busy" /\ ffmpeg' \in {"done", "failed"}
  /\ UNCHANGED <<status, dub, cancel, texts, files, models, child, client>>

WorkerLoads ==
  /\ child.kind = "worker" /\ child.at = "loading"
  /\ child' = [child EXCEPT !.at = "idle", !.says = "ready"]
  /\ OfChild /\ UNCHANGED models

\* A worker is idle again after its answer; the others end with it.
ChildFinishes ==
  /\ child.kind # "thread" /\ child.at = "busy"
  /\ child' = [child EXCEPT !.says = "done", !.at = IF child.kind = "worker" THEN "idle" ELSE "gone"]
  /\ OfChild /\ UNCHANGED models

ChildFails ==
  /\ child.kind \in {"worker", "llama"} /\ child.at \in {"loading", "busy"}
  /\ child' = [child EXCEPT !.says = "error", !.at = "gone"]
  /\ OfChild /\ UNCHANGED models

\* Its last message stays in the pipe.
ChildDies ==
  /\ child.kind \in {"worker", "llama"} /\ child.at # "gone"
  /\ child' = [child EXCEPT !.at = "gone"]
  /\ OfChild /\ UNCHANGED models

\* _get_kokoro and create: the instance is made once for the whole process,
\* from files that are downloaded when they are missing.
KokoroReturns ==
  /\ child.kind = "thread" /\ child.at = "busy"
  /\ \/ /\ child' = [child EXCEPT !.at = "gone", !.says = "done"]
        /\ IF loaded # 0 THEN UNCHANGED models
           ELSE /\ model' = [model EXCEPT !["kokoro"] = IF @ = 0 THEN 1 ELSE @]
                /\ loaded' = model'["kokoro"]
     \/ /\ child' = [child EXCEPT !.at = "gone", !.says = "error"]
        /\ UNCHANGED models
  /\ OfChild

RequestCancel ==
  /\ cancel = "clear"
  /\ cancel' = "set"
  /\ UNCHANGED <<status, dub, texts, files, models, worker>>

\* The files behind a provider change: an installation, or another path in the
\* settings.
ReplaceModel(p) ==
  /\ dub.pc = "idle" /\ p \in Replaced /\ model[p] \in 1..MaxModel - 1
  /\ model' = [model EXCEPT ![p] = @ + 1]
  /\ UNCHANGED <<status, dub, cancel, texts, files, loaded, worker>>

\* The program ends anywhere and starts again; _recover_interrupted_tasks.  A
\* worker ends when its pipe closes, a llama-tts and an ffmpeg with their work.
Crash ==
  /\ status' = IF status = "processing" THEN "failed" ELSE status
  /\ dub' = Ended
  /\ cancel' = "none" /\ loaded' = 0 /\ texts' = NoTexts
  /\ heard' = Silent /\ raw' = [i \in Rows |-> Silent]
  /\ child' = NoChild
  /\ client' = [at |-> "none", device |-> "none"] /\ ffmpeg' = "none"
  /\ UNCHANGED <<cache, model>>

DubThread ==
  \/ NextRow \/ WriteSilence \/ (\E b \in BOOLEAN : Startup(b) \/ PutWav(b) \/ PutJson(b)) \/ WriteRaw
  \/ CloseAdapter \/ Release \/ Trim \/ BuildTimeline \/ Mux \/ Publish \/ Except \/ Finally
  \/ Speak

Next ==
  \/ \E p \in Providers, v \in Voices, new \in [Rows -> Texts] : Begin(p, v, new)
  \/ DubThread
  \/ WorkerLoads \/ ChildFinishes \/ ChildFails \/ ChildDies \/ FfmpegEnds \/ KokoroReturns
  \/ RequestCancel \/ Crash \/ \E p \in Providers : ReplaceModel(p)

\* The GPU's stages may keep a dubbing waiting, and they do not ask whether it
\* was cancelled.
AtGPU == dub.pc = "lease" /\ dub.provider = "qwen"

\* The thread runs, but for its turn at the GPU; what Kokoro does ends.  Nothing
\* is owed by a child process.
Spec == Init /\ [][Next]_vars /\ WF_vars(~AtGPU /\ DubThread) /\ WF_vars(KokoroReturns)

-----------------------------------------------------------------------------
(* Properties.                                                             *)

\* A process or a thread that speaks exists only inside the call or, for a
\* worker, the dubbing that started it; one that speaks on the GPU only under
\* the GPU's lease.  None is left behind by a failure, a timeout or a
\* cancellation, and no lease is kept without a dubbing that will release it.
ChildIsOwned ==
  /\ child # NoChild =>
       /\ child.kind \in {"llama", "thread"} => dub.pc = "speak"
       /\ child.kind = "worker" => dub.pc \in {"speak", "wav", "json", "write", "row", "blank", "close"}
       /\ child.kind = "llama" => dub.lease
  /\ ffmpeg # "none" => dub.pc \in {"blank", "trim", "fit", "mux"}
  /\ dub.lease =>
       dub.started /\ dub.pc \in {"speak", "wav", "json", "write", "row", "blank", "close", "release"}

\* Whether an utterance was spoken or came from the cache, after whatever
\* edits, cancellations, failures and crashes: its raw speech is its present
\* text, in the chosen voice, by the present model, and a blank one's place is
\* kept.
SpeechIsOfText ==
  \A i \in Rows : i < dub.row =>
    raw[i] = IF texts[i] \in Blank THEN Silent
             ELSE [provider |-> dub.provider, text |-> texts[i], voice |-> dub.voice,
                   model |-> model[dub.provider]]

\* What was kept under the present model is not spoken again, by a retry, by a
\* dubbing after a crash, or when the first utterance downloaded the model.
NothingTwice ==
  Calling => \A e \in cache.wav \cap cache.json :
               e.speech # [Key(Text, 0) EXCEPT !.model = model[dub.provider]]

\* What the thread waits for without a deadline of its own: its turn at the
\* GPU, and an ffmpeg; only the one that muxes is ended by a cancellation.
Waits == AtGPU \/ (ffmpeg = "busy" /\ ~(dub.pc = "mux" /\ cancel = "set"))

\* A dubbing ends whatever its speaking processes do, unless it waits for the GPU
\* or for one ffmpeg for ever.
DubEnds == []<>~Waits => (dub.pc # "idle" ~> dub.pc = "idle")

\* Speech is kept under the fingerprint of what it was spoken from.
KeptUnderItsModel == \A e \in cache.wav : e.key = e.speech
=============================================================================
