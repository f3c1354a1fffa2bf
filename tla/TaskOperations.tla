--------------------------- MODULE TaskOperations ---------------------------
(***************************************************************************)
(* The operations a user may start on one task, beside each other and      *)
(* beside the integrated pipeline: app/api/burn.py, dubbing.py,            *)
(* translation.py, transcribe.py, tasks.py and pipeline.py, with the       *)
(* review decisions of services/translation_review_service.py.             *)
(*                                                                         *)
(* A handler runs on the server's event loop and is one action between two *)
(* awaits.  Standalone rendering and dubbing run in background threads     *)
(* whose only exclusion is the reservation in the record.  A run of the    *)
(* pipeline is abstracted to what the other operations see of it; module   *)
(* PipelineRuns has its inside.  The translated subtitles are abstracted   *)
(* to a content: two files with the same content have one fingerprint.     *)
(***************************************************************************)
EXTENDS Naturals, FiniteSets

CONSTANTS Jobs,     \* slots for standalone rendering and dubbing requests
          Texts,    \* the contents the translated subtitles may have
          Absent,   \* no subtitles
          Windows   \* when other requests may come in, a subset of:

\* "tail": between the outcome that an operation publishes by itself and the
\*         closing write of its background task;
\* "asr":  during a transcription outside the pipeline.
ASSUME OperationsAssumption == Absent \notin Texts /\ Windows \subseteq {"tail", "asr"}

VARIABLES
  up,           \* the process is running
  task,         \* the persisted record
  text,         \* the content of the translated subtitles
  review,       \* translation_reviews[target_lang]
  view,         \* the review that the user has on the screen
  confirmed,    \* the user has agreed to the text as it is (history variable)
  run,          \* the run of the pipeline, as is_busy and its stages show it
  asked,        \* a start of the pipeline waits for voice discovery
  translating,  \* the task is in _translation_jobs
  asr,          \* run_transcription_task is running, outside the pipeline
  job           \* the standalone rendering and dubbing jobs

vars == <<up, task, text, review, view, confirmed, run, asked, translating, asr, job>>

Busy   == {"pending", "translating", "dubbing", "burning", "pipeline"}
\* A cancelled stage has "failed".
StageStatus == {"none", "processing", "completed", "failed", "stale"}
Record == [exists: BOOLEAN, source: BOOLEAN, status: Busy \cup {"rest"},
           pipeline: {"none", "processing", "cancelling", "ended", "review", "compression"},
           dub: StageStatus, burn: StageStatus]
Review == [state: {"none", "pending", "approved"}, text: Texts \cup {Absent}]
View   == [current: BOOLEAN, text: Texts \cup {Absent}]
Job    == [stage: {"none", "dub", "burn"},
           at: {"none", "voice", "reserved", "working", "completed", "failed"},
           target: BOOLEAN, text: Texts \cup {Absent}]
NoJob  == [stage |-> "none", at |-> "none", target |-> FALSE, text |-> Absent]

TypeOK ==
  /\ up \in BOOLEAN /\ task \in Record
  /\ text \in Texts \cup {Absent}
  /\ review \in Review /\ view \in View
  /\ confirmed \in BOOLEAN
  /\ run \in {"idle", "running", "dub", "burn", "retiring"}
  /\ asked \in BOOLEAN /\ translating \in BOOLEAN /\ asr \in BOOLEAN
  /\ job \in [Jobs -> Job]

\* create_task, whose transcription starts at once.
Init ==
  /\ up = TRUE
  /\ task = [exists |-> TRUE, source |-> FALSE, status |-> "pending", pipeline |-> "none",
             dub |-> "none", burn |-> "none"]
  /\ text = Absent
  /\ review = [state |-> "none", text |-> Absent]
  /\ view = [current |-> FALSE, text |-> Absent]
  /\ confirmed = FALSE
  /\ run = "idle" /\ asked = FALSE /\ translating = FALSE
  /\ asr = TRUE
  /\ job = [j \in Jobs |-> NoJob]

-----------------------------------------------------------------------------
(* What the handlers look at.                                              *)

PipelineBusy == run # "idle"
Processing   == "processing" \in {task.dub, task.burn}
Executing(j) == job[j].at \in {"reserved", "working"}
Closing(j)   == job[j].at \in {"completed", "failed"}
TailPending  == \E j \in Jobs : Closing(j)

Request == up /\ task.exists /\ (TailPending => "tail" \in Windows)
NoTranscription == asr => "asr" \in Windows

\* is_approved: the decision is bound to the content.
Approved == review.state = "approved" /\ text # Absent /\ review.text = text

\* The check before a consumer of the translated subtitles is admitted.
MayConsume(target) == target /\ review.state # "none" => Approved

Stale(value) == IF value = "completed" THEN "stale" ELSE value
StageOf(t, stage) == IF stage = "dub" THEN t.dub ELSE t.burn
WithStage(t, stage, value) ==
  IF stage = "dub" THEN [t EXCEPT !.dub = value] ELSE [t EXCEPT !.burn = value]

-----------------------------------------------------------------------------
(* Review decisions.  A new decision has a new review_id.                  *)

\* Faulty variant: the same output keeps its decision.
RequestReviewUnlessSame(new) ==
  IF review.text = new THEN UNCHANGED <<review, view>>
  ELSE /\ review' = [state |-> "pending", text |-> new]
       /\ view' = [view EXCEPT !.current = FALSE]

\* request: a fresh decision, for identical output too.
RequestReview(new) ==
  /\ review' = [state |-> "pending", text |-> new]
  /\ view' = [view EXCEPT !.current = FALSE]

\* pause, on a record t whose subtitles have the content new: a pending
\* decision of the same content stays, and an approved one is left alone.
Awaiting(t) == [t EXCEPT !.status = "rest", !.pipeline = "review",
                         !.dub = Stale(@), !.burn = Stale(@)]
Pause(t, new) ==
  IF review.state = "approved" /\ review.text = new
  THEN task' = t /\ UNCHANGED <<review, view>>
  ELSE /\ task' = Awaiting(t)
       /\ IF review.state = "pending" /\ review.text = new
          THEN UNCHANGED <<review, view>> ELSE RequestReview(new)

ReviewAllowed == Request /\ ~PipelineBusy /\ ~translating /\ ~Processing

PauseForReview ==
  /\ ReviewAllowed /\ text # Absent
  /\ Pause(task, text)
  /\ UNCHANGED <<up, text, confirmed, run, asked, translating, asr, job>>

\* The user reads the subtitles with their current decision.
Look ==
  /\ up /\ review.state # "none" /\ review.text = text
  /\ view' = [current |-> TRUE, text |-> text]
  /\ UNCHANGED <<up, task, text, review, confirmed, run, asked, translating, asr, job>>

\* approve compares the review_id and the fingerprint.
MayApprove == view.current /\ review.state # "none" /\ text # Absent /\ review.text = text

ApprovedRecord ==
  IF review.state = "pending" /\ task.pipeline = "review"
  THEN [task EXCEPT !.status = "rest", !.pipeline = "none"] ELSE task

Decide ==
  /\ review' = [review EXCEPT !.state = "approved"]
  /\ confirmed' = (confirmed \/ (view.current /\ view.text = text))

Approve ==
  /\ ReviewAllowed /\ MayApprove
  /\ task' = ApprovedRecord
  /\ Decide
  /\ UNCHANGED <<up, text, view, run, asked, translating, asr, job>>

-----------------------------------------------------------------------------
(* Standalone rendering and dubbing.                                       *)

Reserve(j, stage, target) ==
  /\ job' = [job EXCEPT ![j] = [stage |-> stage, at |-> "reserved", target |-> target, text |-> Absent]]
  /\ task' = [WithStage(task, stage, "processing")
                EXCEPT !.status = IF stage = "dub" THEN "dubbing" ELSE "burning", !.pipeline = "none"]

ReserveBurn(j, target) ==
  /\ Request /\ NoTranscription /\ job[j] = NoJob
  /\ ~PipelineBusy /\ ~translating /\ MayConsume(target)
  /\ ~Processing
  /\ task.pipeline \notin {"compression", "processing"}
  /\ Reserve(j, "burn", target)
  /\ UNCHANGED <<up, text, review, view, confirmed, run, asked, translating, asr>>

\* start_dubbing up to the await of voice discovery.
AskDub(j, target) ==
  /\ Request /\ job[j] = NoJob
  /\ ~PipelineBusy /\ ~translating /\ MayConsume(target)
  /\ task.source \/ text # Absent
  /\ task.dub # "processing"
  /\ job' = [job EXCEPT ![j] = [stage |-> "dub", at |-> "voice", target |-> target, text |-> Absent]]
  /\ UNCHANGED <<up, task, text, review, view, confirmed, run, asked, translating, asr>>

\* Faulty variant: the checks before the await are trusted.
StillAllowedAsBefore(j) == task.exists

\* What start_dubbing checks again after the await.
StillAllowed(j) ==
  ~PipelineBusy /\ ~translating /\ task.exists /\ ~Processing /\ MayConsume(job[j].target)

VoiceFound(j) ==
  /\ up /\ job[j].at = "voice"
  /\ IF StillAllowed(j)
     THEN Request /\ NoTranscription /\ Reserve(j, "dub", job[j].target)
     ELSE job' = [job EXCEPT ![j] = NoJob] /\ UNCHANGED task
  /\ UNCHANGED <<up, text, review, view, confirmed, run, asked, translating, asr>>

VoiceMissing(j) ==
  /\ up /\ job[j].at = "voice"
  /\ job' = [job EXCEPT ![j] = NoJob]
  /\ UNCHANGED <<up, task, text, review, view, confirmed, run, asked, translating, asr>>

Write(new) == task' = IF task.exists THEN new ELSE task

\* The thread reads the subtitles and says "processing" itself.
JobBegins(j) ==
  /\ job[j].at = "reserved"
  /\ job' = [job EXCEPT ![j].at = "working", ![j].text = IF job[j].target THEN text ELSE Absent]
  /\ Write(WithStage(task, job[j].stage, "processing"))
  /\ UNCHANGED <<up, text, review, view, confirmed, run, asked, translating, asr>>

\* The outcome that burn() or dub() publishes; a validation that fails first
\* leaves that to the closing write.
JobPublishes(j, value) ==
  /\ \/ job[j].at = "working" /\ Write(WithStage(task, job[j].stage, value))
     \/ job[j].at = "reserved" /\ value = "failed" /\ UNCHANGED task
  /\ job' = [job EXCEPT ![j].at = value, ![j].text = Absent]
  /\ UNCHANGED <<up, text, review, view, confirmed, run, asked, translating, asr>>

\* Faulty variant: the closing write forgets the stage's own status.
ClosedStatusOnly(j) == [task EXCEPT !.status = "rest"]

\* The closing write of _run_burn_task and _run_dubbing_task.
Closed(j) == [WithStage(task, job[j].stage, job[j].at) EXCEPT !.status = "rest"]

JobCloses(j) ==
  /\ Closing(j)
  /\ Write(Closed(j))
  /\ job' = [job EXCEPT ![j] = NoJob]
  /\ UNCHANGED <<up, text, review, view, confirmed, run, asked, translating, asr>>

-----------------------------------------------------------------------------
(* The pipeline, as its neighbours see it.                                 *)

\* Faulty variant: a standalone stage does not count.
StartableBesideStages == task.exists /\ ~PipelineBusy /\ ~translating

\* start of PipelineService.
Startable == task.exists /\ ~PipelineBusy /\ ~Processing /\ ~translating

Started(t) == [t EXCEPT !.status = "pipeline", !.pipeline = "processing"]

\* start_pipeline up to the await of voice discovery.
AskPipeline ==
  /\ Request /\ task.pipeline # "compression"
  /\ asked' = TRUE
  /\ UNCHANGED <<up, task, text, review, view, confirmed, run, translating, asr, job>>

\* The rest of start_pipeline.  A decision that comes with the request is
\* taken before start has its say.
StartPipeline(withReview) ==
  /\ Request /\ NoTranscription /\ asked
  /\ asked' = FALSE
  /\ LET decides == withReview /\ ~PipelineBusy /\ ~translating
     IN /\ IF decides /\ MayApprove THEN Decide ELSE UNCHANGED <<review, confirmed>>
        /\ IF Startable /\ (withReview => MayApprove)
           THEN run' = "running" /\ task' = Started(task)
           ELSE /\ UNCHANGED run
                /\ task' = IF decides /\ MayApprove THEN ApprovedRecord ELSE task
  /\ UNCHANGED <<up, text, view, translating, asr, job>>

StartRefused ==
  /\ up /\ asked /\ ~task.exists
  /\ asked' = FALSE
  /\ UNCHANGED <<up, task, text, review, view, confirmed, run, translating, asr, job>>

\* decide_compression.
DecideCompression(approve) ==
  /\ Request /\ task.pipeline = "compression"
  /\ IF approve THEN /\ NoTranscription /\ Startable
                     /\ run' = "running" /\ task' = Started(task)
                ELSE /\ task' = [task EXCEPT !.status = "rest", !.pipeline = "ended", !.dub = "failed"]
                     /\ UNCHANGED run
  /\ UNCHANGED <<up, text, review, view, confirmed, asked, translating, asr, job>>

\* New subtitles (transcribed first, if need be; translated or compressed):
\* the run ends in a review of them.
RunRegenerates(new) ==
  /\ up /\ run = "running"
  /\ text' = new /\ confirmed' = FALSE
  /\ RequestReview(new)
  /\ task' = [Awaiting(task) EXCEPT !.source = TRUE]
  /\ run' = "idle"
  /\ UNCHANGED <<up, asked, translating, asr, job>>

RunPauses ==
  /\ up /\ run = "running" /\ text # Absent /\ ~Approved
  /\ Pause(task, text)
  /\ run' = "idle"
  /\ UNCHANGED <<up, text, confirmed, asked, translating, asr, job>>

\* _review_translation returned False.
Ready == text # Absent /\ Approved

RunEntersStage(stage) ==
  /\ up
  /\ \/ run = "running" /\ Ready
     \/ run = "dub" /\ stage = "burn"
  /\ run' = stage
  /\ task' = [WithStage(IF run = "dub" THEN [task EXCEPT !.dub = "completed"] ELSE task, stage, "processing")
                EXCEPT !.status = "pipeline"]
  /\ UNCHANGED <<up, text, review, view, confirmed, asked, translating, asr, job>>

Ended(t) == [t EXCEPT !.status = "rest", !.pipeline = "ended"]

RunEnds(outcome) ==
  /\ up /\ run \in {"running", "dub", "burn"}
  /\ \/ /\ outcome = "completed" /\ run # "running"
        /\ task' = WithStage(Ended(task), run, "completed")
     \/ /\ outcome = "failed"
        /\ \E transcribed \in BOOLEAN :
             task' = [Ended(task) EXCEPT !.source = @ \/ (transcribed /\ run = "running"),
                                         !.dub = "failed",
                                         !.burn = IF run = "burn" THEN "failed" ELSE @]
     \/ /\ outcome = "compression" /\ run = "dub"
        /\ task' = [Ended(task) EXCEPT !.pipeline = "compression", !.dub = "failed"]
  /\ run' = "idle"
  /\ UNCHANGED <<up, text, review, view, confirmed, asked, translating, asr, job>>

\* Cancellation: a stage in a thread keeps the task busy until it is gone.
Released(value) == IF value = "processing" THEN "failed" ELSE value
RunCancelled ==
  /\ up /\ run \in {"running", "dub", "burn"}
  /\ run' = IF run = "running" THEN "idle" ELSE "retiring"
  /\ \E transcribed \in BOOLEAN :
     task' = [task EXCEPT !.source = @ \/ (transcribed /\ run = "running"),
                          !.status = IF run = "running" THEN "rest" ELSE "pipeline",
                          !.pipeline = IF run = "running" THEN "ended" ELSE "cancelling",
                          !.dub = Released(@), !.burn = Released(@)]
  /\ UNCHANGED <<up, text, review, view, confirmed, asked, translating, asr, job>>

RunGone ==
  /\ up /\ run = "retiring"
  /\ run' = "idle"
  /\ task' = Ended(task)
  /\ UNCHANGED <<up, text, review, view, confirmed, asked, translating, asr, job>>

-----------------------------------------------------------------------------
(* Translation, editing, retiming and export of the subtitles.             *)

AskTranslation ==
  /\ Request /\ task.source
  /\ ~PipelineBusy /\ ~translating /\ ~Processing
  /\ translating' = TRUE
  /\ task' = [task EXCEPT !.status = "translating"]
  /\ UNCHANGED <<up, text, review, view, confirmed, run, asked, asr, job>>

\* A new translation is saved, and a fresh review requested; a failed one
\* keeps the previous text.
Translated(new) ==
  /\ up /\ translating
  /\ translating' = FALSE
  /\ text' = new /\ confirmed' = FALSE
  /\ RequestReview(new)
  /\ task' = Awaiting(task)
  /\ UNCHANGED <<up, run, asked, asr, job>>

TranslationFails ==
  /\ up /\ translating
  /\ translating' = FALSE
  /\ task' = [task EXCEPT !.status = "rest"]
  /\ UNCHANGED <<up, text, review, view, confirmed, run, asked, asr, job>>

EditAllowed == Request /\ ~PipelineBusy /\ ~translating /\ ~Processing

HasOutputs == {task.dub, task.burn} \cap {"completed", "stale"} # {}

Edit(new) ==
  /\ EditAllowed /\ text # Absent
  /\ text' = new
  /\ confirmed' = (confirmed /\ new = text)
  /\ LET edited == IF HasOutputs THEN [task EXCEPT !.pipeline = "ended", !.dub = Stale(@), !.burn = Stale(@)]
                                ELSE task
     IN Pause(edited, new)
  /\ UNCHANGED <<up, run, asked, translating, asr, job>>

\* apply and undo of subtitle_timing_versions.py.
Retime(new) ==
  /\ EditAllowed /\ text # Absent /\ new # text
  /\ task.status = "rest" /\ task.pipeline \notin {"processing", "cancelling", "compression"}
  /\ text' = new /\ confirmed' = FALSE
  /\ RequestReview(new)
  /\ task' = [Awaiting(task) EXCEPT !.dub = "stale", !.burn = "stale"]
  /\ UNCHANGED <<up, run, asked, translating, asr, job>>

Export(target) ==
  /\ Request /\ task.source
  /\ ~PipelineBusy /\ ~translating /\ ~Processing /\ MayConsume(target)
  /\ task' = [task EXCEPT !.status = "rest", !.pipeline = "none"]
  /\ UNCHANGED <<up, text, review, view, confirmed, run, asked, translating, asr, job>>

-----------------------------------------------------------------------------
(* Transcription outside the pipeline, retry, deletion, restart.           *)

TranscriptionEnds(ok) ==
  /\ up /\ asr
  /\ asr' = FALSE
  /\ Write([task EXCEPT !.status = "rest", !.source = @ \/ ok])
  /\ UNCHANGED <<up, text, review, view, confirmed, run, asked, translating, job>>

\* Faulty variant: the status alone decides.
IdleByStatus == task.status = "rest" \/ (task.status = "dubbing" /\ task.dub # "none")

\* _ensure_tasks_idle; a dub() call is seen from its registration on.
FinishedStage ==
  \/ task.status = "dubbing" /\ task.dub \in {"completed", "failed"}
  \/ task.status = "burning" /\ task.burn \in {"completed", "failed"}
Idle ==
  /\ ~PipelineBusy /\ ~translating
  /\ ~\E j \in Jobs : job[j].stage = "dub" /\ job[j].at = "working"
  /\ task.status = "rest" \/ FinishedStage
  /\ task.pipeline \notin {"processing", "cancelling"}
  /\ ~Processing

Retry ==
  /\ Request /\ Idle
  /\ task' = [task EXCEPT !.status = "pending", !.source = FALSE, !.pipeline = "none",
                          !.dub = "none", !.burn = "none"]
  /\ text' = Absent /\ confirmed' = FALSE
  /\ asr' = TRUE
  /\ UNCHANGED <<up, review, view, run, asked, translating, job>>

Delete ==
  /\ Request /\ Idle
  /\ task' = [task EXCEPT !.exists = FALSE]
  /\ UNCHANGED <<up, text, review, view, confirmed, run, asked, translating, asr, job>>

Crash ==
  /\ up
  /\ up' = FALSE
  /\ run' = "idle" /\ asked' = FALSE /\ translating' = FALSE /\ asr' = FALSE
  /\ job' = [j \in Jobs |-> NoJob]
  /\ UNCHANGED <<task, text, review, view, confirmed>>

\* Faulty variant: recovery looks at the status alone.
RecoveredStatusOnly(value) == value

\* recover_interrupted_tasks.
RecoveredStage(value) == IF value = "processing" THEN "failed" ELSE value
Recover ==
  /\ ~up
  /\ up' = TRUE
  /\ Write([task EXCEPT !.status = "rest",
                        !.pipeline = IF @ \in {"processing", "cancelling"} THEN "ended" ELSE @,
                        !.dub = RecoveredStage(@), !.burn = RecoveredStage(@)])
  /\ UNCHANGED <<text, review, view, confirmed, run, asked, translating, asr, job>>

-----------------------------------------------------------------------------
StandaloneJob(j) ==
  \/ VoiceFound(j) \/ VoiceMissing(j)
  \/ JobBegins(j) \/ JobCloses(j)
  \/ \E value \in {"completed", "failed"} : JobPublishes(j, value)
PipelineRun ==
  \/ \E new \in Texts : RunRegenerates(new)
  \/ RunPauses \/ RunGone
  \/ \E stage \in {"dub", "burn"} : RunEntersStage(stage)
  \/ \E outcome \in {"completed", "failed", "compression"} : RunEnds(outcome)
Translation   == TranslationFails \/ \E new \in Texts : Translated(new)
Transcription == \E ok \in BOOLEAN : TranscriptionEnds(ok)

Next ==
  \/ \E j \in Jobs : StandaloneJob(j) \/ \E target \in BOOLEAN : ReserveBurn(j, target) \/ AskDub(j, target)
  \/ PipelineRun \/ RunCancelled \/ Translation \/ Transcription
  \/ AskPipeline \/ StartRefused
  \/ \E yes \in BOOLEAN : StartPipeline(yes) \/ DecideCompression(yes) \/ Export(yes)
  \/ AskTranslation \/ Retry \/ Delete
  \/ PauseForReview \/ Look \/ Approve
  \/ \E new \in Texts : Edit(new) \/ Retime(new)
  \/ Crash \/ Recover

Spec == Init /\ [][Next]_vars

\* Threads and coroutines go on, stages and providers end, and the
\* application is opened again.
Fairness ==
  /\ \A j \in Jobs : WF_vars(StandaloneJob(j))
  /\ WF_vars(PipelineRun) /\ WF_vars(Translation) /\ WF_vars(Transcription)
  /\ WF_vars(Recover)

FairSpec == Spec /\ Fairness

-----------------------------------------------------------------------------
(* Properties.                                                             *)

AtWork == \E j \in Jobs : Executing(j)

\* No two operations work on one task, whatever the order in which their
\* requests were made, looked at and delayed.
OneOperation ==
  /\ \A i, j \in Jobs : Executing(i) /\ Executing(j) => i = j
  /\ AtWork => ~PipelineBusy /\ ~translating /\ ~asr
  /\ PipelineBusy => ~translating /\ ~asr
  /\ translating => ~asr

\* burn.py:72, "Reserve the standalone operation before BackgroundTasks can
\* be delayed", and dubbing.py:146: nothing takes the reservation of a job
\* away until the job itself has published its outcome.
ReservationStands ==
  \A j \in Jobs : Executing(j) => task.exists /\ StageOf(task, job[j].stage) = "processing"

\* history.py:192-194, no "progress that does not exist": a record that says
\* the task is busy, or has a stage reserved, has somebody who will write it
\* again.
ProgressHasOwner ==
  up /\ task.exists =>
    /\ task.status \in Busy =>
         PipelineBusy \/ translating \/ asr \/ \E j \in Jobs : Executing(j) \/ Closing(j)
    /\ \A stage \in {"dub", "burn"} : StageOf(task, stage) = "processing" =>
         run = stage \/ \E j \in Jobs : job[j].stage = stage /\ (Executing(j) \/ Closing(j))

\* translation_review_service.py:3-5: the translated subtitles that a stage
\* works on are those the task has, and the user agreed to them as they are,
\* after they were generated or edited last.
ConsumedTextIsConfirmed ==
  /\ \A j \in Jobs : job[j].text # Absent => job[j].text = text /\ confirmed
  /\ run \in {"dub", "burn"} => confirmed

\* tasks.py:112, "Preflight before clearing task state or touching any task
\* files": nothing works on a task when it is reset or deleted.
PreflightSeesWork ==
  [][(task.exists /\ ~task'.exists) \/ (text # Absent /\ text' = Absent) \/ (task.source /\ ~task'.source)
       => ~AtWork /\ ~PipelineBusy /\ ~translating /\ ~asr]_vars

\* Whatever is started ends, and the record stops saying that it goes on.
WorkEnds == (task.status \in Busy \/ Processing) ~> (task.status \notin Busy /\ ~Processing)
=============================================================================
