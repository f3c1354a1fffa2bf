------------------------ MODULE TaskOperationsProofs ------------------------
(***************************************************************************)
(* Exclusion, reservations and confirmed subtitles of TaskOperations, for  *)
(* every set of jobs and contents, while no request comes in a window      *)
(* (Windows = {}).                                                         *)
(*                                                                         *)
(* The argument: a job's reservation stays in the record from its          *)
(* admission to its outcome (Reserved), and every handler that would start *)
(* something else, or touch the subtitles, refuses while the record has    *)
(* one; so whoever is admitted is alone (Exclusive), and the decision that *)
(* admitted it still holds when it works (Admitted).  A decision is never  *)
(* left behind on other subtitles (DecisionIsCurrent), so subtitles that   *)
(* come back to an approved content need a new one.  A reset or deletion   *)
(* that passes preflight is a step of nobody else's (NobodyWorks), and     *)
(* every other step keeps the task's files (Kept).                         *)
(***************************************************************************)
EXTENDS TaskOperations, TLAPS

Active(j) == Executing(j) \/ Closing(j)

DownIsIdle ==
  ~up => /\ run = "idle" /\ ~asked /\ ~translating /\ ~asr
         /\ \A j \in Jobs : job[j] = NoJob

Exclusive ==
  /\ \A i, j \in Jobs : Active(i) /\ Active(j) => i = j
  /\ (\E j \in Jobs : Active(j)) => ~PipelineBusy /\ ~translating /\ ~asr
  /\ PipelineBusy => ~translating /\ ~asr
  /\ translating => ~asr

Reserved ==
  \A j \in Jobs :
    /\ job[j].at # "none" => job[j].stage # "none"
    /\ Active(j) => task.pipeline = "none"
    /\ Executing(j) => task.exists /\ StageOf(task, job[j].stage) = "processing"

\* A transcription outside the pipeline begins with nothing.
StartsAnew ==
  asr => /\ task.status = "pending" /\ task.pipeline = "none" /\ ~task.source
         /\ text = Absent /\ ~Processing

DecisionIsCurrent ==
  /\ view.current => view.text = review.text
  /\ text # Absent => review.state # "none"
  /\ review.state = "approved" => text \in {review.text, Absent}
  /\ Approved => confirmed

Admitted ==
  /\ \A j \in Jobs :
       /\ Executing(j) /\ job[j].target => text = Absent \/ Approved
       /\ job[j].text # Absent => job[j].at = "working" /\ job[j].target /\ job[j].text = text
  /\ run \in {"dub", "burn"} => Approved

IInv ==
  /\ TypeOK
  /\ DownIsIdle
  /\ Exclusive
  /\ Reserved
  /\ StartsAnew
  /\ ProgressHasOwner
  /\ DecisionIsCurrent
  /\ Admitted

-----------------------------------------------------------------------------
(* The type invariant.                                                     *)

LEMMA StageWrite ==
  ASSUME NEW t \in Record, NEW stage, NEW value \in StageStatus
  PROVE  WithStage(t, stage, value) \in Record
  BY DEF Record, WithStage

LEMMA StatusWrite ==
  ASSUME NEW t \in Record, NEW value \in Busy \cup {"rest"}
  PROVE  [t EXCEPT !.status = value] \in Record
  BY DEF Record

LEMMA PipelineWrite ==
  ASSUME NEW t \in Record,
         NEW value \in {"none", "processing", "cancelling", "ended", "review", "compression"}
  PROVE  [t EXCEPT !.pipeline = value] \in Record
  BY DEF Record

LEMMA AwaitingType ==
  ASSUME NEW t \in Record
  PROVE  Awaiting(t) \in Record
  BY DEF Awaiting, Stale, Record, StageStatus

LEMMA RequestType ==
  ASSUME TypeOK, NEW new \in Texts, RequestReview(new)
  PROVE  review' \in Review /\ view' \in View
  BY DEF RequestReview, TypeOK, Review, View

LEMMA PauseType ==
  ASSUME TypeOK, NEW t \in Record, NEW new \in Texts, Pause(t, new)
  PROVE  task' \in Record /\ review' \in Review /\ view' \in View
  <1>1. CASE review.state = "approved" /\ review.text = new
    BY <1>1 DEF Pause, TypeOK
  <1>2. CASE ~(review.state = "approved" /\ review.text = new)
    <2>1. task' \in Record
      BY <1>2, AwaitingType DEF Pause
    <2>2. UNCHANGED <<review, view>> \/ RequestReview(new)
      BY <1>2 DEF Pause
    <2>3. QED
      BY <2>1, <2>2, RequestType DEF TypeOK
  <1>3. QED
    BY <1>1, <1>2

LEMMA DecideType ==
  ASSUME TypeOK, Decide
  PROVE  review' \in Review /\ confirmed' \in BOOLEAN
  BY DEF Decide, TypeOK, Review

LEMMA ApprovedRecordType ==
  ASSUME TypeOK
  PROVE  ApprovedRecord \in Record
  BY DEF TypeOK, Record, ApprovedRecord

LEMMA StartedType ==
  ASSUME TypeOK
  PROVE  Started(task) \in Record
  BY DEF TypeOK, Record, Busy, Started

LEMMA ReserveType ==
  ASSUME TypeOK, NEW j \in Jobs, NEW stage \in {"dub", "burn"}, NEW target \in BOOLEAN,
         Reserve(j, stage, target)
  PROVE  task' \in Record /\ job' \in [Jobs -> Job]
  <1>1. WithStage(task, stage, "processing") \in Record
    BY StageWrite DEF TypeOK, StageStatus
  <1>2. task' \in Record
    BY <1>1 DEF Reserve, Record, Busy
  <1>3. [stage |-> stage, at |-> "reserved", target |-> target, text |-> Absent] \in Job
    BY DEF Job
  <1>4. QED
    BY <1>2, <1>3 DEF Reserve, TypeOK

LEMMA StandaloneType ==
  ASSUME TypeOK, NEW j \in Jobs, NEW target \in BOOLEAN,
         StandaloneJob(j) \/ ReserveBurn(j, target) \/ AskDub(j, target)
  PROVE  TypeOK'
  <1>1. job[j] \in Job /\ NoJob \in Job
    BY DEF TypeOK, Job, NoJob
  <1>2. CASE ReserveBurn(j, target)
    BY <1>2, ReserveType DEF ReserveBurn, TypeOK
  <1>3. CASE AskDub(j, target)
    BY <1>3 DEF AskDub, TypeOK, Job
  <1>4. CASE VoiceFound(j)
    <2>1. job[j].target \in BOOLEAN
      BY <1>1 DEF Job
    <2>2. CASE StillAllowed(j)
      BY <1>4, <2>1, <2>2, ReserveType DEF VoiceFound, TypeOK
    <2>3. CASE ~StillAllowed(j)
      BY <1>1, <1>4, <2>3 DEF VoiceFound, TypeOK
    <2>4. QED
      BY <2>2, <2>3
  <1>5. CASE VoiceMissing(j)
    BY <1>1, <1>5 DEF VoiceMissing, TypeOK
  <1>6. CASE JobBegins(j)
    <2>1. task' \in Record
      BY <1>6, StageWrite DEF JobBegins, Write, TypeOK, StageStatus
    <2>2. [job[j] EXCEPT !.at = "working", !.text = IF job[j].target THEN text ELSE Absent] \in Job
      BY <1>1 DEF TypeOK, Job
    <2>3. job' \in [Jobs -> Job]
      BY <1>6, <2>2 DEF JobBegins, TypeOK
    <2>4. QED
      BY <1>6, <2>1, <2>3 DEF JobBegins, TypeOK
  <1>7. ASSUME NEW value \in {"completed", "failed"}, JobPublishes(j, value) PROVE TypeOK'
    <2>1. task' \in Record
      BY <1>7, StageWrite DEF JobPublishes, Write, TypeOK, StageStatus
    <2>2. [job[j] EXCEPT !.at = value, !.text = Absent] \in Job
      BY <1>1, <1>7 DEF Job
    <2>3. job' \in [Jobs -> Job]
      BY <1>7, <2>2 DEF JobPublishes, TypeOK
    <2>4. QED
      BY <1>7, <2>1, <2>3 DEF JobPublishes, TypeOK
  <1>8. CASE JobCloses(j)
    <2>1. WithStage(task, job[j].stage, job[j].at) \in Record
      BY <1>8, StageWrite DEF JobCloses, Closing, TypeOK, StageStatus
    <2>2. task' \in Record
      BY <1>8, <2>1, StatusWrite DEF JobCloses, Closed, Write, TypeOK
    <2>3. QED
      BY <1>1, <1>8, <2>2 DEF JobCloses, TypeOK
  <1>9. QED
    BY <1>2, <1>3, <1>4, <1>5, <1>6, <1>7, <1>8 DEF StandaloneJob

LEMMA RunType ==
  ASSUME TypeOK, PipelineRun \/ RunCancelled
  PROVE  TypeOK'
  <1> USE DEF StageStatus, Busy
  <1>1. ASSUME NEW new \in Texts, RunRegenerates(new) PROVE TypeOK'
    <2>1. Awaiting(task) \in Record
      BY AwaitingType DEF TypeOK
    <2>2. task' \in Record
      BY <1>1, <2>1 DEF RunRegenerates, Record
    <2>3. QED
      BY <1>1, <2>2, RequestType DEF RunRegenerates, TypeOK
  <1>2. CASE RunPauses
    <2>1. text \in Texts
      BY <1>2 DEF RunPauses, TypeOK
    <2>2. QED
      BY <1>2, <2>1, PauseType DEF RunPauses, TypeOK
  <1>3. CASE RunGone
    BY <1>3 DEF RunGone, Ended, TypeOK, Record
  <1>4. ASSUME NEW stage \in {"dub", "burn"}, RunEntersStage(stage) PROVE TypeOK'
    <2>1. task' \in Record
      BY <1>4 DEF RunEntersStage, WithStage, TypeOK, Record
    <2>2. QED
      BY <1>4, <2>1 DEF RunEntersStage, TypeOK
  <1>5. ASSUME NEW outcome \in {"completed", "failed", "compression"}, RunEnds(outcome) PROVE TypeOK'
    <2>1. Ended(task) \in Record
      BY DEF Ended, TypeOK, Record
    <2>2. CASE outcome = "completed"
      BY <1>5, <2>1, <2>2, StageWrite DEF RunEnds, TypeOK
    <2>3. CASE outcome = "failed"
      <3>1. PICK transcribed \in BOOLEAN :
              task' = [Ended(task) EXCEPT !.source = @ \/ (transcribed /\ run = "running"),
                                          !.dub = "failed",
                                          !.burn = IF run = "burn" THEN "failed" ELSE @]
        BY <1>5, <2>3 DEF RunEnds
      <3>2. task' \in Record
        BY <2>1, <3>1 DEF Record
      <3>3. QED
        BY <1>5, <3>2 DEF RunEnds, TypeOK
    <2>4. CASE outcome = "compression"
      <3>1. task' \in Record
        BY <1>5, <2>1, <2>4 DEF RunEnds, Record
      <3>2. QED
        BY <1>5, <3>1 DEF RunEnds, TypeOK
    <2>5. QED
      BY <1>5, <2>2, <2>3, <2>4
  <1>6. CASE RunCancelled
    <2>0. task \in Record
      BY DEF TypeOK
    <2>1. Released(task.dub) \in StageStatus /\ Released(task.burn) \in StageStatus
      BY <2>0 DEF Released, Record
    <2>2. PICK transcribed \in BOOLEAN :
            task' = [task EXCEPT !.source = @ \/ (transcribed /\ run = "running"),
                                 !.status = IF run = "running" THEN "rest" ELSE "pipeline",
                                 !.pipeline = IF run = "running" THEN "ended" ELSE "cancelling",
                                 !.dub = Released(@), !.burn = Released(@)]
      BY <1>6 DEF RunCancelled
    <2>3. ASSUME NEW source \in BOOLEAN, NEW status \in Busy \cup {"rest"}, NEW pipeline \in {"ended", "cancelling"}
          PROVE  [task EXCEPT !.source = source, !.status = status, !.pipeline = pipeline,
                              !.dub = Released(@), !.burn = Released(@)] \in Record
      BY <2>0, <2>1 DEF Record
    <2>4. (task.source \/ (transcribed /\ run = "running")) \in BOOLEAN
      OBVIOUS
    <2>5. task' \in Record
      BY <2>2, <2>3, <2>4
    <2>6. QED
      BY <1>6, <2>5 DEF RunCancelled, TypeOK
  <1>7. QED
    BY <1>1, <1>2, <1>3, <1>4, <1>5, <1>6 DEF PipelineRun

LEMMA SubtitlesType ==
  ASSUME TypeOK, Translation \/ Transcription \/ AskTranslation \/ PauseForReview \/ Look \/ Approve
  PROVE  TypeOK'
  <1>1. ASSUME NEW new \in Texts, Translated(new) PROVE TypeOK'
    BY <1>1, AwaitingType, RequestType DEF Translated, TypeOK
  <1>2. CASE TranslationFails
    BY <1>2, StatusWrite DEF TranslationFails, TypeOK
  <1>3. ASSUME NEW ok \in BOOLEAN, TranscriptionEnds(ok) PROVE TypeOK'
    <2>1. [task EXCEPT !.status = "rest", !.source = @ \/ ok] \in Record
      BY <1>3 DEF TypeOK, Record
    <2>2. QED
      BY <1>3, <2>1 DEF TranscriptionEnds, Write, TypeOK
  <1>4. CASE AskTranslation
    BY <1>4, StatusWrite DEF AskTranslation, TypeOK, Busy
  <1>5. CASE PauseForReview
    <2>1. text \in Texts
      BY <1>5 DEF PauseForReview, TypeOK
    <2>2. QED
      BY <1>5, <2>1, PauseType DEF PauseForReview, TypeOK
  <1>6. CASE Look
    BY <1>6 DEF Look, TypeOK, View
  <1>7. CASE Approve
    BY <1>7, DecideType, ApprovedRecordType DEF Approve, TypeOK
  <1>8. QED
    BY <1>1, <1>2, <1>3, <1>4, <1>5, <1>6, <1>7 DEF Translation, Transcription

LEMMA RequestsType ==
  ASSUME TypeOK, NEW yes \in BOOLEAN,
         StartPipeline(yes) \/ DecideCompression(yes) \/ Export(yes) \/ AskPipeline \/ StartRefused
  PROVE  TypeOK'
  <1>1. CASE StartPipeline(yes)
    <2>1. review' \in Review /\ confirmed' \in BOOLEAN
      BY <1>1, DecideType DEF StartPipeline, TypeOK
    <2>2. task' \in Record /\ run' \in {"idle", "running", "dub", "burn", "retiring"}
      BY <1>1, StartedType, ApprovedRecordType DEF StartPipeline, TypeOK
    <2>3. QED
      BY <1>1, <2>1, <2>2 DEF StartPipeline, TypeOK
  <1>2. CASE DecideCompression(yes)
    <2>1. [task EXCEPT !.status = "rest", !.pipeline = "ended", !.dub = "failed"] \in Record
      BY DEF TypeOK, Record, StageStatus
    <2>2. QED
      BY <1>2, <2>1, StartedType DEF DecideCompression, TypeOK
  <1>3. CASE Export(yes)
    <2>1. [task EXCEPT !.status = "rest", !.pipeline = "none"] \in Record
      BY DEF TypeOK, Record
    <2>2. QED
      BY <1>3, <2>1 DEF Export, TypeOK
  <1>4. CASE AskPipeline
    BY <1>4 DEF AskPipeline, TypeOK
  <1>5. CASE StartRefused
    BY <1>5 DEF StartRefused, TypeOK
  <1>6. QED
    BY <1>1, <1>2, <1>3, <1>4, <1>5

LEMMA EditType ==
  ASSUME TypeOK, NEW new \in Texts, Edit(new) \/ Retime(new)
  PROVE  TypeOK'
  <1>1. CASE Edit(new)
    <2> DEFINE edited == IF HasOutputs
                         THEN [task EXCEPT !.pipeline = "ended", !.dub = Stale(@), !.burn = Stale(@)]
                         ELSE task
    <2>1. edited \in Record
      BY DEF TypeOK, Record, Stale, StageStatus
    <2>2. Pause(edited, new)
      BY <1>1 DEF Edit
    <2> HIDE DEF edited
    <2>3. QED
      BY <1>1, <2>1, <2>2, PauseType DEF Edit, TypeOK
  <1>2. CASE Retime(new)
    <2>1. [Awaiting(task) EXCEPT !.dub = "stale", !.burn = "stale"] \in Record
      BY AwaitingType DEF TypeOK, Record, StageStatus
    <2>2. QED
      BY <1>2, <2>1, RequestType DEF Retime, TypeOK
  <1>3. QED
    BY <1>1, <1>2

LEMMA LifeType ==
  ASSUME TypeOK, Retry \/ Delete \/ Crash \/ Recover
  PROVE  TypeOK'
  <1>1. CASE Retry
    <2>1. task' \in Record
      BY <1>1 DEF Retry, TypeOK, Record, Busy, StageStatus
    <2>2. QED
      BY <1>1, <2>1 DEF Retry, TypeOK
  <1>2. CASE Delete
    <2>1. task' \in Record
      BY <1>2 DEF Delete, TypeOK, Record
    <2>2. QED
      BY <1>2, <2>1 DEF Delete, TypeOK
  <1>3. CASE Crash
    <2>1. NoJob \in Job
      BY DEF NoJob, Job
    <2>2. QED
      BY <1>3, <2>1 DEF Crash, TypeOK
  <1>4. CASE Recover
    <2>1. [task EXCEPT !.status = "rest",
                       !.pipeline = IF @ \in {"processing", "cancelling"} THEN "ended" ELSE @,
                       !.dub = RecoveredStage(@), !.burn = RecoveredStage(@)] \in Record
      BY DEF TypeOK, Record, RecoveredStage, StageStatus
    <2>2. QED
      BY <1>4, <2>1 DEF Recover, Write, TypeOK
  <1>5. QED
    BY <1>1, <1>2, <1>3, <1>4

LEMMA TypeStep == TypeOK /\ [Next]_vars => TypeOK'
  <1> SUFFICES ASSUME TypeOK, [Next]_vars PROVE TypeOK'
    OBVIOUS
  <1>1. CASE UNCHANGED vars
    BY <1>1 DEF vars, TypeOK
  <1>2. ASSUME NEW j \in Jobs, StandaloneJob(j) PROVE TypeOK'
    BY <1>2, StandaloneType
  <1>3. ASSUME NEW j \in Jobs, NEW target \in BOOLEAN, ReserveBurn(j, target) \/ AskDub(j, target)
        PROVE  TypeOK'
    BY <1>3, StandaloneType
  <1>4. CASE PipelineRun \/ RunCancelled
    BY <1>4, RunType
  <1>5. CASE Translation \/ Transcription \/ AskTranslation \/ PauseForReview \/ Look \/ Approve
    BY <1>5, SubtitlesType
  <1>6. ASSUME NEW yes \in BOOLEAN, StartPipeline(yes) \/ DecideCompression(yes) \/ Export(yes)
        PROVE  TypeOK'
    BY <1>6, RequestsType
  <1>7. CASE AskPipeline \/ StartRefused
    BY <1>7, RequestsType
  <1>8. ASSUME NEW new \in Texts, Edit(new) \/ Retime(new) PROVE TypeOK'
    BY <1>8, EditType
  <1>9. CASE Retry \/ Delete \/ Crash \/ Recover
    BY <1>9, LifeType
  <1>10. QED
    BY <1>1, <1>2, <1>3, <1>4, <1>5, <1>6, <1>7, <1>8, <1>9 DEF Next

-----------------------------------------------------------------------------
(* Steps that nobody's job is in the way of.                               *)

NobodyWorks == \A j \in Jobs : ~Active(j) /\ job[j].text = Absent

OneFlag == (PipelineBusy => ~translating /\ ~asr) /\ (translating => ~asr)

\* ProgressHasOwner, when nobody works.
Owned ==
  task.exists => /\ task.status \in Busy => PipelineBusy \/ translating \/ asr
                 /\ task.dub = "processing" => run = "dub"
                 /\ task.burn = "processing" => run = "burn"

LEMMA StageOfDub == \A t : StageOf(t, "dub") = t.dub /\ StageOf(t, "burn") = t.burn
  BY DEF StageOf

\* Who is busy keeps the jobs out.
LEMMA BusyIsAlone ==
  ASSUME IInv, PipelineBusy \/ translating \/ asr
  PROVE  NobodyWorks
  <1>1. \A j \in Jobs : ~Active(j)
    BY DEF IInv, Exclusive
  <1>2. QED
    BY <1>1 DEF IInv, Admitted, NobodyWorks, Active, Executing

\* A record without a reservation has no job at work.
LEMMA NoReservationNoWork ==
  ASSUME Windows = {}, IInv, Request, ~Processing
  PROVE  NobodyWorks
  <1>1. ~TailPending
    BY DEF Request
  <1>2. ASSUME NEW j \in Jobs PROVE ~Executing(j)
    <2> SUFFICES ASSUME Executing(j) PROVE FALSE
      OBVIOUS
    <2>1. job[j].stage \in {"dub", "burn"}
      BY DEF IInv, TypeOK, Job, Reserved, Executing
    <2>2. StageOf(task, job[j].stage) = "processing"
      BY DEF IInv, Reserved
    <2>3. QED
      BY <2>1, <2>2 DEF StageOf, Processing
  <1>3. QED
    BY <1>1, <1>2 DEF IInv, Admitted, NobodyWorks, Active, TailPending, Executing

LEMMA DownIsAlone ==
  ASSUME IInv, ~up
  PROVE  NobodyWorks /\ OneFlag /\ run = "idle"
  BY DEF IInv, DownIsIdle, NobodyWorks, OneFlag, PipelineBusy, NoJob, Active, Executing, Closing

LEMMA AloneOwns ==
  ASSUME IInv, up, NobodyWorks
  PROVE  Owned
  BY DEF IInv, ProgressHasOwner, Owned, NobodyWorks, Active, StageOf

LEMMA QuietStep ==
  ASSUME IInv, TypeOK', NobodyWorks, UNCHANGED job, up', OneFlag', Owned',
         StartsAnew', DecisionIsCurrent', run' \in {"dub", "burn"} => Approved'
  PROVE  IInv'
  <1>1. NobodyWorks'
    BY DEF NobodyWorks, Active, Executing, Closing
  <1>2. DownIsIdle'
    BY DEF DownIsIdle
  <1>3. Exclusive'
    BY <1>1 DEF Exclusive, NobodyWorks, OneFlag
  <1>4. Reserved'
    BY <1>1 DEF IInv, Reserved, NobodyWorks, Active
  <1>5. ProgressHasOwner'
    BY DEF Owned, ProgressHasOwner, StageOf
  <1>6. Admitted'
    BY <1>1 DEF Admitted, NobodyWorks, Active
  <1>7. QED
    BY <1>2, <1>3, <1>4, <1>5, <1>6 DEF IInv

-----------------------------------------------------------------------------
(* Decisions.                                                              *)

LEMMA DecisionUntouched ==
  ASSUME DecisionIsCurrent, UNCHANGED <<text, review, view, confirmed>>
  PROVE  DecisionIsCurrent'
  BY DEF DecisionIsCurrent, Approved

LEMMA FreshDecision ==
  ASSUME TypeOK, NEW new, RequestReview(new)
  PROVE  DecisionIsCurrent'
  BY DEF TypeOK, Review, View, RequestReview, DecisionIsCurrent, Approved

LEMMA PausedDecision ==
  ASSUME TypeOK, DecisionIsCurrent, NEW t, NEW new \in Texts, Pause(t, new),
         text # Absent, text' = new, confirmed /\ new = text => confirmed'
  PROVE  DecisionIsCurrent'
  <1>1. CASE RequestReview(new)
    BY <1>1, FreshDecision
  <1>2. CASE UNCHANGED <<review, view>> /\ review.state \in {"approved", "pending"} /\ review.text = new
    BY <1>2 DEF DecisionIsCurrent, Approved
  <1>3. QED
    BY <1>1, <1>2 DEF Pause

LEMMA DecidedDecision ==
  ASSUME TypeOK, DecisionIsCurrent, MayApprove, Decide, UNCHANGED <<text, view>>
  PROVE  DecisionIsCurrent' /\ Approved'
  BY DEF TypeOK, Review, DecisionIsCurrent, MayApprove, Decide, Approved

-----------------------------------------------------------------------------
(* Requests that change the subtitles or their decision.                   *)

LEMMA QuietEdit ==
  ASSUME Windows = {}, IInv, TypeOK', Request, ~PipelineBusy, ~translating, ~Processing, ~asr,
         UNCHANGED <<up, run, translating, asr, job>>, DecisionIsCurrent',
         task'.status \in {"rest", task.status}, task'.dub # "processing", task'.burn # "processing"
  PROVE  IInv'
  <1>1. NobodyWorks
    BY NoReservationNoWork
  <1>2. up /\ task.exists /\ Owned
    BY <1>1, AloneOwns DEF Request
  <1>3. Owned'
    BY <1>2 DEF Owned, PipelineBusy, Busy
  <1>4. OneFlag' /\ StartsAnew' /\ (run' \notin {"dub", "burn"})
    BY DEF OneFlag, PipelineBusy, StartsAnew
  <1>5. QED
    BY <1>1, <1>2, <1>3, <1>4, QuietStep

LEMMA AwaitingStages ==
  ASSUME NEW t \in Record, t.dub # "processing", t.burn # "processing"
  PROVE  /\ Awaiting(t).status = "rest" /\ Awaiting(t).exists = t.exists
         /\ Awaiting(t).pipeline = "review"
         /\ Awaiting(t).dub # "processing" /\ Awaiting(t).burn # "processing"
  BY DEF Awaiting, Stale, Record

LEMMA PausedRecord ==
  ASSUME NEW t \in Record, NEW new, Pause(t, new), t.dub # "processing", t.burn # "processing"
  PROVE  /\ task'.status \in {"rest", t.status}
         /\ task'.dub # "processing" /\ task'.burn # "processing"
  BY AwaitingStages DEF Pause

LEMMA PauseForReviewKeeps ==
  ASSUME Windows = {}, IInv, TypeOK', PauseForReview
  PROVE  IInv'
  <1>1. Request /\ ~PipelineBusy /\ ~translating /\ ~Processing /\ ~asr
    BY DEF PauseForReview, ReviewAllowed, IInv, StartsAnew
  <1>2. task \in Record /\ text \in Texts /\ task.dub # "processing" /\ task.burn # "processing"
    BY <1>1 DEF PauseForReview, IInv, TypeOK, Processing
  <1>3. DecisionIsCurrent'
    BY <1>2, PausedDecision DEF PauseForReview, IInv
  <1>4. task'.status \in {"rest", task.status} /\ task'.dub # "processing" /\ task'.burn # "processing"
    BY <1>2, PausedRecord DEF PauseForReview
  <1>5. QED
    BY <1>1, <1>3, <1>4, QuietEdit DEF PauseForReview

LEMMA ApprovedStages ==
  ASSUME TypeOK
  PROVE  /\ ApprovedRecord.status \in {"rest", task.status} /\ ApprovedRecord.exists = task.exists
         /\ ApprovedRecord.dub = task.dub /\ ApprovedRecord.burn = task.burn
         /\ task.pipeline = "none" => ApprovedRecord = task
  BY DEF ApprovedRecord, TypeOK, Record

LEMMA ApproveKeeps ==
  ASSUME Windows = {}, IInv, TypeOK', Approve
  PROVE  IInv'
  <1>1. Request /\ ~PipelineBusy /\ ~translating /\ ~Processing /\ ~asr
    BY DEF Approve, ReviewAllowed, MayApprove, IInv, StartsAnew
  <1>2. DecisionIsCurrent'
    BY DecidedDecision DEF Approve, IInv
  <1>3. task'.status \in {"rest", task.status} /\ task'.dub # "processing" /\ task'.burn # "processing"
    BY <1>1, ApprovedStages DEF Approve, IInv, Processing
  <1>4. QED
    BY <1>1, <1>2, <1>3, QuietEdit DEF Approve

LEMMA EditKeeps ==
  ASSUME Windows = {}, IInv, TypeOK', NEW new \in Texts, Edit(new)
  PROVE  IInv'
  <1> DEFINE edited == IF HasOutputs
                       THEN [task EXCEPT !.pipeline = "ended", !.dub = Stale(@), !.burn = Stale(@)]
                       ELSE task
  <1>1. Request /\ ~PipelineBusy /\ ~translating /\ ~Processing /\ ~asr
    BY DEF Edit, EditAllowed, IInv, StartsAnew
  <1>2. /\ edited \in Record /\ edited.status = task.status
        /\ edited.dub # "processing" /\ edited.burn # "processing"
    <2>1. task \in Record /\ task.dub # "processing" /\ task.burn # "processing"
      BY <1>1 DEF IInv, TypeOK, Processing
    <2>2. CASE HasOutputs
      BY <2>1, <2>2 DEF Record, Stale, StageStatus
    <2>3. CASE ~HasOutputs
      BY <2>1, <2>3
    <2>4. QED
      BY <2>2, <2>3
  <1>3. Pause(edited, new) /\ text # Absent /\ text' = new /\ confirmed' = (confirmed /\ new = text)
    BY DEF Edit
  <1> HIDE DEF edited
  <1>4. DecisionIsCurrent'
    BY <1>3, PausedDecision DEF IInv
  <1>5. task'.status \in {"rest", task.status} /\ task'.dub # "processing" /\ task'.burn # "processing"
    BY <1>2, <1>3, PausedRecord
  <1>6. QED
    BY <1>1, <1>4, <1>5, QuietEdit DEF Edit

LEMMA RetimeKeeps ==
  ASSUME Windows = {}, IInv, TypeOK', NEW new \in Texts, Retime(new)
  PROVE  IInv'
  <1>1. Request /\ ~PipelineBusy /\ ~translating /\ ~Processing /\ ~asr
    BY DEF Retime, EditAllowed, IInv, StartsAnew
  <1>2. DecisionIsCurrent'
    BY FreshDecision DEF Retime, IInv
  <1>3. Awaiting(task) \in Record /\ Awaiting(task).status = "rest"
    BY AwaitingType DEF Awaiting, IInv, TypeOK, Record
  <1>4. task'.status = "rest" /\ task'.dub = "stale" /\ task'.burn = "stale"
    BY <1>3 DEF Retime, Record
  <1>5. QED
    BY <1>1, <1>2, <1>4, QuietEdit DEF Retime

LEMMA ExportKeeps ==
  ASSUME Windows = {}, IInv, TypeOK', NEW target \in BOOLEAN, Export(target)
  PROVE  IInv'
  <1>1. Request /\ ~PipelineBusy /\ ~translating /\ ~Processing /\ ~asr
    BY DEF Export, IInv, StartsAnew
  <1>2. DecisionIsCurrent'
    BY DecisionUntouched DEF Export, IInv
  <1>3. task'.status = "rest" /\ task'.dub # "processing" /\ task'.burn # "processing"
    BY <1>1 DEF Export, IInv, TypeOK, Record, Processing
  <1>4. QED
    BY <1>1, <1>2, <1>3, QuietEdit DEF Export

-----------------------------------------------------------------------------
(* Steps of a run, of a translation and of a transcription.                *)

LEMMA RunStep ==
  ASSUME IInv, TypeOK', up, PipelineBusy, UNCHANGED <<up, translating, asr, job>>, Owned',
         DecisionIsCurrent', run' \in {"dub", "burn"} => Approved'
  PROVE  IInv'
  <1>1. NobodyWorks /\ ~translating /\ ~asr
    BY BusyIsAlone DEF IInv, Exclusive
  <1>2. OneFlag' /\ StartsAnew'
    BY <1>1 DEF OneFlag, StartsAnew
  <1>3. QED
    BY <1>1, <1>2, QuietStep

LEMMA RunKeeps ==
  ASSUME IInv, TypeOK', PipelineRun \/ RunCancelled
  PROVE  IInv'
  <1>1. up /\ PipelineBusy
    BY DEF PipelineRun, RunRegenerates, RunPauses, RunGone, RunEntersStage, RunEnds, RunCancelled,
           PipelineBusy
  <1>2. Owned
    BY <1>1, BusyIsAlone, AloneOwns
  <1>3. task \in Record
    BY DEF IInv, TypeOK
  <1>4. ASSUME NEW new \in Texts, RunRegenerates(new) PROVE IInv'
    <2>1. DecisionIsCurrent'
      BY <1>4, FreshDecision DEF RunRegenerates, IInv
    <2>2. /\ task'.exists = Awaiting(task).exists /\ task'.status = Awaiting(task).status
          /\ task'.dub = Awaiting(task).dub /\ task'.burn = Awaiting(task).burn
      BY <1>3, <1>4, AwaitingType DEF RunRegenerates, Record
    <2>3. Awaiting(task).exists = task.exists /\ Awaiting(task).status = "rest"
      BY <1>3 DEF Awaiting, Record
    <2>4. task.exists => task.dub # "processing" /\ task.burn # "processing"
      BY <1>2, <1>4 DEF Owned, RunRegenerates
    <2>5. Owned'
      BY <1>3, <2>2, <2>3, <2>4, AwaitingStages DEF Owned, Busy
    <2>6. QED
      BY <1>1, <1>4, <2>1, <2>5, RunStep DEF RunRegenerates
  <1>5. CASE RunPauses
    <2>1. text \in Texts
      BY <1>5 DEF RunPauses, IInv, TypeOK
    <2>2. DecisionIsCurrent'
      BY <1>5, <2>1, PausedDecision DEF RunPauses, IInv
    <2>3. task' = Awaiting(task)
      BY <1>5, <2>1 DEF RunPauses, Pause, Approved
    <2>4. Awaiting(task).exists = task.exists /\ Awaiting(task).status = "rest"
      BY <1>3 DEF Awaiting, Record
    <2>5. task.exists => task.dub # "processing" /\ task.burn # "processing"
      BY <1>2, <1>5 DEF Owned, RunPauses
    <2>6. Owned'
      BY <1>3, <2>3, <2>4, <2>5, AwaitingStages DEF Owned, Busy
    <2>7. QED
      BY <1>1, <1>5, <2>2, <2>6, RunStep DEF RunPauses
  <1>6. CASE RunGone
    <2>1. DecisionIsCurrent'
      BY <1>6, DecisionUntouched DEF RunGone, IInv
    <2>2. Owned'
      BY <1>2, <1>3, <1>6 DEF Owned, RunGone, Ended, Record, Busy
    <2>3. QED
      BY <1>1, <1>6, <2>1, <2>2, RunStep DEF RunGone
  <1>7. ASSUME NEW stage \in {"dub", "burn"}, RunEntersStage(stage) PROVE IInv'
    <2>1. DecisionIsCurrent'
      BY <1>7, DecisionUntouched DEF RunEntersStage, IInv
    <2>2. Owned'
      BY <1>2, <1>3, <1>7 DEF Owned, RunEntersStage, WithStage, PipelineBusy, Record
    <2>3. Approved'
      BY <1>7 DEF RunEntersStage, Ready, Approved, IInv, Admitted
    <2>4. QED
      BY <1>1, <1>7, <2>1, <2>2, <2>3, RunStep DEF RunEntersStage
  <1>8. ASSUME NEW outcome \in {"completed", "failed", "compression"}, RunEnds(outcome) PROVE IInv'
    <2>1. DecisionIsCurrent'
      BY <1>8, DecisionUntouched DEF RunEnds, IInv
    <2>2. task'.exists = task.exists /\ task'.status = "rest"
      BY <1>3, <1>8 DEF RunEnds, Ended, WithStage, Record
    <2>3. task.exists => task'.dub # "processing" /\ task'.burn # "processing"
      BY <1>2, <1>3, <1>8 DEF RunEnds, Ended, WithStage, Record, Owned
    <2>4. Owned'
      BY <2>2, <2>3 DEF Owned, Busy
    <2>5. QED
      BY <1>1, <1>8, <2>1, <2>4, RunStep DEF RunEnds
  <1>9. CASE RunCancelled
    <2>1. DecisionIsCurrent'
      BY <1>9, DecisionUntouched DEF RunCancelled, IInv
    <2>2. /\ task'.exists = task.exists /\ (task'.status = "rest" \/ run' = "retiring")
          /\ task'.dub # "processing" /\ task'.burn # "processing"
      BY <1>3, <1>9 DEF RunCancelled, Released, Record
    <2>3. Owned'
      BY <2>2 DEF Owned, PipelineBusy, Busy
    <2>4. QED
      BY <1>1, <1>9, <2>1, <2>3, RunStep DEF RunCancelled
  <1>10. QED
    BY <1>4, <1>5, <1>6, <1>7, <1>8, <1>9 DEF PipelineRun

LEMMA TranslationKeeps ==
  ASSUME IInv, TypeOK', Translation
  PROVE  IInv'
  <1>1. up /\ translating /\ translating' = FALSE /\ UNCHANGED <<up, run, asr, job>>
    BY DEF Translation, Translated, TranslationFails
  <1>2. NobodyWorks /\ run = "idle" /\ ~asr /\ task \in Record
    BY <1>1, BusyIsAlone DEF IInv, Exclusive, PipelineBusy, TypeOK
  <1>3. Owned
    BY <1>1, <1>2, AloneOwns
  <1>4. OneFlag' /\ StartsAnew' /\ run' \notin {"dub", "burn"}
    BY <1>1, <1>2 DEF OneFlag, StartsAnew
  <1>5. ASSUME NEW new \in Texts, Translated(new) PROVE Owned' /\ DecisionIsCurrent'
    <2>1. DecisionIsCurrent'
      BY <1>5, FreshDecision DEF Translated, IInv
    <2>2. Awaiting(task).exists = task.exists /\ Awaiting(task).status = "rest"
      BY <1>2 DEF Awaiting, Record
    <2>3. Owned'
      BY <1>2, <1>3, <1>5, <2>2, AwaitingStages DEF Translated, Owned, Busy
    <2>4. QED
      BY <2>1, <2>3
  <1>6. CASE TranslationFails
    <2>1. DecisionIsCurrent'
      BY <1>6, DecisionUntouched DEF TranslationFails, IInv
    <2>2. Owned'
      BY <1>2, <1>3, <1>6 DEF TranslationFails, Owned, Busy, Record
    <2>3. QED
      BY <1>1, <1>2, <1>4, <2>1, <2>2, QuietStep
  <1>7. QED
    BY <1>1, <1>2, <1>4, <1>5, <1>6, QuietStep DEF Translation

LEMMA TranscriptionKeeps ==
  ASSUME IInv, TypeOK', NEW ok \in BOOLEAN, TranscriptionEnds(ok)
  PROVE  IInv'
  <1>1. up /\ asr /\ ~asr' /\ UNCHANGED <<up, run, translating, job>>
    BY DEF TranscriptionEnds
  <1>2. NobodyWorks /\ run = "idle" /\ ~translating /\ task \in Record
    BY <1>1, BusyIsAlone DEF IInv, Exclusive, PipelineBusy, TypeOK
  <1>3. OneFlag' /\ StartsAnew' /\ run' \notin {"dub", "burn"}
    BY <1>1, <1>2 DEF OneFlag, StartsAnew
  <1>4. DecisionIsCurrent'
    BY DecisionUntouched DEF TranscriptionEnds, IInv
  <1>5. Owned'
    <2>1. task.dub # "processing" /\ task.burn # "processing"
      BY <1>1 DEF IInv, StartsAnew, Processing
    <2>2. task'.dub = task.dub /\ task'.burn = task.burn /\ (task.exists => task'.status = "rest")
          /\ task'.exists = task.exists
      BY <1>2 DEF TranscriptionEnds, Write, Record
    <2>3. QED
      BY <2>1, <2>2 DEF Owned, Busy
  <1>6. QED
    BY <1>1, <1>2, <1>3, <1>4, <1>5, QuietStep

-----------------------------------------------------------------------------
(* Requests that start something, and the rest of a task's life.           *)

\* Where a run, a translation or a job may start, nobody is at work.
LEMMA StartIsAlone ==
  ASSUME Windows = {}, IInv, Request, ~PipelineBusy, ~translating, ~Processing
  PROVE  /\ up /\ task.exists /\ run = "idle" /\ NobodyWorks /\ Owned
         /\ task \in Record /\ task.dub # "processing" /\ task.burn # "processing"
  <1>1. up /\ task.exists /\ NobodyWorks
    BY NoReservationNoWork DEF Request
  <1>2. QED
    BY <1>1, AloneOwns DEF PipelineBusy, Processing, IInv, TypeOK

\* A run that starts.
LEMMA RunStarts ==
  ASSUME Windows = {}, IInv, TypeOK', Request, NoTranscription, Startable, run' = "running",
         task' = Started(task), UNCHANGED <<up, translating, asr, job>>, DecisionIsCurrent'
  PROVE  IInv'
  <1>1. /\ up /\ NobodyWorks /\ ~asr /\ ~translating /\ task \in Record
        /\ task.dub # "processing" /\ task.burn # "processing"
    BY StartIsAlone DEF Startable, NoTranscription
  <1>2. OneFlag' /\ StartsAnew' /\ run' \notin {"dub", "burn"}
    BY <1>1 DEF OneFlag, StartsAnew
  <1>3. Owned'
    BY <1>1 DEF Owned, Started, PipelineBusy, Record
  <1>4. QED
    BY <1>1, <1>2, <1>3, QuietStep

LEMMA DecideCompressionKeeps ==
  ASSUME Windows = {}, IInv, TypeOK', NEW approve \in BOOLEAN, DecideCompression(approve)
  PROVE  IInv'
  <1>1. DecisionIsCurrent'
    BY DecisionUntouched DEF DecideCompression, IInv
  <1>2. CASE approve
    BY <1>1, <1>2, RunStarts DEF DecideCompression
  <1>3. CASE ~approve
    <2>1. /\ up /\ task.exists /\ task.pipeline = "compression" /\ UNCHANGED <<up, run, translating, asr, job>>
          /\ task' = [task EXCEPT !.status = "rest", !.pipeline = "ended", !.dub = "failed"]
      BY <1>3 DEF DecideCompression, Request
    <2>2. ~asr /\ task \in Record /\ (run \in {"dub", "burn"} => Approved')
      BY <2>1 DEF DecideCompression, Approved, IInv, TypeOK, StartsAnew, Admitted
    <2>3. \A j \in Jobs : ~Active(j)
      BY <2>1 DEF IInv, Reserved
    <2>4. NobodyWorks
      BY <2>3 DEF NobodyWorks, IInv, Admitted, Active, Executing
    <2>5. Owned'
      <3>1. task'.exists /\ task'.status = "rest" /\ task'.dub = "failed" /\ task'.burn = task.burn
        BY <2>1, <2>2 DEF Record
      <3>2. QED
        BY <2>1, <2>4, <3>1, AloneOwns DEF Owned, Busy
    <2>6. OneFlag' /\ StartsAnew'
      BY <2>1, <2>2 DEF OneFlag, StartsAnew, PipelineBusy, IInv, Exclusive
    <2>7. QED
      BY <1>1, <2>1, <2>2, <2>4, <2>5, <2>6, QuietStep
  <1>4. QED
    BY <1>2, <1>3

\* A decision that comes with a start which is then refused.
LEMMA RefusedStartKeeps ==
  ASSUME IInv, TypeOK', up, ~asr, UNCHANGED <<up, text, view, run, translating, asr, job>>,
         \/ task' = task /\ UNCHANGED <<review, confirmed>>
         \/ task' = ApprovedRecord /\ MayApprove /\ Decide
  PROVE  IInv'
  <1>1. DecisionIsCurrent' /\ (Approved => Approved')
    BY DecisionUntouched, DecidedDecision DEF IInv, Approved
  <1>2. /\ task'.status \in {"rest", task.status} /\ task'.exists = task.exists
        /\ task'.dub = task.dub /\ task'.burn = task.burn
        /\ task.pipeline = "none" => task'.pipeline = "none"
    BY ApprovedStages DEF IInv
  <1>3. \A j \in Jobs : (Executing(j) <=> Executing(j)') /\ (Closing(j) <=> Closing(j)')
    BY DEF Executing, Closing
  <1>4. DownIsIdle' /\ StartsAnew'
    BY DEF DownIsIdle, StartsAnew
  <1>5. Exclusive'
    BY <1>3 DEF IInv, Exclusive, Active, PipelineBusy
  <1>6. Reserved'
    BY <1>2, <1>3 DEF IInv, Reserved, Active, StageOf
  <1>7. ProgressHasOwner'
    BY <1>2, <1>3 DEF IInv, ProgressHasOwner, StageOf, PipelineBusy, Busy
  <1>8. Admitted'
    BY <1>1, <1>3 DEF IInv, Admitted
  <1>9. QED
    BY <1>1, <1>4, <1>5, <1>6, <1>7, <1>8 DEF IInv

LEMMA StartPipelineKeeps ==
  ASSUME Windows = {}, IInv, TypeOK', NEW withReview \in BOOLEAN, StartPipeline(withReview)
  PROVE  IInv'
  <1> DEFINE decides == withReview /\ ~PipelineBusy /\ ~translating
  <1>1. /\ Request /\ up /\ NoTranscription /\ ~asr
        /\ UNCHANGED <<up, text, view, translating, asr, job>>
        /\ IF decides /\ MayApprove THEN Decide ELSE UNCHANGED <<review, confirmed>>
        /\ IF Startable /\ (withReview => MayApprove)
           THEN run' = "running" /\ task' = Started(task)
           ELSE /\ UNCHANGED run
                /\ task' = IF decides /\ MayApprove THEN ApprovedRecord ELSE task
    BY DEF StartPipeline, NoTranscription, Request
  <1> HIDE DEF decides
  <1>2. DecisionIsCurrent'
    BY <1>1, DecisionUntouched, DecidedDecision DEF IInv
  <1>3. CASE Startable /\ (withReview => MayApprove)
    BY <1>1, <1>2, <1>3, RunStarts
  <1>4. CASE ~(Startable /\ (withReview => MayApprove))
    <2>1. CASE decides /\ MayApprove
      BY <1>1, <1>4, <2>1, RefusedStartKeeps
    <2>2. CASE ~(decides /\ MayApprove)
      BY <1>1, <1>4, <2>2, RefusedStartKeeps
    <2>3. QED
      BY <2>1, <2>2
  <1>5. QED
    BY <1>3, <1>4

LEMMA AskTranslationKeeps ==
  ASSUME Windows = {}, IInv, TypeOK', AskTranslation
  PROVE  IInv'
  <1>1. up /\ run = "idle" /\ NobodyWorks /\ task \in Record /\ task.dub # "processing" /\ task.burn # "processing"
    BY StartIsAlone DEF AskTranslation
  <1>2. ~asr
    BY DEF AskTranslation, IInv, StartsAnew
  <1>3. DecisionIsCurrent'
    BY DecisionUntouched DEF AskTranslation, IInv
  <1>4. Owned'
    BY <1>1 DEF AskTranslation, Owned, Record
  <1>5. OneFlag' /\ StartsAnew' /\ run' \notin {"dub", "burn"}
    BY <1>1, <1>2 DEF AskTranslation, OneFlag, StartsAnew, PipelineBusy
  <1>6. QED
    BY <1>1, <1>3, <1>4, <1>5, QuietStep DEF AskTranslation

\* A reset or deletion that passes preflight finds nobody at work.
LEMMA IdleIsAlone ==
  ASSUME Windows = {}, IInv, Request, Idle
  PROVE  up /\ run = "idle" /\ ~translating /\ ~asr /\ NobodyWorks /\ task \in Record
  <1>1. ~PipelineBusy /\ ~translating /\ ~Processing /\ task.status # "pending"
    BY DEF Idle, FinishedStage
  <1>2. QED
    BY <1>1, StartIsAlone DEF IInv, StartsAnew

LEMMA RetryKeeps ==
  ASSUME Windows = {}, IInv, TypeOK', Retry
  PROVE  IInv'
  <1>1. up /\ run = "idle" /\ ~translating /\ NobodyWorks /\ task \in Record
    BY IdleIsAlone DEF Retry
  <1>2. /\ task'.status = "pending" /\ ~task'.source /\ task'.pipeline = "none"
        /\ task'.dub = "none" /\ task'.burn = "none"
    BY <1>1 DEF Retry, Record
  <1>3. StartsAnew' /\ Owned'
    BY <1>2 DEF Retry, StartsAnew, Owned, Processing
  <1>4. OneFlag' /\ run' \notin {"dub", "burn"}
    BY <1>1 DEF Retry, OneFlag, PipelineBusy
  <1>5. DecisionIsCurrent'
    BY DEF Retry, IInv, DecisionIsCurrent, Approved
  <1>6. QED
    BY <1>1, <1>3, <1>4, <1>5, QuietStep DEF Retry

LEMMA DeleteKeeps ==
  ASSUME Windows = {}, IInv, TypeOK', Delete
  PROVE  IInv'
  <1>1. up /\ run = "idle" /\ ~translating /\ ~asr /\ NobodyWorks /\ task \in Record
    BY IdleIsAlone DEF Delete
  <1>2. Owned' /\ StartsAnew' /\ OneFlag' /\ run' \notin {"dub", "burn"}
    BY <1>1 DEF Delete, Owned, Record, StartsAnew, OneFlag, PipelineBusy
  <1>3. DecisionIsCurrent'
    BY DecisionUntouched DEF Delete, IInv
  <1>4. QED
    BY <1>1, <1>2, <1>3, QuietStep DEF Delete

LEMMA CrashKeeps ==
  ASSUME IInv, TypeOK', Crash
  PROVE  IInv'
  <1>1. \A j \in Jobs : job'[j] = NoJob /\ ~Active(j)'
    BY DEF Crash, Active, Executing, Closing, NoJob
  <1>2. DownIsIdle' /\ ProgressHasOwner' /\ StartsAnew'
    BY <1>1 DEF Crash, DownIsIdle, ProgressHasOwner, StartsAnew
  <1>3. Exclusive' /\ Reserved' /\ Admitted'
    BY <1>1 DEF Crash, Exclusive, PipelineBusy, Reserved, Admitted, Active, NoJob
  <1>4. DecisionIsCurrent'
    BY DecisionUntouched DEF Crash, IInv
  <1>5. QED
    BY <1>2, <1>3, <1>4 DEF IInv

LEMMA RecoverKeeps ==
  ASSUME IInv, TypeOK', Recover
  PROVE  IInv'
  <1>1. NobodyWorks /\ run = "idle" /\ ~translating /\ ~asr /\ task \in Record
    BY DownIsAlone DEF Recover, IInv, DownIsIdle, TypeOK
  <1>2. Owned'
    BY <1>1 DEF Recover, Write, Owned, Record, RecoveredStage, Busy
  <1>3. StartsAnew' /\ OneFlag' /\ run' \notin {"dub", "burn"}
    BY <1>1 DEF Recover, StartsAnew, OneFlag, PipelineBusy
  <1>4. DecisionIsCurrent'
    BY DecisionUntouched DEF Recover, IInv
  <1>5. QED
    BY <1>1, <1>2, <1>3, <1>4, QuietStep DEF Recover

-----------------------------------------------------------------------------
(* Steps of the jobs.                                                      *)

\* A job that only asks for a voice, or gives up.
LEMMA WaitingJobKeeps ==
  ASSUME IInv, TypeOK', up, NEW j \in Jobs, ~Active(j), NEW slot,
         job' = [job EXCEPT ![j] = slot], slot.at \in {"none", "voice"}, slot.text = Absent,
         slot.at # "none" => slot.stage # "none",
         UNCHANGED <<up, task, text, review, view, confirmed, run, asked, translating, asr>>
  PROVE  IInv'
  <1>1. job'[j] = slot /\ \A k \in Jobs \ {j} : job'[k] = job[k]
    BY DEF IInv, TypeOK
  <1>2. \A k \in Jobs : (Executing(k)' <=> Executing(k)) /\ (Closing(k)' <=> Closing(k))
    BY <1>1 DEF Executing, Closing, Active
  <1>3. \A k \in Jobs : Active(k)' => k # j
    BY <1>2 DEF Active
  <1>4. Exclusive'
    BY <1>2 DEF IInv, Exclusive, Active, PipelineBusy
  <1>5. Reserved'
    BY <1>1, <1>2, <1>3 DEF IInv, Reserved, Active, StageOf
  <1>6. ProgressHasOwner'
    BY <1>1, <1>2, <1>3 DEF IInv, ProgressHasOwner, Active, StageOf, PipelineBusy
  <1>7. Admitted'
    BY <1>1, <1>2, <1>3 DEF IInv, Admitted, Active, Approved
  <1>8. DownIsIdle' /\ StartsAnew' /\ DecisionIsCurrent'
    BY DecisionUntouched DEF IInv, DownIsIdle, StartsAnew, Processing
  <1>9. QED
    BY <1>4, <1>5, <1>6, <1>7, <1>8 DEF IInv

LEMMA AskDubKeeps ==
  ASSUME IInv, TypeOK', NEW j \in Jobs, NEW target \in BOOLEAN, AskDub(j, target)
  PROVE  IInv'
  <1> DEFINE slot == [stage |-> "dub", at |-> "voice", target |-> target, text |-> Absent]
  <1>1. job' = [job EXCEPT ![j] = slot] /\ job'[j] = slot
    BY DEF AskDub, IInv, TypeOK
  <1>2. up /\ ~Active(j)
    BY DEF AskDub, Request, Active, Executing, Closing, NoJob
  <1>3. slot.at = "voice" /\ slot.stage = "dub" /\ slot.text = Absent
    OBVIOUS
  <1> HIDE DEF slot
  <1>4. QED
    BY <1>1, <1>2, <1>3, WaitingJobKeeps DEF AskDub

LEMMA VoiceEndsKeeps ==
  ASSUME IInv, TypeOK', up, NEW j \in Jobs, job[j].at = "voice", job' = [job EXCEPT ![j] = NoJob],
         UNCHANGED <<up, task, text, review, view, confirmed, run, asked, translating, asr>>
  PROVE  IInv'
  <1>1. ~Active(j)
    BY DEF Active, Executing, Closing
  <1>2. NoJob.at = "none" /\ NoJob.text = Absent
    BY DEF NoJob
  <1>3. QED
    BY <1>1, <1>2, WaitingJobKeeps

\* A job that is admitted finds nobody else, and its decision made.
LEMMA ReserveKeeps ==
  ASSUME Windows = {}, IInv, TypeOK', NEW j \in Jobs, NEW stage \in {"dub", "burn"}, NEW target \in BOOLEAN,
         Request, NoTranscription, ~PipelineBusy, ~translating, ~Processing, MayConsume(target),
         Reserve(j, stage, target),
         UNCHANGED <<up, text, review, view, confirmed, run, asked, translating, asr>>
  PROVE  IInv'
  <1>1. /\ up /\ task.exists /\ run = "idle" /\ NobodyWorks /\ ~asr
        /\ task \in Record /\ task.dub # "processing" /\ task.burn # "processing"
    BY StartIsAlone DEF NoTranscription
  <1>2. /\ job'[j] = [stage |-> stage, at |-> "reserved", target |-> target, text |-> Absent]
        /\ \A k \in Jobs \ {j} : job'[k] = job[k]
    BY DEF Reserve, IInv, TypeOK
  <1>3. Executing(j)' /\ ~Closing(j)' /\ \A k \in Jobs \ {j} : ~Executing(k)' /\ ~Closing(k)'
    BY <1>1, <1>2 DEF NobodyWorks, Active, Executing, Closing
  <1>4. task'.exists /\ task'.pipeline = "none" /\ StageOf(task', stage) = "processing"
    BY <1>1 DEF Reserve, WithStage, StageOf, Record
  <1>5. \A s \in {"dub", "burn"} \ {stage} : StageOf(task', s) # "processing"
    BY <1>1 DEF Reserve, WithStage, StageOf, Record
  <1>6. DownIsIdle' /\ StartsAnew' /\ DecisionIsCurrent'
    BY <1>1, DecisionUntouched DEF IInv, DownIsIdle, StartsAnew
  <1>7. Exclusive'
    BY <1>1, <1>3 DEF Exclusive, Active, PipelineBusy
  <1>8. Reserved'
    BY <1>2, <1>3, <1>4 DEF IInv, Reserved, Active, StageOf
  <1>9. ProgressHasOwner'
    BY <1>2, <1>3, <1>5 DEF ProgressHasOwner, StageOf
  <1>10. Admitted'
    <2>1. target => text = Absent \/ Approved
      BY DEF MayConsume, IInv, DecisionIsCurrent
    <2>2. \A k \in Jobs : job'[k].text = Absent
      BY <1>1, <1>2 DEF NobodyWorks
    <2>3. QED
      BY <1>1, <1>2, <1>3, <2>1, <2>2 DEF Admitted, Approved
  <1>11. QED
    BY <1>6, <1>7, <1>8, <1>9, <1>10 DEF IInv

LEMMA AdmissionKeeps ==
  ASSUME Windows = {}, IInv, TypeOK', NEW j \in Jobs, NEW target \in BOOLEAN,
         ReserveBurn(j, target) \/ VoiceFound(j) \/ VoiceMissing(j)
  PROVE  IInv'
  <1>1. CASE ReserveBurn(j, target)
    BY <1>1, ReserveKeeps DEF ReserveBurn
  <1>2. CASE VoiceFound(j) /\ StillAllowed(j)
    <2>1. job[j].target \in BOOLEAN
      BY DEF IInv, TypeOK, Job
    <2>2. QED
      BY <1>2, <2>1, ReserveKeeps DEF VoiceFound, StillAllowed
  <1>3. CASE VoiceFound(j) /\ ~StillAllowed(j)
    BY <1>3, VoiceEndsKeeps DEF VoiceFound
  <1>4. CASE VoiceMissing(j)
    BY <1>4, VoiceEndsKeeps DEF VoiceMissing
  <1>5. QED
    BY <1>1, <1>2, <1>3, <1>4

LEMMA JobIsAlone ==
  ASSUME IInv, NEW j \in Jobs, Active(j)
  PROVE  /\ up /\ run = "idle" /\ ~translating /\ ~asr /\ task.pipeline = "none"
         /\ job[j].stage \in {"dub", "burn"}
         /\ \A k \in Jobs \ {j} : ~Executing(k) /\ ~Closing(k)
  <1>1. job[j].at # "none" /\ up
    BY DEF IInv, DownIsIdle, NoJob, Active, Executing, Closing
  <1>2. job[j].stage \in {"dub", "burn"} /\ task.pipeline = "none"
    BY <1>1 DEF IInv, TypeOK, Job, Reserved
  <1>3. QED
    BY <1>1, <1>2 DEF IInv, Exclusive, PipelineBusy, Active

LEMMA JobBeginsKeeps ==
  ASSUME IInv, TypeOK', NEW j \in Jobs, JobBegins(j)
  PROVE  IInv'
  <1>1. Executing(j) /\ Active(j)
    BY DEF JobBegins, Active, Executing
  <1>2. task' = task
    <2>1. task \in Record /\ task.exists /\ StageOf(task, job[j].stage) = "processing"
      BY <1>1 DEF IInv, TypeOK, Reserved
    <2>2. QED
      BY <2>1 DEF JobBegins, Write, WithStage, StageOf, Record
  <1>3. /\ job'[j] = [job[j] EXCEPT !.at = "working", !.text = IF job[j].target THEN text ELSE Absent]
        /\ \A k \in Jobs \ {j} : job'[k] = job[k]
    BY DEF JobBegins, IInv, TypeOK
  <1>4. job[j] \in Job
    BY DEF IInv, TypeOK
  <1>5. /\ job'[j].at = "working" /\ job'[j].stage = job[j].stage /\ job'[j].target = job[j].target
        /\ job'[j].text = IF job[j].target THEN text ELSE Absent
    BY <1>3, <1>4 DEF Job
  <1>6. \A k \in Jobs : (Executing(k)' <=> Executing(k)) /\ (Closing(k)' <=> Closing(k))
    BY <1>1, <1>3, <1>5, JobIsAlone DEF JobBegins, Executing, Closing
  <1>7. \A k \in Jobs : job'[k].stage = job[k].stage /\ job'[k].target = job[k].target
                        /\ (job'[k].at = "none" <=> job[k].at = "none")
    BY <1>3, <1>5 DEF JobBegins
  <1>8. UNCHANGED <<up, text, review, view, confirmed, run, asked, translating, asr>>
    BY DEF JobBegins
  <1>9. DownIsIdle' /\ StartsAnew' /\ DecisionIsCurrent'
    BY <1>1, <1>2, <1>8, JobIsAlone, DecisionUntouched DEF IInv, DownIsIdle, StartsAnew
  <1>10. Exclusive'
    BY <1>6, <1>8 DEF IInv, Exclusive, Active, PipelineBusy
  <1>11. Reserved'
    BY <1>2, <1>6, <1>7 DEF IInv, Reserved, Active, StageOf
  <1>12. ProgressHasOwner'
    BY <1>2, <1>6, <1>7, <1>8 DEF IInv, ProgressHasOwner, StageOf, PipelineBusy
  <1>13. Admitted'
    <2>1. ASSUME NEW k \in Jobs, Executing(k)', job'[k].target PROVE text' = Absent \/ Approved'
      BY <1>6, <1>7, <1>8, <2>1 DEF IInv, Admitted, Approved
    <2>2. ASSUME NEW k \in Jobs, job'[k].text # Absent
          PROVE  job'[k].at = "working" /\ job'[k].target /\ job'[k].text = text'
      <3>1. CASE k = j
        BY <1>5, <1>8, <2>2, <3>1
      <3>2. CASE k # j
        BY <1>3, <1>8, <2>2, <3>2 DEF IInv, Admitted
      <3>3. QED
        BY <3>1, <3>2
    <2>3. run' \in {"dub", "burn"} => Approved'
      BY <1>8 DEF IInv, Admitted, Approved
    <2>4. QED
      BY <2>1, <2>2, <2>3 DEF Admitted
  <1>14. QED
    BY <1>9, <1>10, <1>11, <1>12, <1>13 DEF IInv

\* A job's stage is the only one in progress.
LEMMA OtherStageRests ==
  ASSUME IInv, NEW j \in Jobs, Active(j), task.exists, NEW s \in {"dub", "burn"}, s # job[j].stage
  PROVE  StageOf(task, s) # "processing"
  <1>1. run = "idle" /\ up /\ \A k \in Jobs \ {j} : ~Executing(k) /\ ~Closing(k)
    BY JobIsAlone
  <1>2. QED
    BY <1>1 DEF IInv, ProgressHasOwner

LEMMA StageAfterWrite ==
  ASSUME NEW t \in Record, NEW stage \in {"dub", "burn"}, NEW value
  PROVE  /\ StageOf(WithStage(t, stage, value), stage) = value
         /\ \A s \in {"dub", "burn"} \ {stage} : StageOf(WithStage(t, stage, value), s) = StageOf(t, s)
         /\ WithStage(t, stage, value).exists = t.exists
         /\ WithStage(t, stage, value).pipeline = t.pipeline
  BY DEF Record, StageOf, WithStage

LEMMA JobPublishesKeeps ==
  ASSUME IInv, TypeOK', NEW j \in Jobs, NEW value \in {"completed", "failed"}, JobPublishes(j, value)
  PROVE  IInv'
  <1>1. Executing(j) /\ Active(j) /\ job[j] \in Job /\ task \in Record
    BY DEF JobPublishes, Active, Executing, IInv, TypeOK
  <1>2. job'[j] = [job[j] EXCEPT !.at = value, !.text = Absent] /\ \A k \in Jobs \ {j} : job'[k] = job[k]
    BY DEF JobPublishes, IInv, TypeOK
  <1>3. job'[j].at = value /\ job'[j].stage = job[j].stage /\ job'[j].text = Absent
    BY <1>1, <1>2 DEF Job
  <1>4. Closing(j)' /\ \A k \in Jobs : ~Executing(k)' /\ (k # j => ~Closing(k)')
    <2>1. Closing(j)' /\ ~Executing(j)'
      BY <1>3 DEF Executing, Closing
    <2>2. \A k \in Jobs \ {j} : ~Executing(k)' /\ ~Closing(k)'
      BY <1>1, <1>2, JobIsAlone DEF Executing, Closing
    <2>3. QED
      BY <2>1, <2>2
  <1>5. /\ up /\ run = "idle" /\ ~translating /\ ~asr /\ task.pipeline = "none" /\ task.exists
        /\ job[j].stage \in {"dub", "burn"}
        /\ UNCHANGED <<up, text, review, view, confirmed, run, asked, translating, asr>>
    BY <1>1, JobIsAlone DEF JobPublishes, IInv, Reserved
  <1>6. task' = task \/ task' = WithStage(task, job[j].stage, value)
    BY DEF JobPublishes, Write
  <1>7. DownIsIdle' /\ StartsAnew' /\ DecisionIsCurrent'
    BY <1>5, DecisionUntouched DEF IInv, DownIsIdle, StartsAnew
  <1>8. Exclusive'
    BY <1>4, <1>5 DEF Exclusive, Active, PipelineBusy
  <1>9. Reserved'
    <2>1. task'.pipeline = "none"
      BY <1>1, <1>5, <1>6, StageAfterWrite
    <2>2. \A k \in Jobs : job'[k].at # "none" => job'[k].stage # "none"
      <3>1. job'[j].stage # "none"
        BY <1>3, <1>5
      <3>2. \A k \in Jobs \ {j} : job'[k].at # "none" => job'[k].stage # "none"
        BY <1>2 DEF IInv, Reserved
      <3>3. QED
        BY <3>1, <3>2
    <2>3. QED
      BY <1>4, <2>1, <2>2 DEF Reserved
  <1>10. ProgressHasOwner'
    <2>1. \A s \in {"dub", "burn"} \ {job[j].stage} : StageOf(task', s) # "processing"
      BY <1>1, <1>5, <1>6, StageAfterWrite, OtherStageRests
    <2>2. QED
      BY <1>3, <1>4, <2>1 DEF ProgressHasOwner, StageOf
  <1>11. Admitted'
    BY <1>2, <1>3, <1>4, <1>5 DEF IInv, Admitted, Executing, Closing
  <1>12. QED
    BY <1>7, <1>8, <1>9, <1>10, <1>11 DEF IInv

LEMMA JobClosesKeeps ==
  ASSUME IInv, TypeOK', NEW j \in Jobs, JobCloses(j)
  PROVE  IInv'
  <1>1. Closing(j) /\ Active(j) /\ task \in Record
    BY DEF JobCloses, Active, IInv, TypeOK
  <1>2. job'[j] = NoJob /\ \A k \in Jobs \ {j} : job'[k] = job[k]
    BY DEF JobCloses, IInv, TypeOK
  <1>3. \A k \in Jobs : ~Executing(k)' /\ ~Closing(k)'
    BY <1>1, <1>2, JobIsAlone DEF Executing, Closing, NoJob
  <1>4. \A k \in Jobs : job'[k].text = Absent
    BY <1>1, <1>2, JobIsAlone DEF IInv, Admitted, Executing, NoJob
  <1>5. /\ up /\ run = "idle" /\ ~translating /\ ~asr /\ job[j].stage \in {"dub", "burn"}
        /\ UNCHANGED <<up, text, review, view, confirmed, run, asked, translating, asr>>
    BY <1>1, JobIsAlone DEF JobCloses
  <1>6. DownIsIdle' /\ StartsAnew' /\ DecisionIsCurrent'
    BY <1>5, DecisionUntouched DEF IInv, DownIsIdle, StartsAnew
  <1>7. Exclusive'
    BY <1>3, <1>5 DEF Exclusive, Active, PipelineBusy
  <1>8. Reserved'
    BY <1>2, <1>3 DEF IInv, Reserved, Active, NoJob
  <1>9. ProgressHasOwner'
    <2>1. SUFFICES ASSUME task'.exists
                   PROVE  /\ task'.status \notin Busy
                          /\ \A s \in {"dub", "burn"} : StageOf(task', s) # "processing"
      BY DEF ProgressHasOwner, StageOf
    <2> DEFINE written == WithStage(task, job[j].stage, job[j].at)
    <2>2. task.exists /\ task' = [written EXCEPT !.status = "rest"]
      BY <2>1 DEF JobCloses, Write, Closed
    <2>3. written \in Record
      BY <1>1, StageWrite DEF Closing, StageStatus
    <2>4. \A s \in {"dub", "burn"} : StageOf(written, s) # "processing"
      BY <1>1, <1>5, <2>2, StageAfterWrite, OtherStageRests DEF Closing
    <2> HIDE DEF written
    <2>5. QED
      BY <2>2, <2>3, <2>4 DEF Record, StageOf, Busy
  <1>10. Admitted'
    BY <1>3, <1>4, <1>5 DEF Admitted
  <1>11. QED
    BY <1>6, <1>7, <1>8, <1>9, <1>10 DEF IInv

-----------------------------------------------------------------------------
(* The invariant.                                                          *)

\* Steps that change neither the record nor what works on the task.
LEMMA LookingKeeps ==
  ASSUME IInv, TypeOK', up, DecisionIsCurrent',
         UNCHANGED <<up, task, text, review, run, translating, asr, job>>
  PROVE  IInv'
  <1>1. DownIsIdle' /\ Reserved' /\ StartsAnew' /\ ProgressHasOwner'
    BY DEF IInv, DownIsIdle, Reserved, StartsAnew, ProgressHasOwner, Active, Executing, Closing,
           StageOf, Processing, PipelineBusy
  <1>2. Exclusive' /\ Admitted'
    BY DEF IInv, Exclusive, Admitted, Active, Executing, Closing, PipelineBusy, Approved
  <1>3. QED
    BY <1>1, <1>2 DEF IInv

LEMMA InvariantInit == Init => IInv
  <1> SUFFICES ASSUME Init PROVE IInv
    OBVIOUS
  <1>1. TypeOK
    BY DEF Init, TypeOK, Record, StageStatus, Busy, Review, View, Job, NoJob
  <1>2. NobodyWorks
    BY DEF Init, NobodyWorks, Active, Executing, Closing, NoJob
  <1>3. DownIsIdle /\ StartsAnew /\ DecisionIsCurrent /\ ProgressHasOwner
    BY DEF Init, DownIsIdle, StartsAnew, DecisionIsCurrent, ProgressHasOwner, Processing, StageOf, Approved
  <1>4. Exclusive /\ Reserved /\ Admitted
    BY <1>2 DEF Init, Exclusive, Reserved, Admitted, NobodyWorks, Active, PipelineBusy, NoJob
  <1>5. QED
    BY <1>1, <1>3, <1>4 DEF IInv

LEMMA InvariantStep ==
  ASSUME Windows = {}
  PROVE  IInv /\ [Next]_vars => IInv'
  <1> SUFFICES ASSUME IInv, [Next]_vars PROVE IInv'
    OBVIOUS
  <1>1. TypeOK'
    BY TypeStep DEF IInv
  <1>2. CASE UNCHANGED vars
    <2>1. DecisionIsCurrent'
      BY <1>2, DecisionUntouched DEF vars, IInv
    <2>2. DownIsIdle' /\ Reserved' /\ StartsAnew' /\ ProgressHasOwner'
      BY <1>2 DEF vars, IInv, DownIsIdle, Reserved, StartsAnew, ProgressHasOwner, Active, Executing,
                  Closing, StageOf, Processing, PipelineBusy
    <2>3. Exclusive' /\ Admitted'
      BY <1>2 DEF vars, IInv, Exclusive, Admitted, Active, Executing, Closing, PipelineBusy, Approved
    <2>4. QED
      BY <1>1, <2>1, <2>2, <2>3 DEF IInv
  <1>3. ASSUME NEW j \in Jobs, StandaloneJob(j) PROVE IInv'
    <2>1. CASE VoiceFound(j) \/ VoiceMissing(j)
      BY <1>1, <2>1, AdmissionKeeps
    <2>2. CASE JobBegins(j) \/ JobCloses(j)
      BY <1>1, <2>2, JobBeginsKeeps, JobClosesKeeps
    <2>3. ASSUME NEW value \in {"completed", "failed"}, JobPublishes(j, value) PROVE IInv'
      BY <1>1, <2>3, JobPublishesKeeps
    <2>4. QED
      BY <1>3, <2>1, <2>2, <2>3 DEF StandaloneJob
  <1>4. ASSUME NEW j \in Jobs, NEW target \in BOOLEAN, ReserveBurn(j, target) \/ AskDub(j, target)
        PROVE  IInv'
    BY <1>1, <1>4, AdmissionKeeps, AskDubKeeps
  <1>5. CASE PipelineRun \/ RunCancelled
    BY <1>1, <1>5, RunKeeps
  <1>6. CASE Translation \/ Transcription
    BY <1>1, <1>6, TranslationKeeps, TranscriptionKeeps DEF Transcription
  <1>7. CASE AskPipeline \/ StartRefused \/ Look
    <2>1. up /\ UNCHANGED <<up, task, text, review, run, translating, asr, job>>
      BY <1>7 DEF AskPipeline, StartRefused, Look, Request
    <2>2. DecisionIsCurrent'
      BY <1>7, DecisionUntouched DEF AskPipeline, StartRefused, Look, IInv, DecisionIsCurrent, Approved
    <2>3. QED
      BY <1>1, <2>1, <2>2, LookingKeeps
  <1>8. ASSUME NEW yes \in BOOLEAN, StartPipeline(yes) \/ DecideCompression(yes) \/ Export(yes)
        PROVE  IInv'
    BY <1>1, <1>8, StartPipelineKeeps, DecideCompressionKeeps, ExportKeeps
  <1>9. CASE AskTranslation \/ Retry \/ Delete
    BY <1>1, <1>9, AskTranslationKeeps, RetryKeeps, DeleteKeeps
  <1>10. CASE PauseForReview \/ Approve
    BY <1>1, <1>10, PauseForReviewKeeps, ApproveKeeps
  <1>11. ASSUME NEW new \in Texts, Edit(new) \/ Retime(new) PROVE IInv'
    BY <1>1, <1>11, EditKeeps, RetimeKeeps
  <1>12. CASE Crash \/ Recover
    BY <1>1, <1>12, CrashKeeps, RecoverKeeps
  <1>13. QED
    BY <1>2, <1>3, <1>4, <1>5, <1>6, <1>7, <1>8, <1>9, <1>10, <1>11, <1>12 DEF Next

\* Every reachable state has its types, in whatever windows requests come.
THEOREM TypeCorrect == Spec => []TypeOK
  <1>1. Init => TypeOK
    BY InvariantInit DEF IInv
  <1>2. QED
    BY <1>1, TypeStep, PTL DEF Spec

\* The parts of the invariant carry each other through every step.
THEOREM Invariant ==
  ASSUME Windows = {}
  PROVE  Spec => []IInv
  <1>1. IInv /\ [Next]_vars => IInv'
    BY InvariantStep
  <1>2. QED
    BY InvariantInit, <1>1, PTL DEF Spec

\* One operation at a time works on a task, however many are asked for.
THEOREM OneOperationHolds ==
  ASSUME Windows = {}
  PROVE  Spec => []OneOperation
  <1>1. IInv => OneOperation
    BY DEF IInv, Exclusive, OneOperation, AtWork, Active
  <1>2. QED
    BY Invariant, <1>1, PTL

\* Nothing takes a job's reservation away before its outcome.
THEOREM ReservationStandsHolds ==
  ASSUME Windows = {}
  PROVE  Spec => []ReservationStands
  <1>1. IInv => ReservationStands
    BY DEF IInv, Reserved, ReservationStands
  <1>2. QED
    BY Invariant, <1>1, PTL

\* A record that says busy, or holds a reservation, has somebody to end it.
THEOREM ProgressHasOwnerHolds ==
  ASSUME Windows = {}
  PROVE  Spec => []ProgressHasOwner
  <1>1. IInv => ProgressHasOwner
    BY DEF IInv
  <1>2. QED
    BY Invariant, <1>1, PTL

\* What a stage consumes is the present text, which the user has agreed to.
THEOREM ConsumedTextIsConfirmedHolds ==
  ASSUME Windows = {}
  PROVE  Spec => []ConsumedTextIsConfirmed
  <1>1. IInv => ConsumedTextIsConfirmed
    BY DEF IInv, Admitted, DecisionIsCurrent, ConsumedTextIsConfirmed, Executing
  <1>2. QED
    BY Invariant, <1>1, PTL

-----------------------------------------------------------------------------
(* Preflight.                                                              *)

\* The step neither deletes the task nor takes a file from it.
Kept == /\ task'.exists = task.exists
        /\ task.source => task'.source
        /\ text # Absent => text' # Absent

LEMMA RecordKept ==
  ASSUME NEW t \in Record
  PROVE  /\ Awaiting(t).exists = t.exists /\ Awaiting(t).source = t.source
         /\ Ended(t) \in Record /\ Ended(t).exists = t.exists /\ Ended(t).source = t.source
         /\ Started(t).exists = t.exists /\ Started(t).source = t.source
         /\ \A stage, value : /\ WithStage(t, stage, value).exists = t.exists
                              /\ WithStage(t, stage, value).source = t.source
  BY DEF Record, Awaiting, Ended, Started, WithStage

LEMMA JobsKeepFiles ==
  ASSUME TypeOK, NEW j \in Jobs, NEW target \in BOOLEAN,
         StandaloneJob(j) \/ ReserveBurn(j, target) \/ AskDub(j, target)
  PROVE  Kept
  <1>1. task \in Record
    BY DEF TypeOK
  <1>2. UNCHANGED text
    BY DEF StandaloneJob, ReserveBurn, AskDub, VoiceFound, VoiceMissing, JobBegins, JobCloses, JobPublishes
  <1>3. ASSUME NEW stage \in {"dub", "burn"}, NEW yes, Reserve(j, stage, yes)
        PROVE  task'.exists = task.exists /\ task'.source = task.source
    BY <1>1, <1>3 DEF Reserve, WithStage, Record
  <1>4. CASE ReserveBurn(j, target)
    BY <1>2, <1>3, <1>4 DEF ReserveBurn, Kept
  <1>5. CASE AskDub(j, target) \/ VoiceMissing(j)
    BY <1>2, <1>5 DEF AskDub, VoiceMissing, Kept
  <1>6. CASE VoiceFound(j)
    BY <1>2, <1>3, <1>6 DEF VoiceFound, Kept
  <1>7. CASE JobBegins(j)
    BY <1>1, <1>2, <1>7, RecordKept DEF JobBegins, Write, Kept
  <1>8. ASSUME NEW value, JobPublishes(j, value) PROVE Kept
    BY <1>1, <1>2, <1>8, RecordKept DEF JobPublishes, Write, Kept
  <1>9. CASE JobCloses(j)
    <2> DEFINE written == WithStage(task, job[j].stage, job[j].at)
    <2>1. written \in Record
      BY <1>1, <1>9, StageWrite DEF JobCloses, Closing, StageStatus
    <2>2. written.exists = task.exists /\ written.source = task.source
      BY <1>1, RecordKept
    <2>3. task' = [written EXCEPT !.status = "rest"] \/ task' = task
      BY <1>9 DEF JobCloses, Closed, Write
    <2> HIDE DEF written
    <2>4. QED
      BY <1>2, <2>1, <2>2, <2>3 DEF Kept, Record
  <1>10. QED
    BY <1>4, <1>5, <1>6, <1>7, <1>8, <1>9 DEF StandaloneJob

LEMMA RunKeepsFiles ==
  ASSUME TypeOK, PipelineRun \/ RunCancelled
  PROVE  Kept
  <1>1. task \in Record
    BY DEF TypeOK
  <1>2. ASSUME NEW new \in Texts, RunRegenerates(new) PROVE Kept
    <2>1. task' = [Awaiting(task) EXCEPT !.source = TRUE] /\ text' # Absent
      BY <1>2, OperationsAssumption DEF RunRegenerates
    <2>2. QED
      BY <1>1, <2>1, RecordKept, AwaitingType DEF Kept, Record
  <1>3. CASE RunPauses
    BY <1>1, <1>3, RecordKept DEF RunPauses, Pause, Kept
  <1>4. CASE RunGone
    BY <1>1, <1>4, RecordKept DEF RunGone, Kept
  <1>5. ASSUME NEW stage \in {"dub", "burn"}, RunEntersStage(stage) PROVE Kept
    BY <1>1, <1>5 DEF RunEntersStage, WithStage, Kept, Record
  <1>6. ASSUME NEW outcome \in {"completed", "failed", "compression"}, RunEnds(outcome) PROVE Kept
    <2>1. UNCHANGED text
      BY <1>6 DEF RunEnds
    <2>2. task'.exists = Ended(task).exists /\ (Ended(task).source => task'.source)
      <3>1. CASE outcome = "completed"
        BY <1>1, <1>6, <3>1, RecordKept DEF RunEnds
      <3>2. CASE outcome = "failed"
        <4>1. PICK transcribed \in BOOLEAN :
                task' = [Ended(task) EXCEPT !.source = @ \/ (transcribed /\ run = "running"),
                                            !.dub = "failed",
                                            !.burn = IF run = "burn" THEN "failed" ELSE @]
          BY <1>6, <3>2 DEF RunEnds
        <4>2. Ended(task) \in Record
          BY <1>1, RecordKept
        <4>3. task'.exists = Ended(task).exists
          BY <4>1, <4>2 DEF Record
        <4>4. task'.source = (Ended(task).source \/ (transcribed /\ run = "running"))
          BY <4>1, <4>2 DEF Record
        <4>5. QED
          BY <4>3, <4>4
      <3>3. CASE outcome = "compression"
        <4>1. task' = [Ended(task) EXCEPT !.pipeline = "compression", !.dub = "failed"]
          BY <1>6, <3>3 DEF RunEnds
        <4>2. Ended(task) \in Record
          BY <1>1, RecordKept
        <4>3. task'.exists = Ended(task).exists /\ task'.source = Ended(task).source
          BY <4>1, <4>2 DEF Record
        <4>4. QED
          BY <4>3
      <3>4. QED
        BY <1>6, <3>1, <3>2, <3>3
    <2>3. QED
      BY <1>1, <2>1, <2>2, RecordKept DEF Kept
  <1>7. CASE RunCancelled
    BY <1>1, <1>7 DEF RunCancelled, Kept, Record
  <1>8. QED
    BY <1>2, <1>3, <1>4, <1>5, <1>6, <1>7 DEF PipelineRun

LEMMA SubtitlesKeepFiles ==
  ASSUME TypeOK, Translation \/ Transcription \/ AskTranslation \/ PauseForReview \/ Look \/ Approve
  PROVE  Kept
  <1>1. task \in Record
    BY DEF TypeOK
  <1>2. ASSUME NEW new \in Texts, Translated(new) PROVE Kept
    BY <1>1, <1>2, RecordKept, OperationsAssumption DEF Translated, Kept
  <1>3. CASE TranslationFails \/ AskTranslation
    BY <1>1, <1>3 DEF TranslationFails, AskTranslation, Kept, Record
  <1>4. ASSUME NEW ok \in BOOLEAN, TranscriptionEnds(ok) PROVE Kept
    BY <1>1, <1>4 DEF TranscriptionEnds, Write, Kept, Record
  <1>5. CASE PauseForReview
    BY <1>1, <1>5, RecordKept DEF PauseForReview, Pause, Kept
  <1>6. CASE Look
    BY <1>6 DEF Look, Kept
  <1>7. CASE Approve
    BY <1>1, <1>7 DEF Approve, ApprovedRecord, Kept, Record
  <1>8. QED
    BY <1>2, <1>3, <1>4, <1>5, <1>6, <1>7 DEF Translation, Transcription

LEMMA RequestsKeepFiles ==
  ASSUME TypeOK, NEW yes \in BOOLEAN,
         StartPipeline(yes) \/ DecideCompression(yes) \/ Export(yes) \/ AskPipeline \/ StartRefused
  PROVE  Kept
  <1>1. task \in Record
    BY DEF TypeOK
  <1>2. CASE StartPipeline(yes)
    <2>1. UNCHANGED text /\ task' \in {Started(task), ApprovedRecord, task}
      BY <1>2 DEF StartPipeline
    <2>2. ApprovedRecord.exists = task.exists /\ ApprovedRecord.source = task.source
      BY <1>1 DEF ApprovedRecord, Record
    <2>3. QED
      BY <1>1, <2>1, <2>2, RecordKept DEF Kept
  <1>3. CASE DecideCompression(yes)
    <2>1. CASE yes
      BY <1>1, <1>3, <2>1, RecordKept DEF DecideCompression, Kept
    <2>2. CASE ~yes
      BY <1>1, <1>3, <2>2 DEF DecideCompression, Kept, Record
    <2>3. QED
      BY <2>1, <2>2
  <1>4. CASE Export(yes)
    BY <1>1, <1>4 DEF Export, Kept, Record
  <1>5. CASE AskPipeline \/ StartRefused
    BY <1>5 DEF AskPipeline, StartRefused, Kept
  <1>6. QED
    BY <1>2, <1>3, <1>4, <1>5

LEMMA EditsKeepFiles ==
  ASSUME TypeOK, NEW new \in Texts, Edit(new) \/ Retime(new)
  PROVE  Kept
  <1>1. task \in Record /\ new # Absent
    BY OperationsAssumption DEF TypeOK
  <1>2. CASE Edit(new)
    <2> DEFINE edited == IF HasOutputs
                         THEN [task EXCEPT !.pipeline = "ended", !.dub = Stale(@), !.burn = Stale(@)]
                         ELSE task
    <2>1. Pause(edited, new) /\ text' = new
      BY <1>2 DEF Edit
    <2>2. edited \in Record /\ edited.exists = task.exists /\ edited.source = task.source
      <3>1. Stale(task.dub) \in StageStatus /\ Stale(task.burn) \in StageStatus
        BY <1>1 DEF Record, Stale, StageStatus
      <3>2. CASE HasOutputs
        BY <1>1, <3>1, <3>2 DEF Record
      <3>3. CASE ~HasOutputs
        BY <1>1, <3>3
      <3>4. QED
        BY <3>2, <3>3
    <2> HIDE DEF edited
    <2>3. task' \in {edited, Awaiting(edited)}
      BY <2>1 DEF Pause
    <2>4. QED
      BY <1>1, <2>1, <2>2, <2>3, RecordKept DEF Kept
  <1>3. CASE Retime(new)
    <2>1. task' = [Awaiting(task) EXCEPT !.dub = "stale", !.burn = "stale"] /\ text' = new
      BY <1>3 DEF Retime
    <2>2. QED
      BY <1>1, <2>1, RecordKept, AwaitingType DEF Kept, Record
  <1>4. QED
    BY <1>2, <1>3

LEMMA RestartKeepsFiles ==
  ASSUME TypeOK, Crash \/ Recover \/ UNCHANGED vars
  PROVE  Kept
  BY DEF TypeOK, Crash, Recover, Write, vars, Kept, Record

LEMMA PreflightStep ==
  ASSUME Windows = {}, IInv, [Next]_vars
  PROVE  Kept \/ (~AtWork /\ ~PipelineBusy /\ ~translating /\ ~asr)
  <1>1. TypeOK
    BY DEF IInv
  <1>2. CASE Retry \/ Delete
    <2>1. Request /\ Idle
      BY <1>2 DEF Retry, Delete
    <2>2. QED
      BY <2>1, IdleIsAlone DEF NobodyWorks, Active, AtWork, PipelineBusy
  <1>3. ASSUME NEW j \in Jobs, StandaloneJob(j) PROVE Kept
    BY <1>1, <1>3, JobsKeepFiles
  <1>4. ASSUME NEW j \in Jobs, NEW target \in BOOLEAN, ReserveBurn(j, target) \/ AskDub(j, target)
        PROVE  Kept
    BY <1>1, <1>4, JobsKeepFiles
  <1>5. CASE PipelineRun \/ RunCancelled
    BY <1>1, <1>5, RunKeepsFiles
  <1>6. CASE Translation \/ Transcription \/ AskTranslation \/ PauseForReview \/ Look \/ Approve
    BY <1>1, <1>6, SubtitlesKeepFiles
  <1>7. ASSUME NEW yes \in BOOLEAN, StartPipeline(yes) \/ DecideCompression(yes) \/ Export(yes)
        PROVE  Kept
    BY <1>1, <1>7, RequestsKeepFiles
  <1>8. CASE AskPipeline \/ StartRefused
    BY <1>1, <1>8, RequestsKeepFiles
  <1>9. ASSUME NEW new \in Texts, Edit(new) \/ Retime(new) PROVE Kept
    BY <1>1, <1>9, EditsKeepFiles
  <1>10. CASE Crash \/ Recover \/ UNCHANGED vars
    BY <1>1, <1>10, RestartKeepsFiles
  <1>11. QED
    BY <1>2, <1>3, <1>4, <1>5, <1>6, <1>7, <1>8, <1>9, <1>10 DEF Next

\* Whoever resets or deletes a task, and whenever, nothing works on it.
THEOREM PreflightSeesWorkHolds ==
  ASSUME Windows = {}
  PROVE  Spec => PreflightSeesWork
  <1>1. IInv /\ [Next]_vars =>
          [(task.exists /\ ~task'.exists) \/ (text # Absent /\ text' = Absent) \/ (task.source /\ ~task'.source)
             => ~AtWork /\ ~PipelineBusy /\ ~translating /\ ~asr]_vars
    BY PreflightStep DEF Kept
  <1>2. QED
    BY Invariant, <1>1, PTL DEF Spec, PreflightSeesWork
=============================================================================
