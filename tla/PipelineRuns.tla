---------------------------- MODULE PipelineRuns ----------------------------
(***************************************************************************)
(* Ownership of one task's record by the executions ("runs") of the        *)
(* integrated pipeline: app/services/pipeline_service.py together with     *)
(* app/core/task_run.py and app/core/history.py.                           *)
(*                                                                         *)
(* One asyncio loop thread starts, advances, cancels and reaps runs; the   *)
(* dubbing and rendering stages execute in worker threads that a           *)
(* cancelled coroutine cannot stop, and rendering has a further plain      *)
(* thread that reads the encoder's stderr.  All of them write the record.  *)
(* A section under run.lock (check the lease, write) is one action here;   *)
(* module TaskEvents opens that section up.                                *)
(*                                                                         *)
(* What the stages compute is abstracted: a stage returns one of the       *)
(* results its code can produce.  Which stage follows is constrained by    *)
(* Successors, the control of PipelineService.run.                         *)
(***************************************************************************)
EXTENDS Naturals, FiniteSets

CONSTANTS Runs,   \* the TaskRun objects (run ids); each is started at most once
          NoRun   \* Python's None, where a run is expected

ASSUME RunsAssumption == NoRun \notin Runs

VARIABLES
  up,         \* the process is running (between lifespan start and exit)
  task,       \* the persisted history record of the task
  tasks,      \* PipelineService._tasks[task_id]
  runs,       \* PipelineService._runs[task_id]
  lease,      \* TaskRun.active of each run
  pc,         \* where each run's coroutine is suspended
  cancelReq,  \* task.cancel() was called and is not delivered yet
  callback,   \* the coroutine ended; its done-callback has not run yet
  worker,     \* the worker thread of each run and the asyncio task around it
  reader      \* the stderr reader thread of each run's rendering stage

vars == <<up, task, tasks, runs, lease, pc, cancelReq, callback, worker, reader>>
processVars == <<tasks, runs, lease, pc, cancelReq, callback, worker, reader>>

ThreadStages == {"dub", "burn"}
LoopStages   == {"transcribe", "translate", "compress"}
Stages       == LoopStages \cup ThreadStages
Outcomes     == {"completed", "review", "compression", "edit", "failed"}

StageStatus  == {"none", "processing", "completed", "failed", "cancelled",
                 "awaiting", "stale"}
Statuses     == {"ready", "pipeline", "dubbing", "burning", "staged",
                 "cancelling", "cancelled", "completed", "failed", "awaiting"}
Pipelines    == {"none", "processing", "cancelling", "cancelled", "completed",
                 "failed", "awaiting"}
Record == [exists: BOOLEAN, run: Runs \cup {NoRun}, status: Statuses,
           pipeline: Pipelines, cleanup: BOOLEAN,
           dub: StageStatus, burn: StageStatus]

LivePhases == {"queued", "running", "claimed", "published", "returned"}
Phases     == LivePhases \cup {"none", "done", "reaped"}
Workers == [stage: ThreadStages \cup {"none"}, phase: Phases, stop: BOOLEAN,
            result: {"none", "ok", "error", "compress"}]
NoWorker == [stage |-> "none", phase |-> "none", stop |-> FALSE, result |-> "none"]

TypeOK ==
  /\ up \in BOOLEAN
  /\ task \in Record
  /\ tasks \in Runs \cup {NoRun}
  /\ runs \in Runs \cup {NoRun}
  /\ lease \in [Runs -> BOOLEAN]
  /\ pc \in [Runs -> Stages \cup {"unused", "scheduled", "done"}]
  /\ cancelReq \in [Runs -> BOOLEAN]
  /\ callback \in [Runs -> BOOLEAN]
  /\ worker \in [Runs -> Workers]
  /\ reader \in [Runs -> BOOLEAN]

Init ==
  /\ up = TRUE
  /\ task = [exists |-> TRUE, run |-> NoRun, status |-> "ready", pipeline |-> "none",
             cleanup |-> FALSE, dub |-> "none", burn |-> "none"]
  /\ tasks = NoRun
  /\ runs = NoRun
  /\ lease = [r \in Runs |-> FALSE]
  /\ pc = [r \in Runs |-> "unused"]
  /\ cancelReq = [r \in Runs |-> FALSE]
  /\ callback = [r \in Runs |-> FALSE]
  /\ worker = [r \in Runs |-> NoWorker]
  /\ reader = [r \in Runs |-> FALSE]

-----------------------------------------------------------------------------
(* Writing the record.                                                     *)

\* Faulty variant: the record's run id alone, without TaskRun.active.
AcceptsAnyLease(r) == task.exists /\ task.run = r

\* TaskRun.accepts on the record that is on disk.
Accepts(r) == lease[r] /\ task.exists /\ task.run = r

\* HistoryManager.update_task and emit_event from code that runs in r's
\* context: an obsolete write is dropped, never raised.
Update(r, new) == task' = IF Accepts(r) THEN new ELSE task

WithStage(stage, value) ==
  IF stage = "dub" THEN [task EXCEPT !.dub = value] ELSE [task EXCEPT !.burn = value]

-----------------------------------------------------------------------------
(* PipelineService.start.                                                  *)

LiveCoroutine(r) == pc[r] \notin {"unused", "done"}
LiveWorker(r)    == worker[r].phase \in LivePhases
SomeLiveWorker   == \E r \in Runs : LiveWorker(r)

\* is_busy of PipelineService: a task that is not done, or a worker that is not.
Busy == (tasks # NoRun /\ LiveCoroutine(tasks)) \/ SomeLiveWorker

\* Faulty variant: retired worker threads do not count.
StartAllowedIgnoringWorkers ==
  /\ task.exists
  /\ ~(tasks # NoRun /\ LiveCoroutine(tasks))
  /\ task.burn # "processing" /\ task.dub # "processing"

StartAllowed ==
  /\ task.exists
  /\ ~Busy
  /\ task.burn # "processing" /\ task.dub # "processing"

Start(r) ==
  /\ up /\ pc[r] = "unused"
  /\ StartAllowed
  /\ task' = [task EXCEPT !.run = r, !.status = "pipeline",
                          !.pipeline = "processing", !.cleanup = FALSE]
  /\ lease' = [lease EXCEPT ![r] = TRUE]
  /\ pc' = [pc EXCEPT ![r] = "scheduled"]
  /\ tasks' = r
  /\ runs' = r
  /\ UNCHANGED <<up, cancelReq, callback, worker, reader>>

-----------------------------------------------------------------------------
(* PipelineService.run, one action per stretch of code between two awaits. *)

Finals == {"completed", "failed"}
Successors ==
  [scheduled  |-> Stages \cup {"review", "completed", "failed"},
   transcribe |-> (Stages \ {"transcribe"}) \cup {"review", "completed", "failed"},
   translate  |-> {"compress", "review", "failed"},
   compress   |-> {"review", "failed"},
   dub        |-> {"burn"} \cup Finals,
   burn       |-> Finals]

\* What may follow the await at which r is suspended.
NextSteps(r) ==
  CASE pc[r] \in ThreadStages /\ worker[r].result = "error"    -> {"failed"}
    [] pc[r] \in ThreadStages /\ worker[r].result = "compress" -> {"compression", "edit", "failed"}
    [] OTHER -> Successors[pc[r]]

\* The awaited stage is over, so the coroutine can take its next turn.
Resumable(r) ==
  /\ up /\ ~cancelReq[r]
  /\ \/ pc[r] \in LoopStages \cup {"scheduled"}
     \/ pc[r] \in ThreadStages /\ worker[r].phase = "reaped"

\* _set_stage, then the await of the stage: in the loop, or in a worker
\* thread that _run_thread_stage submits.
EnterStage(r, s) ==
  /\ Resumable(r)
  /\ s \in NextSteps(r) \cap Stages
  /\ Update(r, [task EXCEPT !.status = "pipeline", !.pipeline = "processing"])
  /\ pc' = [pc EXCEPT ![r] = s]
  /\ worker' = [worker EXCEPT ![r] = IF s \in ThreadStages
                                     THEN [NoWorker EXCEPT !.stage = s, !.phase = "queued"]
                                     ELSE NoWorker]
  /\ UNCHANGED <<up, tasks, runs, lease, cancelReq, callback, reader>>

Stale(value) == IF value = "completed" THEN "stale" ELSE value

\* The record each way of ending publishes.
Ended(o) ==
  CASE o = "completed"   -> [task EXCEPT !.status = "completed", !.pipeline = "completed"]
    [] o = "review"      -> [task EXCEPT !.status = "awaiting", !.pipeline = "awaiting",
                                         !.dub = Stale(@), !.burn = Stale(@)]
    [] o = "compression" -> [task EXCEPT !.status = "awaiting", !.pipeline = "awaiting"]
    [] o = "edit"        -> [task EXCEPT !.status = "awaiting", !.pipeline = "awaiting",
                                         !.dub = "awaiting"]
    [] OTHER             -> [task EXCEPT !.status = "failed", !.pipeline = "failed",
                                         !.dub = "failed"]

\* The finally clauses of run and _run_owned: the write lease is closed and
\* the coroutine removes itself from _tasks, if it is still the one there.
LeaveLoop(r) ==
  /\ lease' = [lease EXCEPT ![r] = FALSE]
  /\ pc' = [pc EXCEPT ![r] = "done"]
  /\ callback' = [callback EXCEPT ![r] = TRUE]
  /\ tasks' = IF tasks = r THEN NoRun ELSE tasks

Finish(r, o) ==
  /\ Resumable(r)
  /\ o \in NextSteps(r) \cap Outcomes
  /\ Update(r, Ended(o))
  /\ LeaveLoop(r)
  /\ worker' = [worker EXCEPT ![r] = NoWorker]
  /\ UNCHANGED <<up, runs, cancelReq, reader>>

\* Faulty variant: the callback clears whatever is registered.
UnregisterAlways(r) == tasks' = NoRun /\ runs' = NoRun

\* The done-callback that start registers.
Unregister(r) ==
  /\ tasks' = IF tasks = r THEN NoRun ELSE tasks
  /\ runs' = IF runs = r THEN NoRun ELSE runs

Finished(r) ==
  /\ up /\ callback[r]
  /\ callback' = [callback EXCEPT ![r] = FALSE]
  /\ lease' = [lease EXCEPT ![r] = FALSE]
  /\ Unregister(r)
  /\ UNCHANGED <<up, task, pc, cancelReq, worker, reader>>

-----------------------------------------------------------------------------
(* PipelineService.cancel.                                                 *)

\* Faulty variant: the lease is revoked but nothing is published.
CancelUnstartedSilently(r) ==
  UNCHANGED task /\ lease' = [lease EXCEPT ![runs] = FALSE]

\* A coroutine cancelled before its first turn never reaches its handler, so
\* cancel publishes and revokes for it.
CancelUnstarted(r) ==
  /\ Update(r, [task EXCEPT !.status = "cancelled", !.pipeline = "cancelled"])
  /\ lease' = [lease EXCEPT ![runs] = FALSE]

Cancel(r) ==
  /\ up /\ tasks = r /\ LiveCoroutine(r) /\ ~cancelReq[r]
  /\ IF runs # NoRun /\ pc[r] = "scheduled" THEN CancelUnstarted(r)
                                            ELSE UNCHANGED <<task, lease>>
  /\ cancelReq' = [cancelReq EXCEPT ![r] = TRUE]
     \* dubbing_service.request_cancel finds an event only while dub() runs
  /\ worker' = IF worker[r].stage = "dub" /\ worker[r].phase \in {"claimed", "published"}
                THEN [worker EXCEPT ![r].stop = TRUE] ELSE worker
  /\ UNCHANGED <<up, tasks, runs, pc, callback, reader>>

DropUnstarted(r) ==
  /\ up /\ cancelReq[r] /\ pc[r] = "scheduled"
  /\ pc' = [pc EXCEPT ![r] = "done"]
  /\ callback' = [callback EXCEPT ![r] = TRUE]
  /\ cancelReq' = [cancelReq EXCEPT ![r] = FALSE]
  /\ UNCHANGED <<up, task, tasks, runs, lease, worker, reader>>

\* Faulty variant: the stage's own status is left alone.
KeptReservation(value) == value

\* A stage that the revoked worker can no longer report on.
Released(value) == IF value = "processing" THEN "cancelled" ELSE value

\* Faulty variants: the handler assumes a worker, or forgets it.
AlwaysPending == TRUE
NeverPending  == FALSE

\* run()'s CancelledError handler decides from the workers that are not done.
PendingWorker == SomeLiveWorker

CancelledRecord ==
  LET released == [task EXCEPT !.dub = Released(@), !.burn = Released(@)]
  IN  IF PendingWorker
      THEN [released EXCEPT !.status = "cancelling", !.pipeline = "cancelling", !.cleanup = TRUE]
      ELSE [released EXCEPT !.status = "cancelled", !.pipeline = "cancelled", !.cleanup = FALSE]

DeliverCancel(r) ==
  /\ up /\ cancelReq[r] /\ pc[r] \in Stages
  /\ Update(r, CancelledRecord)
  /\ LeaveLoop(r)
  /\ cancelReq' = [cancelReq EXCEPT ![r] = FALSE]
  /\ worker' = [worker EXCEPT ![r] = IF worker[r].phase = "reaped" THEN NoWorker ELSE @]
  /\ UNCHANGED <<up, runs, reader>>

-----------------------------------------------------------------------------
(* The worker thread: invoke(), then DubbingService.dub or                 *)
(* VideoBurnService.burn.                                                  *)

Advance(r, from, to) ==
  /\ worker[r].phase = from
  /\ worker' = [worker EXCEPT ![r].phase = to]

\* invoke refuses to begin once the lease is closed.
WorkerBegin(r) ==
  /\ worker[r].phase = "queued"
  /\ worker' = [worker EXCEPT ![r].phase  = IF lease[r] THEN "running" ELSE "returned",
                              ![r].result = IF lease[r] THEN @ ELSE "error"]
  /\ UNCHANGED <<up, task, tasks, runs, lease, pc, cancelReq, callback, reader>>

\* Validation fails before the stage reserves anything; burn reports what
\* fails inside its try block, dub raises without a write.
WorkerReject(r) ==
  /\ worker[r].phase = "running"
  /\ worker' = [worker EXCEPT ![r].phase = "returned", ![r].result = "error"]
  /\ \/ UNCHANGED task
     \/ worker[r].stage = "burn" /\ Update(r, WithStage("burn", "failed"))
  /\ UNCHANGED <<up, tasks, runs, lease, pc, cancelReq, callback, reader>>

\* The stage publishes "processing"; burn starts its stderr reader.
WorkerClaim(r) ==
  /\ Advance(r, "running", "claimed")
  /\ Update(r, [WithStage(worker[r].stage, "processing")
                  EXCEPT !.status = IF worker[r].stage = "dub" THEN "dubbing" ELSE "burning"])
  /\ reader' = IF worker[r].stage = "burn" THEN [reader EXCEPT ![r] = TRUE] ELSE reader
  /\ UNCHANGED <<up, tasks, runs, lease, pc, cancelReq, callback>>

WorkerPublish(r, result, value) ==
  /\ worker[r].phase = "claimed"
  /\ \/ result = "ok" /\ value = "completed"
     \/ result = "error" /\ value = "failed"
     \/ result = "error" /\ value = "cancelled" /\ worker[r].stop
     \/ /\ result = "compress" /\ worker[r].stage = "dub"
        /\ value = IF task.pipeline = "processing" THEN "awaiting" ELSE "failed"
  /\ Update(r, WithStage(worker[r].stage, value))
  /\ worker' = [worker EXCEPT ![r].phase = "published", ![r].result = result]
  /\ UNCHANGED <<up, tasks, runs, lease, pc, cancelReq, callback, reader>>

\* The closing event of the stage is persisted as well (record_run_event).
WorkerReturn(r) ==
  /\ Advance(r, "published", "returned")
  /\ Update(r, [task EXCEPT !.status = "staged"])
  /\ UNCHANGED <<up, tasks, runs, lease, pc, cancelReq, callback, reader>>

WorkerThread(r) ==
  \/ WorkerBegin(r) \/ WorkerReject(r) \/ WorkerClaim(r) \/ WorkerReturn(r)
  \/ \E result \in {"ok", "error", "compress"}, value \in StageStatus :
        WorkerPublish(r, result, value)

\* burn's read_stderr runs in a plain threading.Thread: no run is set in its
\* context, so encoding_event updates the record without asking the lease.
ReaderProgress(r) ==
  /\ reader[r] /\ task.exists
  /\ task' = [task EXCEPT !.status = "burning"]
  /\ UNCHANGED <<up, processVars>>

ReaderExit(r) ==
  /\ reader[r]
  /\ reader' = [reader EXCEPT ![r] = FALSE]
  /\ UNCHANGED <<up, task, tasks, runs, lease, pc, cancelReq, callback, worker>>

-----------------------------------------------------------------------------
(* Back in the loop: the asyncio task around the thread.                   *)

WorkerDone(r) ==
  /\ up
  /\ Advance(r, "returned", "done")
  /\ UNCHANGED <<up, task, tasks, runs, lease, pc, cancelReq, callback, reader>>

\* Faulty variant: the cleanup write asks the lease like any other write.
CleanupOfLeasedRun(r) == task.cleanup /\ Accepts(r)

\* _finish_cleanup: compare-and-set of the matching retired run.
CleanupMatches(r) == task.exists /\ task.cleanup /\ task.run = r

WorkerReap(r) ==
  /\ up /\ worker[r].phase = "done"
  /\ worker' = [worker EXCEPT ![r] = IF pc[r] \in ThreadStages
                                     THEN [@ EXCEPT !.phase = "reaped"] ELSE NoWorker]
  /\ task' = IF ~SomeLiveWorker /\ CleanupMatches(r)
             THEN [task EXCEPT !.status = "cancelled", !.pipeline = "cancelled",
                               !.cleanup = FALSE]
             ELSE task
  /\ UNCHANGED <<up, tasks, runs, lease, pc, cancelReq, callback, reader>>

-----------------------------------------------------------------------------
(* Process exit, restart, deletion.                                        *)

\* The process dies, by itself or after lifespan's shutdown: everything
\* process-local goes with it and the record stays as it is on disk.
Crash ==
  /\ up
  /\ up' = FALSE
  /\ tasks' = NoRun /\ runs' = NoRun
  /\ lease' = [r \in Runs |-> FALSE]
  /\ pc' = [r \in Runs |-> IF pc[r] = "unused" THEN "unused" ELSE "done"]
  /\ cancelReq' = [r \in Runs |-> FALSE]
  /\ callback' = [r \in Runs |-> FALSE]
  /\ worker' = [r \in Runs |-> NoWorker]
  /\ reader' = [r \in Runs |-> FALSE]
  /\ UNCHANGED task

\* recover_interrupted_tasks, in its three steps on one record.
RetireCleanup(t) ==
  IF t.cleanup \/ t.pipeline = "cancelling"
  THEN [t EXCEPT !.status = "cancelled", !.pipeline = "cancelled", !.cleanup = FALSE,
                 !.dub = Released(@), !.burn = Released(@)]
  ELSE t
FailInterrupted(t) ==
  IF t.pipeline = "processing" \/ t.status \in {"pipeline", "dubbing", "burning"}
  THEN [t EXCEPT !.status = "failed",
                 !.pipeline = IF t.pipeline = "processing" \/ t.status = "pipeline"
                              THEN "failed" ELSE @]
  ELSE t
FailReservations(t) ==
  [t EXCEPT !.dub  = IF @ = "processing" THEN "failed" ELSE @,
            !.burn = IF @ = "processing" THEN "failed" ELSE @]

Recovered == FailReservations(FailInterrupted(RetireCleanup(task)))

Recover ==
  /\ ~up
  /\ up' = TRUE
  /\ task' = IF task.exists THEN Recovered ELSE task
  /\ UNCHANGED processVars

\* _ensure_tasks_idle, then delete_task.  wait_for_stop(timeout=0) is false
\* while a dub() call is between its registration and its finally clause.
StageFinished ==
  \/ task.status = "dubbing" /\ task.dub \in {"completed", "failed", "cancelled"}
  \/ task.status = "burning" /\ task.burn \in {"completed", "failed", "cancelled"}
Idle ==
  /\ ~Busy
  /\ ~\E r \in Runs : worker[r].stage = "dub" /\ worker[r].phase \in {"claimed", "published"}
  /\ task.status \in {"pipeline", "cancelling", "dubbing", "burning"} => StageFinished
  /\ task.pipeline \notin {"processing", "cancelling"}
  /\ ~task.cleanup
  /\ task.dub # "processing" /\ task.burn # "processing"

Delete ==
  /\ up /\ task.exists
  /\ Idle
  /\ task' = [task EXCEPT !.exists = FALSE]
  /\ UNCHANGED <<up, processVars>>

-----------------------------------------------------------------------------
Coroutine(r) ==
  \/ \E s \in Stages : EnterStage(r, s)
  \/ \E o \in Outcomes : Finish(r, o)
  \/ DropUnstarted(r)
  \/ DeliverCancel(r)

Next ==
  \/ \E r \in Runs :
       \/ Start(r) \/ Cancel(r)
       \/ Coroutine(r) \/ Finished(r)
       \/ WorkerThread(r) \/ WorkerDone(r) \/ WorkerReap(r)
       \/ ReaderProgress(r) \/ ReaderExit(r)
  \/ Crash \/ Recover \/ Delete

Spec == Init /\ [][Next]_vars

\* The event loop runs every ready callback, a stage ends, a worker thread is
\* scheduled, and an application that went down is opened again.
Fairness ==
  /\ \A r \in Runs : /\ WF_vars(Coroutine(r))
                     /\ WF_vars(Finished(r))
                     /\ WF_vars(WorkerThread(r))
                     /\ WF_vars(WorkerDone(r) \/ WorkerReap(r))
  /\ WF_vars(Recover)

FairSpec == Spec /\ Fairness

-----------------------------------------------------------------------------
(* Properties.                                                             *)

Executing(r) == LiveCoroutine(r) \/ LiveWorker(r)

\* At most one run executes code for the task, retired worker threads
\* included, and it is the run that the record names (start's admission
\* checks, _tasks/_workers bookkeeping, deletion's preflight).
OneExecution ==
  /\ \A r, q \in Runs : Executing(r) /\ Executing(q) => r = q
  /\ \A r \in Runs : Executing(r) => task.exists /\ task.run = r

\* A record that says "processing" has a coroutine that will move it on, and
\* cancel can find it: no client watches progress that does not exist.
ProcessingHasOwner ==
  up /\ task.exists /\ task.pipeline = "processing" =>
     /\ tasks = task.run /\ runs = task.run
     /\ tasks # NoRun /\ LiveCoroutine(tasks)

\* "processing" in a stage field blocks every later start, edit and deletion,
\* so it never outlives the run that awaits that stage.
NoOrphanReservation ==
  up /\ task.exists /\ "processing" \in {task.dub, task.burn} =>
     task.run # NoRun /\ pc[task.run] \in ThreadStages

\* A pending cleanup always has a worker whose callback will resolve it.
CleanupHasWorker ==
  up /\ task.exists /\ task.cleanup =>
     task.run # NoRun /\ worker[task.run].phase \in LivePhases \cup {"done"}

\* A worker that outlives its cancelled coroutine is shown as "cancelling"
\* until it is gone, whatever it tried to write meanwhile.
RetiringWorkerIsVisible ==
  \A r \in Runs : LiveWorker(r) /\ pc[r] = "done" =>
                    task.cleanup /\ task.pipeline = "cancelling"

\* The outcome of the record's run is published, and no other run starts.
Settled ==
  /\ up /\ up' /\ task.exists /\ task'.run = task.run
  /\ task.pipeline # "processing"

OutcomeStands ==
  /\ \/ task'.pipeline = task.pipeline
     \/ task.pipeline = "cancelling" /\ task'.pipeline = "cancelled"
  /\ task'.dub = task.dub /\ task'.burn = task.burn

\* A run's published outcome stands until another run starts or the process
\* restarts: no late worker changes the pipeline or a stage status, and only
\* "cancelling" moves on, to "cancelled".
OutcomeIsFinal == [][Settled => OutcomeStands]_vars

\* The inductive invariant behind the safety properties, part by part.

\* A process that is down holds nothing.
DownIsEmpty ==
  ~up => /\ tasks = NoRun /\ runs = NoRun
         /\ \A r \in Runs : /\ ~LiveCoroutine(r) /\ ~lease[r] /\ ~callback[r]
                            /\ ~cancelReq[r] /\ worker[r] = NoWorker

ExecutionIsRecorded ==
  \A r \in Runs : Executing(r) => task.exists /\ task.run = r

CoroutineIsRegistered ==
  \A r \in Runs : LiveCoroutine(r) => tasks = r /\ runs = r

\* The lease is open exactly while the coroutine can still publish, and then
\* the record says "processing".
LeaseFollowsCoroutine ==
  \A r \in Runs :
    /\ lease[r] <=> LiveCoroutine(r) /\ ~(cancelReq[r] /\ pc[r] = "scheduled")
    /\ lease[r] => task.pipeline = "processing"
    /\ cancelReq[r] => LiveCoroutine(r)
    /\ cancelReq[r] /\ pc[r] = "scheduled" => task.pipeline # "processing"
    /\ callback[r] => pc[r] = "done"

WorkerFollowsCoroutine ==
  \A r \in Runs :
    /\ pc[r] \notin ThreadStages \cup {"done"} => worker[r].phase = "none"
    /\ pc[r] \in ThreadStages => worker[r].stage = pc[r] /\ worker[r].phase # "none"
    /\ worker[r].phase = "reaped" => pc[r] \in ThreadStages

CleanupIsRetired ==
  task.cleanup =>
    /\ task.run # NoRun /\ task.pipeline = "cancelling"
    /\ up /\ task.exists => /\ pc[task.run] = "done"
                           /\ worker[task.run].phase \in LivePhases \cup {"done"}

ReservationIsClaimed ==
  up /\ task.exists =>
    /\ task.dub = "processing" =>
         /\ task.run # NoRun /\ pc[task.run] = "dub"
         /\ worker[task.run].phase = "claimed"
    /\ task.burn = "processing" =>
         /\ task.run # NoRun /\ pc[task.run] = "burn"
         /\ worker[task.run].phase = "claimed"

RecordNamesItsRun ==
  task.run # NoRun => pc[task.run] # "unused"

ProcessingIsLive ==
  up /\ task.exists /\ task.pipeline = "processing" =>
    task.run # NoRun /\ LiveCoroutine(task.run)

IInv ==
  /\ TypeOK
  /\ DownIsEmpty
  /\ ExecutionIsRecorded
  /\ CoroutineIsRegistered
  /\ LeaseFollowsCoroutine
  /\ WorkerFollowsCoroutine
  /\ CleanupIsRetired
  /\ ReservationIsClaimed
  /\ RecordNamesItsRun
  /\ ProcessingIsLive
  /\ RetiringWorkerIsVisible

\* Every accepted start ends in an outcome.
RunsEnd == (task.pipeline = "processing") ~> (task.pipeline # "processing")

\* Every "cancelling" the client is shown becomes "cancelled".
CleanupEnds == task.cleanup ~> ~task.cleanup

\* pipeline_service.py:374-375: "Publish cancellation and close the write
\* lease under one lock; no retiring worker can publish a later
\* success/failure/progress."
RetiredRunIsSilent ==
  [][ /\ up /\ up' /\ task.exists /\ task'.run = task.run
      /\ task.pipeline \in {"cancelling", "cancelled"}
      /\ task.status \in {"cancelling", "cancelled"}
      => task'.status \in {"cancelling", "cancelled"} ]_vars
=============================================================================
