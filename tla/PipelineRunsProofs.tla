------------------------- MODULE PipelineRunsProofs -------------------------
(***************************************************************************)
(* The safety properties of PipelineRuns, for every set of runs.           *)
(*                                                                         *)
(* The argument rests on two links.  Whatever executes for the task is the *)
(* run that the record names (ExecutionIsRecorded), so there is only one;  *)
(* and a lease is open only while the record says "processing"             *)
(* (LeaseFollowsCoroutine), so after an outcome every owned write is       *)
(* dropped.  The other conjuncts of IInv say where the worker of that run  *)
(* can be, which is what cancellation and cleanup decide from.             *)
(***************************************************************************)
EXTENDS PipelineRuns, TLAPS

LEMMA InitIInv == Init => IInv
  <1> SUFFICES ASSUME Init PROVE IInv
    OBVIOUS
  <1> USE DEF Init, NoWorker
  <1>1. TypeOK
    BY RunsAssumption DEF TypeOK, Record, Statuses, Pipelines, StageStatus, Stages,
       Workers, ThreadStages, LoopStages, Phases, LivePhases
  <1>2. QED
    BY <1>1, RunsAssumption DEF IInv, DownIsEmpty, ExecutionIsRecorded, CoroutineIsRegistered,
       LeaseFollowsCoroutine, WorkerFollowsCoroutine, CleanupIsRetired,
       ReservationIsClaimed, RecordNamesItsRun, ProcessingIsLive,
       RetiringWorkerIsVisible, Executing, LiveCoroutine, LiveWorker, LivePhases, ThreadStages

(***************************************************************************)
(* What the writes of the record return is a record.                       *)
(***************************************************************************)
LEMMA StageWriteType ==
  ASSUME task \in Record, NEW stage, NEW value \in StageStatus
  PROVE  WithStage(stage, value) \in Record
  BY DEF WithStage, Record

LEMMA ReleasedType == \A value \in StageStatus : Released(value) \in StageStatus
  BY DEF Released, StageStatus

LEMMA CancelledRecordType == task \in Record => CancelledRecord \in Record
  <1> SUFFICES ASSUME task \in Record PROVE CancelledRecord \in Record
    OBVIOUS
  <1> DEFINE released == [task EXCEPT !.dub = Released(@), !.burn = Released(@)]
  <1>1. released \in Record
    BY ReleasedType DEF Record
  <1> HIDE DEF released
  <1>2. CancelledRecord = IF PendingWorker
                          THEN [released EXCEPT !.status = "cancelling", !.pipeline = "cancelling", !.cleanup = TRUE]
                          ELSE [released EXCEPT !.status = "cancelled", !.pipeline = "cancelled", !.cleanup = FALSE]
    BY DEF CancelledRecord, released
  <1>3. QED
    BY <1>1, <1>2 DEF Record, Statuses, Pipelines

LEMMA RecoveredType == task \in Record => Recovered \in Record
  <1> SUFFICES ASSUME task \in Record PROVE Recovered \in Record
    OBVIOUS
  <1>1. RetireCleanup(task) \in Record
    BY ReleasedType DEF RetireCleanup, Record, Statuses, Pipelines
  <1>2. ASSUME NEW t \in Record PROVE FailInterrupted(t) \in Record
    BY DEF FailInterrupted, Record, Statuses, Pipelines
  <1>3. ASSUME NEW t \in Record PROVE FailReservations(t) \in Record
    BY DEF FailReservations, Record, StageStatus
  <1>4. QED
    BY <1>1, <1>2, <1>3 DEF Recovered

LEMMA TypeStep == TypeOK /\ [Next]_vars => TypeOK'
  <1> SUFFICES ASSUME TypeOK, [Next]_vars PROVE TypeOK'
    OBVIOUS
  <1> USE DEF TypeOK
  <1>types. /\ task \in Record
            /\ \A r \in Runs : worker[r] \in Workers
            /\ NoWorker \in Workers
    BY DEF NoWorker, Workers, Phases
  <1>1. ASSUME NEW r \in Runs, Start(r) PROVE TypeOK'
    BY <1>1 DEF Start, Record, Statuses, Pipelines
  <1>2. ASSUME NEW r \in Runs, Cancel(r) PROVE TypeOK'
    BY <1>2 DEF Cancel, CancelUnstarted, Update, Record, Statuses, Pipelines, Workers
  <1>3. ASSUME NEW r \in Runs, NEW s \in Stages, EnterStage(r, s) PROVE TypeOK'
    BY <1>3 DEF EnterStage, Update, Record, Statuses, Pipelines, Workers, NoWorker, Phases, LivePhases, ThreadStages
  <1>4. ASSUME NEW r \in Runs, NEW o \in Outcomes, Finish(r, o) PROVE TypeOK'
    BY <1>4, <1>types DEF Finish, Update, Ended, Stale, LeaveLoop, Record, Statuses, Pipelines, StageStatus
  <1>5. ASSUME NEW r \in Runs, DropUnstarted(r) PROVE TypeOK'
    BY <1>5 DEF DropUnstarted
  <1>6. ASSUME NEW r \in Runs, DeliverCancel(r) PROVE TypeOK'
    BY <1>6, <1>types, CancelledRecordType DEF DeliverCancel, LeaveLoop, Update
  <1>7. ASSUME NEW r \in Runs, Finished(r) PROVE TypeOK'
    BY <1>7 DEF Finished, Unregister
  <1>8. ASSUME NEW r \in Runs, WorkerThread(r) PROVE TypeOK'
    <2>1. CASE WorkerBegin(r)
      <3>1. /\ [worker[r] EXCEPT !.phase = "running"] \in Workers
            /\ [worker[r] EXCEPT !.phase = "returned", !.result = "error"] \in Workers
        BY <1>types DEF Workers, Phases, LivePhases
      <3>2. CASE lease[r]
        <4>1. worker' = [worker EXCEPT ![r] = [worker[r] EXCEPT !.phase = "running"]]
          BY <2>1, <3>2, <1>types DEF WorkerBegin, Workers
        <4>2. QED
          BY <2>1, <3>1, <4>1 DEF WorkerBegin
      <3>3. CASE ~lease[r]
        BY <2>1, <3>1, <3>3 DEF WorkerBegin
      <3>4. QED
        BY <3>2, <3>3
    <2>2. CASE WorkerReject(r)
      <3>1. WithStage("burn", "failed") \in Record
        BY StageWriteType DEF StageStatus
      <3>2. [worker[r] EXCEPT !.phase = "returned", !.result = "error"] \in Workers
        BY <1>types DEF Workers, Phases, LivePhases
      <3>3. QED
        BY <2>2, <3>1, <3>2 DEF WorkerReject, Update
    <2>3. CASE WorkerClaim(r)
      <3>1. WithStage(worker[r].stage, "processing") \in Record
        BY StageWriteType DEF StageStatus
      <3>2. \A st \in Statuses : [WithStage(worker[r].stage, "processing") EXCEPT !.status = st] \in Record
        BY <3>1 DEF Record
      <3>3. [worker[r] EXCEPT !.phase = "claimed"] \in Workers
        BY <1>types DEF Workers, Phases, LivePhases
      <3>4. QED
        BY <2>3, <3>2, <3>3 DEF WorkerClaim, Advance, Update, Statuses
    <2>4. CASE WorkerReturn(r)
      BY <2>4 DEF WorkerReturn, Advance, Workers, Phases, LivePhases, Update, Record, Statuses
    <2>5. ASSUME NEW result \in {"ok", "error", "compress"}, NEW value \in StageStatus,
                 WorkerPublish(r, result, value)
          PROVE TypeOK'
      <3>1. WithStage(worker[r].stage, value) \in Record
        BY StageWriteType
      <3>2. [worker[r] EXCEPT !.phase = "published", !.result = result] \in Workers
        BY <1>types DEF Workers, Phases, LivePhases
      <3>3. QED
        BY <2>5, <3>1, <3>2 DEF WorkerPublish, Update
    <2>6. QED
      BY <1>8, <2>1, <2>2, <2>3, <2>4, <2>5 DEF WorkerThread
  <1>9. ASSUME NEW r \in Runs, WorkerDone(r) PROVE TypeOK'
    BY <1>9 DEF WorkerDone, Advance, Workers, Phases
  <1>10. ASSUME NEW r \in Runs, WorkerReap(r) PROVE TypeOK'
    <2>1. [task EXCEPT !.status = "cancelled", !.pipeline = "cancelled", !.cleanup = FALSE] \in Record
      BY <1>types DEF Record, Statuses, Pipelines
    <2>2. [worker[r] EXCEPT !.phase = "reaped"] \in Workers
      BY <1>types DEF Workers, Phases
    <2>3. QED
      BY <1>10, <1>types, <2>1, <2>2 DEF WorkerReap
  <1>11. ASSUME NEW r \in Runs, ReaderProgress(r) \/ ReaderExit(r) PROVE TypeOK'
    BY <1>11 DEF ReaderProgress, ReaderExit, processVars, Record, Statuses
  <1>12. CASE Crash
    BY <1>12, <1>types DEF Crash
  <1>13. CASE Recover
    BY <1>13, RecoveredType DEF Recover, processVars
  <1>14. CASE Delete
    BY <1>14 DEF Delete, processVars, Record
  <1>15. CASE UNCHANGED vars
    BY <1>15 DEF vars
  <1>16. QED
    BY <1>1, <1>2, <1>3, <1>4, <1>5, <1>6, <1>7, <1>8, <1>9, <1>10, <1>11, <1>12, <1>13, <1>14, <1>15
       DEF Next, Coroutine

\* Every variable keeps its type, whatever the number of runs.
THEOREM TypeCorrect == Spec => []TypeOK
  <1>1. Init => TypeOK
    BY InitIInv DEF IInv
  <1>2. QED
    BY <1>1, TypeStep, PTL DEF Spec

(***************************************************************************)
(* Every action keeps the invariant: one lemma per action.  The conjuncts  *)
(* that the action leaves to themselves come first, together.              *)
(***************************************************************************)
LEMMA StartKeeps ==
  ASSUME IInv, TypeOK', NEW r \in Runs, Start(r)
  PROVE  IInv'
  <1> USE DEF IInv, Executing, LiveCoroutine, LiveWorker, LivePhases, ThreadStages,
      Start, StartAllowed, Busy, SomeLiveWorker
  <1>1. /\ DownIsEmpty' /\ WorkerFollowsCoroutine' /\ CleanupIsRetired'
        /\ ReservationIsClaimed' /\ RetiringWorkerIsVisible'
    BY DEF DownIsEmpty, WorkerFollowsCoroutine, CleanupIsRetired, ReservationIsClaimed,
       RetiringWorkerIsVisible
  <1>2. ExecutionIsRecorded'
    BY RunsAssumption DEF ExecutionIsRecorded, CoroutineIsRegistered
  <1>3. CoroutineIsRegistered'
    BY RunsAssumption DEF CoroutineIsRegistered
  <1>4. LeaseFollowsCoroutine'
    BY RunsAssumption DEF LeaseFollowsCoroutine, CoroutineIsRegistered, TypeOK
  <1>5. RecordNamesItsRun'
    BY DEF RecordNamesItsRun, TypeOK
  <1>6. ProcessingIsLive'
    BY RunsAssumption DEF ProcessingIsLive, TypeOK
  <1>7. QED
    BY <1>1, <1>2, <1>3, <1>4, <1>5, <1>6

LEMMA CancelKeeps ==
  ASSUME IInv, TypeOK', NEW r \in Runs, Cancel(r)
  PROVE  IInv'
  <1> USE DEF IInv, Executing, LiveCoroutine, LiveWorker, LivePhases, ThreadStages,
      Cancel
  <1>run. /\ runs = r /\ task.exists /\ task.run = r
          /\ cancelReq' = [cancelReq EXCEPT ![r] = TRUE]
          /\ \A q \in Runs : worker'[q].stage = worker[q].stage /\ worker'[q].phase = worker[q].phase
          /\ UNCHANGED <<up, tasks, runs, pc, callback>>
    BY DEF CoroutineIsRegistered, ExecutionIsRecorded, TypeOK, Workers
  <1>task. /\ task' = IF pc[r] = "scheduled"
                      THEN [task EXCEPT !.status = "cancelled", !.pipeline = "cancelled"] ELSE task
           /\ lease' = IF pc[r] = "scheduled" THEN [lease EXCEPT ![r] = FALSE] ELSE lease
    BY <1>run, RunsAssumption DEF CancelUnstarted, Update, Accepts, LeaseFollowsCoroutine, TypeOK
  <1>down. ~up => worker' = worker
    BY DEF DownIsEmpty, NoWorker, TypeOK, Workers
  <1>1. /\ DownIsEmpty' /\ ExecutionIsRecorded' /\ CoroutineIsRegistered'
        /\ WorkerFollowsCoroutine' /\ CleanupIsRetired' /\ ReservationIsClaimed'
        /\ RecordNamesItsRun' /\ ProcessingIsLive'
    BY <1>run, <1>task, <1>down DEF DownIsEmpty, ExecutionIsRecorded,
       CoroutineIsRegistered, WorkerFollowsCoroutine, CleanupIsRetired,
       ReservationIsClaimed, RecordNamesItsRun, ProcessingIsLive
  <1>2. LeaseFollowsCoroutine'
    BY <1>run, <1>task, <1>down DEF LeaseFollowsCoroutine, CoroutineIsRegistered, TypeOK
  <1>3. RetiringWorkerIsVisible'
    BY <1>run, <1>task, <1>down DEF RetiringWorkerIsVisible, CleanupIsRetired
  <1>4. QED
    BY <1>1, <1>2, <1>3

LEMMA EnterStageKeeps ==
  ASSUME IInv, TypeOK', NEW r \in Runs, NEW s \in Stages, EnterStage(r, s)
  PROVE  IInv'
  <1> USE DEF IInv, Executing, LiveCoroutine, LiveWorker, LivePhases, ThreadStages,
      EnterStage, Resumable, Update, Accepts, NoWorker, NextSteps, Successors, Stages,
      LoopStages
  <1>1. /\ DownIsEmpty' /\ ExecutionIsRecorded' /\ CoroutineIsRegistered'
        /\ LeaseFollowsCoroutine' /\ CleanupIsRetired' /\ ReservationIsClaimed'
        /\ RecordNamesItsRun'
    BY DEF DownIsEmpty, ExecutionIsRecorded, CoroutineIsRegistered,
       LeaseFollowsCoroutine, CleanupIsRetired, ReservationIsClaimed, RecordNamesItsRun
  <1>2. WorkerFollowsCoroutine'
    BY DEF WorkerFollowsCoroutine, TypeOK
  <1>3. ProcessingIsLive'
    BY RunsAssumption DEF ProcessingIsLive
  <1>4. RetiringWorkerIsVisible'
    BY DEF RetiringWorkerIsVisible, CleanupIsRetired
  <1>5. QED
    BY <1>1, <1>2, <1>3, <1>4

LEMMA FinishKeeps ==
  ASSUME IInv, TypeOK', NEW r \in Runs, NEW o \in Outcomes, Finish(r, o)
  PROVE  IInv'
  <1> USE DEF IInv, Executing, LiveCoroutine, LiveWorker, LivePhases, ThreadStages,
      Finish, Resumable, Ended, Stale, LeaveLoop, Update, Accepts, NoWorker, LoopStages
  <1>1. /\ DownIsEmpty' /\ ExecutionIsRecorded' /\ CleanupIsRetired'
        /\ ReservationIsClaimed' /\ RecordNamesItsRun'
    BY DEF DownIsEmpty, ExecutionIsRecorded, CleanupIsRetired, ReservationIsClaimed,
       RecordNamesItsRun
  <1>2. CoroutineIsRegistered'
    BY DEF CoroutineIsRegistered, TypeOK
  <1>3. LeaseFollowsCoroutine'
    BY DEF LeaseFollowsCoroutine, CoroutineIsRegistered, TypeOK
  <1>4. WorkerFollowsCoroutine'
    BY DEF WorkerFollowsCoroutine, TypeOK
  <1>5. ProcessingIsLive'
    BY DEF ProcessingIsLive, LeaseFollowsCoroutine
  <1>6. RetiringWorkerIsVisible'
    BY DEF RetiringWorkerIsVisible, CleanupIsRetired, TypeOK
  <1>7. QED
    BY <1>1, <1>2, <1>3, <1>4, <1>5, <1>6

LEMMA DropUnstartedKeeps ==
  ASSUME IInv, TypeOK', NEW r \in Runs, DropUnstarted(r)
  PROVE  IInv'
  <1> USE DEF IInv, Executing, LiveCoroutine, LiveWorker, LivePhases, ThreadStages,
      DropUnstarted
  <1>1. /\ DownIsEmpty' /\ ExecutionIsRecorded' /\ CoroutineIsRegistered'
        /\ WorkerFollowsCoroutine' /\ CleanupIsRetired' /\ ReservationIsClaimed'
        /\ RecordNamesItsRun'
    BY DEF DownIsEmpty, ExecutionIsRecorded, CoroutineIsRegistered,
       WorkerFollowsCoroutine, CleanupIsRetired, ReservationIsClaimed, RecordNamesItsRun
  <1>2. LeaseFollowsCoroutine'
    BY DEF LeaseFollowsCoroutine, TypeOK
  <1>3. ProcessingIsLive'
    BY DEF ProcessingIsLive, LeaseFollowsCoroutine
  <1>4. RetiringWorkerIsVisible'
    BY DEF RetiringWorkerIsVisible, WorkerFollowsCoroutine
  <1>5. QED
    BY <1>1, <1>2, <1>3, <1>4

LEMMA DeliverCancelKeeps ==
  ASSUME IInv, TypeOK', NEW r \in Runs, DeliverCancel(r)
  PROVE  IInv'
  <1> USE DEF IInv, Executing, LiveCoroutine, LiveWorker, LivePhases, ThreadStages,
      DeliverCancel, CancelledRecord, PendingWorker, SomeLiveWorker, Released, Update,
      Accepts, LeaveLoop, NoWorker, Stages, LoopStages
  <1>1. /\ DownIsEmpty' /\ ExecutionIsRecorded' /\ RecordNamesItsRun'
    BY DEF DownIsEmpty, ExecutionIsRecorded, RecordNamesItsRun
  <1>2. CoroutineIsRegistered'
    BY DEF CoroutineIsRegistered, TypeOK
  <1>3. LeaseFollowsCoroutine'
    BY DEF LeaseFollowsCoroutine, CoroutineIsRegistered, TypeOK
  <1>4. WorkerFollowsCoroutine'
    BY DEF WorkerFollowsCoroutine, TypeOK
  <1>5. CleanupIsRetired'
    BY RunsAssumption DEF CleanupIsRetired, CoroutineIsRegistered,
       WorkerFollowsCoroutine, RetiringWorkerIsVisible, TypeOK
  <1>6. ReservationIsClaimed'
    BY DEF ReservationIsClaimed, LeaseFollowsCoroutine
  <1>7. ProcessingIsLive'
    BY DEF ProcessingIsLive, LeaseFollowsCoroutine
  <1>8. RetiringWorkerIsVisible'
    BY DEF RetiringWorkerIsVisible, ExecutionIsRecorded, LeaseFollowsCoroutine
  <1>9. QED
    BY <1>1, <1>2, <1>3, <1>4, <1>5, <1>6, <1>7, <1>8

LEMMA FinishedKeeps ==
  ASSUME IInv, TypeOK', NEW r \in Runs, Finished(r)
  PROVE  IInv'
  <1> USE DEF IInv, Executing, LiveCoroutine, LiveWorker, LivePhases, ThreadStages,
      Finished, Unregister
  <1>1. /\ DownIsEmpty' /\ ExecutionIsRecorded' /\ LeaseFollowsCoroutine'
        /\ WorkerFollowsCoroutine' /\ CleanupIsRetired' /\ ReservationIsClaimed'
        /\ RecordNamesItsRun' /\ ProcessingIsLive' /\ RetiringWorkerIsVisible'
    BY DEF DownIsEmpty, ExecutionIsRecorded, LeaseFollowsCoroutine,
       WorkerFollowsCoroutine, CleanupIsRetired, ReservationIsClaimed,
       RecordNamesItsRun, ProcessingIsLive, RetiringWorkerIsVisible
  <1>2. CoroutineIsRegistered'
    BY DEF CoroutineIsRegistered, LeaseFollowsCoroutine
  <1>3. QED
    BY <1>1, <1>2

LEMMA WorkerBeginKeeps ==
  ASSUME IInv, TypeOK', NEW r \in Runs, WorkerBegin(r)
  PROVE  IInv'
  <1> USE DEF IInv, Executing, LiveCoroutine, LiveWorker, LivePhases, ThreadStages,
      WorkerBegin, NoWorker
  <1>1. /\ DownIsEmpty' /\ CoroutineIsRegistered' /\ LeaseFollowsCoroutine'
        /\ RecordNamesItsRun' /\ ProcessingIsLive'
    BY DEF DownIsEmpty, CoroutineIsRegistered, LeaseFollowsCoroutine, RecordNamesItsRun,
       ProcessingIsLive
  <1>2. ExecutionIsRecorded'
    BY DEF ExecutionIsRecorded, TypeOK
  <1>3. WorkerFollowsCoroutine'
    BY DEF WorkerFollowsCoroutine, TypeOK
  <1>4. CleanupIsRetired'
    BY DEF CleanupIsRetired, TypeOK, Record
  <1>5. ReservationIsClaimed'
    BY DEF ReservationIsClaimed, TypeOK, Record
  <1>6. RetiringWorkerIsVisible'
    BY DEF RetiringWorkerIsVisible, TypeOK
  <1>7. QED
    BY <1>1, <1>2, <1>3, <1>4, <1>5, <1>6

LEMMA WorkerRejectKeeps ==
  ASSUME IInv, TypeOK', NEW r \in Runs, WorkerReject(r)
  PROVE  IInv'
  <1> USE DEF IInv, Executing, LiveCoroutine, LiveWorker, LivePhases, ThreadStages,
      WorkerReject, Update, Accepts, WithStage, NoWorker
  <1>record. /\ task'.cleanup = task.cleanup /\ task'.run = task.run
             /\ task'.exists = task.exists /\ task'.pipeline = task.pipeline
    BY DEF TypeOK, Record
  <1>phase. \A q \in Runs : worker'[q].phase = IF q = r THEN "returned" ELSE worker[q].phase
    BY DEF TypeOK, Workers
  <1>1. /\ DownIsEmpty' /\ CoroutineIsRegistered' /\ RecordNamesItsRun'
    BY <1>record, <1>phase DEF DownIsEmpty, CoroutineIsRegistered, RecordNamesItsRun
  <1>2. ExecutionIsRecorded'
    BY <1>record, <1>phase DEF ExecutionIsRecorded
  <1>3. LeaseFollowsCoroutine'
    BY <1>record, <1>phase DEF LeaseFollowsCoroutine
  <1>4. WorkerFollowsCoroutine'
    BY <1>record, <1>phase DEF WorkerFollowsCoroutine, TypeOK
  <1>5. CleanupIsRetired'
    BY <1>record, <1>phase DEF CleanupIsRetired, TypeOK, Record
  <1>6. ReservationIsClaimed'
    BY <1>record, <1>phase DEF ReservationIsClaimed, TypeOK, Record
  <1>7. ProcessingIsLive'
    BY <1>record, <1>phase DEF ProcessingIsLive
  <1>8. RetiringWorkerIsVisible'
    BY <1>record, <1>phase DEF RetiringWorkerIsVisible
  <1>9. QED
    BY <1>1, <1>2, <1>3, <1>4, <1>5, <1>6, <1>7, <1>8

LEMMA WorkerClaimKeeps ==
  ASSUME IInv, TypeOK', NEW r \in Runs, WorkerClaim(r)
  PROVE  IInv'
  <1> USE DEF IInv, Executing, LiveCoroutine, LiveWorker, LivePhases, ThreadStages,
      WorkerClaim, Advance, Update, Accepts, WithStage, NoWorker
  <1>1. /\ DownIsEmpty' /\ ExecutionIsRecorded' /\ CoroutineIsRegistered'
        /\ LeaseFollowsCoroutine' /\ WorkerFollowsCoroutine' /\ CleanupIsRetired'
        /\ RecordNamesItsRun' /\ ProcessingIsLive' /\ RetiringWorkerIsVisible'
    BY DEF DownIsEmpty, ExecutionIsRecorded, CoroutineIsRegistered,
       LeaseFollowsCoroutine, WorkerFollowsCoroutine, CleanupIsRetired,
       RecordNamesItsRun, ProcessingIsLive, RetiringWorkerIsVisible
  <1>2. ReservationIsClaimed'
    BY RunsAssumption DEF ReservationIsClaimed, LeaseFollowsCoroutine,
       WorkerFollowsCoroutine, TypeOK
  <1>3. QED
    BY <1>1, <1>2

LEMMA WorkerPublishKeeps ==
  ASSUME IInv, TypeOK', NEW r \in Runs, NEW result \in {"ok", "error", "compress"},
         NEW value \in StageStatus, WorkerPublish(r, result, value)
  PROVE  IInv'
  <1> USE DEF IInv, Executing, LiveCoroutine, LiveWorker, LivePhases, ThreadStages,
      WorkerPublish, Update, Accepts, WithStage, NoWorker
  <1>1. /\ DownIsEmpty' /\ CoroutineIsRegistered' /\ LeaseFollowsCoroutine'
        /\ RecordNamesItsRun' /\ ProcessingIsLive'
    BY DEF DownIsEmpty, CoroutineIsRegistered, LeaseFollowsCoroutine, RecordNamesItsRun,
       ProcessingIsLive
  <1>2. ExecutionIsRecorded'
    BY DEF ExecutionIsRecorded, TypeOK
  <1>3. WorkerFollowsCoroutine'
    BY DEF WorkerFollowsCoroutine, TypeOK
  <1>4. CleanupIsRetired'
    BY DEF CleanupIsRetired, TypeOK, Record
  <1>5. ReservationIsClaimed'
    BY DEF ReservationIsClaimed, LeaseFollowsCoroutine, WorkerFollowsCoroutine, TypeOK,
       Record
  <1>6. RetiringWorkerIsVisible'
    BY DEF RetiringWorkerIsVisible, TypeOK
  <1>7. QED
    BY <1>1, <1>2, <1>3, <1>4, <1>5, <1>6

LEMMA WorkerReturnKeeps ==
  ASSUME IInv, TypeOK', NEW r \in Runs, WorkerReturn(r)
  PROVE  IInv'
  <1> USE DEF IInv, Executing, LiveCoroutine, LiveWorker, LivePhases, ThreadStages,
      WorkerReturn, Advance, Update, Accepts, NoWorker
  <1>1. /\ DownIsEmpty' /\ ExecutionIsRecorded' /\ CoroutineIsRegistered'
        /\ LeaseFollowsCoroutine' /\ WorkerFollowsCoroutine' /\ CleanupIsRetired'
        /\ ReservationIsClaimed' /\ RecordNamesItsRun' /\ ProcessingIsLive'
        /\ RetiringWorkerIsVisible'
    BY DEF DownIsEmpty, ExecutionIsRecorded, CoroutineIsRegistered,
       LeaseFollowsCoroutine, WorkerFollowsCoroutine, CleanupIsRetired,
       ReservationIsClaimed, RecordNamesItsRun, ProcessingIsLive,
       RetiringWorkerIsVisible
  <1>2. QED
    BY <1>1

LEMMA ReaderProgressKeeps ==
  ASSUME IInv, TypeOK', NEW r \in Runs, ReaderProgress(r)
  PROVE  IInv'
  <1> USE DEF IInv, Executing, LiveCoroutine, LiveWorker, LivePhases, ThreadStages,
      ReaderProgress, processVars
  <1>1. /\ DownIsEmpty' /\ ExecutionIsRecorded' /\ CoroutineIsRegistered'
        /\ LeaseFollowsCoroutine' /\ WorkerFollowsCoroutine' /\ CleanupIsRetired'
        /\ ReservationIsClaimed' /\ RecordNamesItsRun' /\ ProcessingIsLive'
        /\ RetiringWorkerIsVisible'
    BY DEF DownIsEmpty, ExecutionIsRecorded, CoroutineIsRegistered,
       LeaseFollowsCoroutine, WorkerFollowsCoroutine, CleanupIsRetired,
       ReservationIsClaimed, RecordNamesItsRun, ProcessingIsLive,
       RetiringWorkerIsVisible
  <1>2. QED
    BY <1>1

LEMMA ReaderExitKeeps ==
  ASSUME IInv, TypeOK', NEW r \in Runs, ReaderExit(r)
  PROVE  IInv'
  <1> USE DEF IInv, Executing, LiveCoroutine, LiveWorker, LivePhases, ThreadStages,
      ReaderExit
  <1>1. /\ DownIsEmpty' /\ ExecutionIsRecorded' /\ CoroutineIsRegistered'
        /\ LeaseFollowsCoroutine' /\ WorkerFollowsCoroutine' /\ CleanupIsRetired'
        /\ ReservationIsClaimed' /\ RecordNamesItsRun' /\ ProcessingIsLive'
        /\ RetiringWorkerIsVisible'
    BY DEF DownIsEmpty, ExecutionIsRecorded, CoroutineIsRegistered,
       LeaseFollowsCoroutine, WorkerFollowsCoroutine, CleanupIsRetired,
       ReservationIsClaimed, RecordNamesItsRun, ProcessingIsLive,
       RetiringWorkerIsVisible
  <1>2. QED
    BY <1>1

LEMMA WorkerDoneKeeps ==
  ASSUME IInv, TypeOK', NEW r \in Runs, WorkerDone(r)
  PROVE  IInv'
  <1> USE DEF IInv, Executing, LiveCoroutine, LiveWorker, LivePhases, ThreadStages,
      WorkerDone, Advance
  <1>1. /\ DownIsEmpty' /\ ExecutionIsRecorded' /\ CoroutineIsRegistered'
        /\ LeaseFollowsCoroutine' /\ WorkerFollowsCoroutine' /\ CleanupIsRetired'
        /\ ReservationIsClaimed' /\ RecordNamesItsRun' /\ ProcessingIsLive'
        /\ RetiringWorkerIsVisible'
    BY DEF DownIsEmpty, ExecutionIsRecorded, CoroutineIsRegistered,
       LeaseFollowsCoroutine, WorkerFollowsCoroutine, CleanupIsRetired,
       ReservationIsClaimed, RecordNamesItsRun, ProcessingIsLive,
       RetiringWorkerIsVisible
  <1>2. QED
    BY <1>1

LEMMA WorkerReapKeeps ==
  ASSUME IInv, TypeOK', NEW r \in Runs, WorkerReap(r)
  PROVE  IInv'
  <1> USE DEF IInv, Executing, LiveCoroutine, LiveWorker, LivePhases, ThreadStages,
      WorkerReap, SomeLiveWorker, CleanupMatches, NoWorker
  <1>1. /\ DownIsEmpty' /\ ExecutionIsRecorded' /\ CoroutineIsRegistered'
        /\ WorkerFollowsCoroutine' /\ ReservationIsClaimed' /\ RecordNamesItsRun'
        /\ ProcessingIsLive' /\ RetiringWorkerIsVisible'
    BY DEF DownIsEmpty, ExecutionIsRecorded, CoroutineIsRegistered,
       WorkerFollowsCoroutine, ReservationIsClaimed, RecordNamesItsRun,
       ProcessingIsLive, RetiringWorkerIsVisible
  <1>2. LeaseFollowsCoroutine'
    BY DEF LeaseFollowsCoroutine, CleanupIsRetired
  <1>3. CleanupIsRetired'
    BY DEF CleanupIsRetired, ExecutionIsRecorded
  <1>4. QED
    BY <1>1, <1>2, <1>3

LEMMA CrashKeeps ==
  ASSUME IInv, TypeOK', Crash
  PROVE  IInv'
  <1> USE DEF IInv, Executing, LiveCoroutine, LiveWorker, LivePhases, ThreadStages,
      Crash, NoWorker
  <1>1. /\ DownIsEmpty' /\ ExecutionIsRecorded' /\ CoroutineIsRegistered'
        /\ LeaseFollowsCoroutine' /\ WorkerFollowsCoroutine' /\ CleanupIsRetired'
        /\ ReservationIsClaimed' /\ ProcessingIsLive' /\ RetiringWorkerIsVisible'
    BY DEF DownIsEmpty, ExecutionIsRecorded, CoroutineIsRegistered,
       LeaseFollowsCoroutine, WorkerFollowsCoroutine, CleanupIsRetired,
       ReservationIsClaimed, ProcessingIsLive, RetiringWorkerIsVisible
  <1>2. RecordNamesItsRun'
    BY DEF RecordNamesItsRun, TypeOK, Record
  <1>3. QED
    BY <1>1, <1>2

LEMMA RecoverKeeps ==
  ASSUME IInv, TypeOK', Recover
  PROVE  IInv'
  <1> USE DEF IInv, Executing, LiveCoroutine, LiveWorker, LivePhases, ThreadStages,
      Recover, Recovered, RetireCleanup, FailInterrupted, FailReservations, Released,
      NoWorker, processVars
  <1>1. /\ DownIsEmpty' /\ ExecutionIsRecorded' /\ CoroutineIsRegistered'
        /\ WorkerFollowsCoroutine' /\ CleanupIsRetired' /\ ReservationIsClaimed'
        /\ RecordNamesItsRun' /\ ProcessingIsLive'
    BY DEF DownIsEmpty, ExecutionIsRecorded, CoroutineIsRegistered,
       WorkerFollowsCoroutine, CleanupIsRetired, ReservationIsClaimed,
       RecordNamesItsRun, ProcessingIsLive
  <1>2. LeaseFollowsCoroutine'
    BY DEF LeaseFollowsCoroutine, DownIsEmpty
  <1>3. RetiringWorkerIsVisible'
    BY DEF RetiringWorkerIsVisible, DownIsEmpty
  <1>4. QED
    BY <1>1, <1>2, <1>3

LEMMA DeleteKeeps ==
  ASSUME IInv, TypeOK', Delete
  PROVE  IInv'
  <1> USE DEF IInv, Executing, LiveCoroutine, LiveWorker, LivePhases, ThreadStages,
      Delete, Idle, Busy, SomeLiveWorker, StageFinished, processVars
  <1>1. /\ DownIsEmpty' /\ CoroutineIsRegistered' /\ LeaseFollowsCoroutine'
        /\ WorkerFollowsCoroutine' /\ CleanupIsRetired' /\ ReservationIsClaimed'
        /\ RecordNamesItsRun' /\ ProcessingIsLive' /\ RetiringWorkerIsVisible'
    BY DEF DownIsEmpty, CoroutineIsRegistered, LeaseFollowsCoroutine,
       WorkerFollowsCoroutine, CleanupIsRetired, ReservationIsClaimed,
       RecordNamesItsRun, ProcessingIsLive, RetiringWorkerIsVisible
  <1>2. ExecutionIsRecorded'
    BY RunsAssumption DEF ExecutionIsRecorded, CoroutineIsRegistered
  <1>3. QED
    BY <1>1, <1>2

LEMMA InvariantStep == IInv /\ [Next]_vars => IInv'
  <1> SUFFICES ASSUME IInv, [Next]_vars PROVE IInv'
    OBVIOUS
  <1>1. TypeOK'
    BY TypeStep DEF IInv
  <1>2. ASSUME NEW r \in Runs, Coroutine(r) PROVE IInv'
    BY <1>1, <1>2, EnterStageKeeps, FinishKeeps, DropUnstartedKeeps, DeliverCancelKeeps
       DEF Coroutine
  <1>3. ASSUME NEW r \in Runs, WorkerThread(r) PROVE IInv'
    BY <1>1, <1>3, WorkerBeginKeeps, WorkerRejectKeeps, WorkerClaimKeeps,
       WorkerPublishKeeps, WorkerReturnKeeps DEF WorkerThread
  <1>4. CASE UNCHANGED vars
    BY <1>1, <1>4 DEF vars, IInv, DownIsEmpty, ExecutionIsRecorded, CoroutineIsRegistered,
       LeaseFollowsCoroutine, WorkerFollowsCoroutine, CleanupIsRetired,
       ReservationIsClaimed, RecordNamesItsRun, ProcessingIsLive,
       RetiringWorkerIsVisible, Executing, LiveCoroutine, LiveWorker
  <1>5. QED
    BY <1>1, <1>2, <1>3, <1>4, StartKeeps, CancelKeeps, FinishedKeeps, WorkerDoneKeeps,
       WorkerReapKeeps, ReaderProgressKeeps, ReaderExitKeeps, CrashKeeps, RecoverKeeps,
       DeleteKeeps DEF Next

\* The inductive invariant holds of every behaviour, for every set of runs.
THEOREM Invariant == Spec => []IInv
  BY InitIInv, InvariantStep, PTL DEF Spec

-----------------------------------------------------------------------------
(* What it implies.                                                        *)

LEMMA OneExecutionFollows == IInv => OneExecution
  BY RunsAssumption DEF IInv, ExecutionIsRecorded, OneExecution

LEMMA ProcessingHasOwnerFollows == IInv => ProcessingHasOwner
  <1> SUFFICES ASSUME IInv, up, task.exists, task.pipeline = "processing"
               PROVE  /\ tasks = task.run /\ runs = task.run
                      /\ tasks # NoRun /\ LiveCoroutine(tasks)
    BY DEF ProcessingHasOwner
  <1>1. task.run \in Runs /\ LiveCoroutine(task.run)
    BY DEF IInv, ProcessingIsLive, TypeOK, Record
  <1>2. tasks = task.run /\ runs = task.run
    BY <1>1 DEF IInv, CoroutineIsRegistered
  <1>3. QED
    BY <1>1, <1>2, RunsAssumption

LEMMA NoOrphanReservationFollows == IInv => NoOrphanReservation
  BY DEF IInv, ReservationIsClaimed, NoOrphanReservation, ThreadStages

LEMMA CleanupHasWorkerFollows == IInv => CleanupHasWorker
  BY DEF IInv, CleanupIsRetired, CleanupHasWorker

\* At most one run executes code for the task, and the record names it.
THEOREM OneExecutionHolds == Spec => []OneExecution
  BY Invariant, OneExecutionFollows, PTL

\* A record that says "processing" has a live coroutine that cancel can find.
THEOREM ProcessingHasOwnerHolds == Spec => []ProcessingHasOwner
  BY Invariant, ProcessingHasOwnerFollows, PTL

\* A stage reservation never outlives the run that awaits the stage.
THEOREM NoOrphanReservationHolds == Spec => []NoOrphanReservation
  BY Invariant, NoOrphanReservationFollows, PTL

\* A pending cleanup has the worker that will resolve it.
THEOREM CleanupHasWorkerHolds == Spec => []CleanupHasWorker
  BY Invariant, CleanupHasWorkerFollows, PTL

\* A worker that outlives its coroutine is shown as "cancelling".
THEOREM RetiringWorkerIsVisibleHolds == Spec => []RetiringWorkerIsVisible
  <1>1. IInv => RetiringWorkerIsVisible
    BY DEF IInv
  <1>2. QED
    BY <1>1, Invariant, PTL

-----------------------------------------------------------------------------
(* OutcomeIsFinal: once the pipeline is not "processing", no lease is open. *)

LEMMA OutcomeStep == IInv /\ [Next]_vars /\ Settled => OutcomeStands
  <1> SUFFICES ASSUME IInv, Next, Settled PROVE OutcomeStands
    BY DEF vars, OutcomeStands
  <1>types. task \in Record
    BY DEF IInv, TypeOK
  <1>closed. \A r \in Runs : ~Accepts(r)
    BY DEF IInv, LeaseFollowsCoroutine, Accepts, Settled
  <1>1. ASSUME NEW r \in Runs, Start(r) PROVE OutcomeStands
    <2>1. task'.run = r
      BY <1>1, <1>types DEF Start, Record
    <2>2. pc[task.run] # "unused"
      BY <2>1, RunsAssumption DEF Settled, IInv, RecordNamesItsRun
    <2>3. QED
      BY <1>1, <2>1, <2>2 DEF Start, Settled
  <1>2. ASSUME NEW r \in Runs,
               Cancel(r) \/ Coroutine(r) \/ Finished(r) \/ WorkerThread(r) \/ WorkerDone(r)
        PROVE  OutcomeStands
    <2>1. task' = task
      BY <1>2, <1>closed DEF Cancel, CancelUnstarted, Coroutine, EnterStage, Finish,
         DropUnstarted, DeliverCancel, Finished, WorkerThread, WorkerBegin, WorkerReject,
         WorkerClaim, WorkerPublish, WorkerReturn, WorkerDone, Update
    <2>2. QED
      BY <2>1 DEF OutcomeStands
  <1>3. ASSUME NEW r \in Runs, WorkerReap(r) PROVE OutcomeStands
    BY <1>3, <1>types DEF WorkerReap, CleanupMatches, IInv, CleanupIsRetired, Record, OutcomeStands
  <1>4. ASSUME NEW r \in Runs, ReaderProgress(r) \/ ReaderExit(r) PROVE OutcomeStands
    BY <1>4, <1>types DEF ReaderProgress, ReaderExit, Record, OutcomeStands
  <1>5. CASE Crash \/ Recover \/ Delete
    BY <1>5, <1>types DEF Crash, Recover, Delete, Settled, Record, OutcomeStands
  <1>6. QED
    BY <1>1, <1>2, <1>3, <1>4, <1>5 DEF Next

\* A published outcome stands until the next start or restart.
THEOREM OutcomeIsFinalHolds == Spec => OutcomeIsFinal
  <1>1. IInv /\ [Next]_vars => [Settled => OutcomeStands]_vars
    BY OutcomeStep
  <1>2. QED
    BY <1>1, Invariant, PTL DEF Spec, OutcomeIsFinal
=============================================================================
