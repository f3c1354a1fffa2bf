\* Two consecutive runs of one task: start refuses a third while one of them
\* is still executing.  No symmetry, so that liveness is sound.
SPECIFICATION FairSpec
CONSTANTS
  Runs = {r1, r2}
  NoRun = NoRun
INVARIANTS
  OneExecution
  ProcessingHasOwner
  NoOrphanReservation
  CleanupHasWorker
  RetiringWorkerIsVisible
PROPERTIES
  OutcomeIsFinal
  RunsEnd
  CleanupEnds
\* Every run may have been used, or the task deleted.
CHECK_DEADLOCK FALSE
