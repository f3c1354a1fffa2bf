SPECIFICATION FairSpec
CONSTANTS
  Runs = {r1, r2}
  NoRun = NoRun
  MaxRevision = 4
  QueueSize = 2
  MaxCalls = 1
  WireSize = 1
INVARIANTS EventsAreSnapshots PublicationIsFenced
PROPERTIES OldRunDoesNotCloseStream ScreenNeverGoesBack ScreenCatchesUp
CHECK_DEADLOCK FALSE
