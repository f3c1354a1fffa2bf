SPECIFICATION FairSpec
CONSTANTS
  Jobs = {j1, j2}
  Texts = {t1, t2}
  Absent = Absent
  Windows = {}
INVARIANTS OneOperation ReservationStands ProgressHasOwner ConsumedTextIsConfirmed
PROPERTIES PreflightSeesWork WorkEnds
CHECK_DEADLOCK FALSE
