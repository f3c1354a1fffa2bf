SPECIFICATION Spec
CONSTANTS
  Jobs = {j1, j2}
  Texts = {t1, t2}
  Absent = Absent
  Windows = {"tail"}
INVARIANT ReservationStands
CHECK_DEADLOCK FALSE
