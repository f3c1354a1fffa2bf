SPECIFICATION Spec
CONSTANTS
  Jobs = {j1, j2}
  Texts = {t1, t2}
  Absent = Absent
  Windows = {"asr"}
PROPERTY PreflightSeesWork
CHECK_DEADLOCK FALSE
