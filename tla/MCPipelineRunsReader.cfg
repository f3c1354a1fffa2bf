\* What the comment at pipeline_service.py:374-375 promises of the record.
SPECIFICATION Spec
CONSTANTS
  Runs = {r1}
  NoRun = NoRun
PROPERTIES
  RetiredRunIsSilent
CHECK_DEADLOCK FALSE
