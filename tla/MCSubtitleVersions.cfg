SPECIFICATION Spec
CONSTANTS
  Heard <- MCHeard
  Texts = {"a", "b"}
  Spans <- MCSpans
  Edits = {1}
  None = None
  MaxFiles = 8
  MaxRounds = 2
INVARIANT OriginalIsKept
PROPERTIES ImplementsUndoPoint TracksStayTogether
CHECK_DEADLOCK FALSE
