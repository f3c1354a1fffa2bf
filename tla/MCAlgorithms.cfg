SPECIFICATION Inputs
CONSTANTS
  MaxRows = 3
  MaxScript = 3
  MaxWords = 3
  MaxEntries = 2
  MaxEncoders = 3
  SourceText = "t"
  TargetText = "u"
  Bisections = 4
  MaxTargets = 2
INVARIANTS RepairsAreSafe ScriptsKeepTime SpeechIsKept SettingsArePreserved RenderingsKeepStrategy
CHECK_DEADLOCK FALSE
