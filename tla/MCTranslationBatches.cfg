SPECIFICATION Spec
CONSTANTS
  Rows = 4
  BatchSize = 2
  MaxRetries = 1
  Providers = {"lm_studio", "ollama"}
  Speech <- SomeSpeech
INVARIANT RowsKeepTheirPlace
PROPERTY TranslationEnds
CHECK_DEADLOCK FALSE
