SPECIFICATION Spec
CONSTANTS
  Providers = {"cosyvoice", "qwen", "kokoro"}
  Texts = {t1, t2, nothing}
  Blank = {nothing}
  Voices = {v1, v2}
  Utterances = 2
  Replaced = {"qwen"}
  MaxModel = 2
  MaxDubs = 2
INVARIANTS ChildIsOwned SpeechIsOfText NothingTwice
PROPERTY DubEnds
CHECK_DEADLOCK FALSE
