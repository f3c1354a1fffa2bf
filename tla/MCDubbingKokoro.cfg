SPECIFICATION Spec
CONSTANTS
  Providers = {"kokoro"}
  Texts = {t1}
  Blank = {}
  Voices = {v1}
  Utterances = 1
  Replaced = {"kokoro"}
  MaxModel = 2
  MaxDubs = 2
INVARIANT KeptUnderItsModel
CHECK_DEADLOCK FALSE
