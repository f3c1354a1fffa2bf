SPECIFICATION Spec
CONSTANTS
  a = a  l = l  m = m  t = t  u = u
  Stages = {a, l, m, t}
  Kind <- MCKind
  Nobody = Nobody  Server = Server  NoLoop = NoLoop
  Faults = {"callback"}
INVARIANT CleanupGuaranteed
CHECK_DEADLOCK FALSE
