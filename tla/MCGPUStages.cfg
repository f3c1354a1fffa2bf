SPECIFICATION FairSpec
CONSTANTS
  a = a  l = l  m = m  t = t  u = u
  Stages = {a, l, m, t, u}
  Kind <- MCKind
  Nobody = Nobody  Server = Server  NoLoop = NoLoop
  Faults = {}
INVARIANTS OneEngine ServerIsWoken CleanupGuaranteed
PROPERTY ImplementsFairLock
CHECK_DEADLOCK FALSE
