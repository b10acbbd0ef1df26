SPECIFICATION Spec
CONSTANTS
  r1 = r1
  r2 = r2
  w1 = w1
  w2 = w2
  a = a
  b = b
  Nobody = Nobody
  NoValue = NoValue
  Threads = {r1, w1, w2}
  Calls <- OneReaderCalls
  Platform = "linux"
  SplitSignalAndWait = FALSE
  m_nMaxSize = 0
  MaxQueued = 3
  Values = {a, b}
INVARIANTS
  NoLostWakeup
