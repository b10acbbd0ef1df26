SPECIFICATION Spec
CONSTANTS
  r1 = r1
  r2 = r2
  w1 = w1
  w2 = w2
  a = a
  Nobody = Nobody
  NoValue = NoValue
  Threads = {r1, r2, w1}
  Calls <- TwoReaderCalls
  Platform = "linux"
  SplitSignalAndWait = FALSE
  m_nMaxSize = 0
  MaxQueued = 2
  Values = {a}
INVARIANTS
  NoLostWakeup
