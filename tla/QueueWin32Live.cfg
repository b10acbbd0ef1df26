SPECIFICATION FairSpec
CONSTANTS
  r1 = r1
  r2 = r2
  w1 = w1
  w2 = w2
  a = a
  Nobody = Nobody
  NoValue = NoValue
  Threads = {r1, r2, w1}
  Calls <- MixedCalls
  Platform = "win32"
  SplitSignalAndWait = FALSE
  m_nMaxSize = 1
  MaxQueued = 2
  Values = {a}
INVARIANTS
  SleepersJustified
PROPERTIES
  PopServed
  PushServed
  PopExReturns
