SPECIFICATION Spec
CONSTANTS
  r1 = r1
  r2 = r2
  w1 = w1
  w2 = w2
  a = a
  b = b
  Nobody = Nobody
  NoValue = NoValue
  Threads = {r1, r2, w1, w2}
  Calls <- AllCalls
  Platform = "win32"
  SplitSignalAndWait = TRUE
  m_nMaxSize = 2
  MaxQueued = 3
  Values = {a, b}
INVARIANTS
  WaiterCounts
  CallsConsistent
PROPERTIES
  ImplementsBlockingQueue
CHECK_DEADLOCK FALSE
