SPECIFICATION Spec
CONSTANTS
  t1 = t1
  t2 = t2
  t3 = t3
  o1 = o1
  o2 = o2
  NoTimer = NoTimer
  Free = Free
  m_vecThreads = {t1, t2}
  STimers = {o1, o2}
  IDs = {1}
  Seconds = {1, 2}
  MaxCommands = 2
INVARIANTS
  OwnedOnce
  NoUseAfterDelete
  OneLateCallback
  ShutdownSignalKept
SYMMETRY Interchangeable
CHECK_DEADLOCK FALSE
