SPECIFICATION FairSpec
CONSTANTS
  t1 = t1
  t2 = t2
  t3 = t3
  o1 = o1
  o2 = o2
  NoTimer = NoTimer
  Free = Free
  m_vecThreads = {t1, t2, t3}
  STimers = {o1}
  IDs = {1}
  Seconds = {1}
  MaxCommands = 1
PROPERTIES
  DestructorReturns
  DroppedIsDeleted
CHECK_DEADLOCK FALSE
