SPECIFICATION Spec
CONSTANTS
  t1 = t1
  t2 = t2
  r1 = r1
  r2 = r2
  Nothing = Nothing
  Threads = {t1, t2}
  Resources = {r1, r2}
  m_nMaxSize = 2
  MaxElements = 2
  MaxPooled = 4
INVARIANTS
  ExclusiveUse
  DestructorNeverWaits
CHECK_DEADLOCK FALSE
