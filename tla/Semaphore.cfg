SPECIFICATION Spec
CONSTANTS
  t1 = t1
  t2 = t2
  t3 = t3
  s1 = s1
  s2 = s2
  Nobody = Nobody
  Threads = {t1, t2, t3}
  Sems <- TwoSems
  Address <- Addresses
  Calls <- AnyCalls
  Timed = {"wait", "all", "any"}
  MaxSignals = 1
INVARIANTS
  NoDanglingWaiter
  ChosenIsWoken
CHECK_DEADLOCK FALSE
