SPECIFICATION FairSpec
CONSTANTS
  Builds = {TRUE, FALSE}
  Calls = {"Resume", "Suspend", "Join", "TimedJoin", "Terminate"}
  MaxSignals = 1
INVARIANTS
  JoinedDeleteIsSafe
  JoinTruthful
  HandleClosedOnce
PROPERTIES
  JoinReturns
CHECK_DEADLOCK FALSE
