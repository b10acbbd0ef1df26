SPECIFICATION FairSpec
CONSTANTS
  t1 = t1
  t2 = t2
  c1 = c1
  c2 = c2
  h1 = h1
  h2 = h2
  Nobody = Nobody
  Conns = {c1, c2}
  Host <- TwoHosts
  Threads = {t1, t2}
  MaxPieces = 2
INVARIANTS
  SenderIsReal
  NothingSkipped
PROPERTIES
  AcceptedInTheEnd
CHECK_DEADLOCK FALSE
