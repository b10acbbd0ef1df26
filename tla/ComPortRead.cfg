SPECIFICATION SpecParts
CONSTANTS
  Parts = {"port"}
  p1 = p1
  p2 = p2
  p3 = p3
  o1 = o1
  o2 = o2
  n1 = n1
  n2 = n2
  h1 = h1
  h2 = h2
  s1 = s1
  s2 = s2
  s3 = s3
  k1 = k1
  k2 = k2
  short = short
  long = long
  c1 = c1
  c2 = c2
  t1 = t1
  t2 = t2
  i1 = i1
  i2 = i2
  e1 = e1
  x1 = x1
  v1 = v1
  v2 = v2
  d1 = d1
  d2 = d2
  d3 = d3
  f1 = f1
  f2 = f2
  NULL = NULL
  Garbage = Garbage
  NoSocket = NoSocket
  Nobody = Nobody
  None = None
  Unreadable = Unreadable
  All = All
  Nowhere = Nowhere
  NoFile = NoFile
  Pointers = {p1, p2, p3}
  Objects = {o1, o2}
  MaxCount = 4
  Nets = {n1, n2}
  Hosts = {h1, h2}
  Handles = {s1, s2, s3}
  MaxLen = 4
  Bytes <- SomeBytes
  Keys <- ShortKeys
  Numbers <- SomeNumbers
  Radixes = {0, 2, 10, 16, 35, 36}
  Keepers = {k1, k2}
  KeeperKeys = {1, 2}
  Texts = {short, long}
  Length <- Lengths
  MaxPasswords = 1
  Half = 32
  Precision = 5
  MaxLate = 2
  MaxWork = 3
  MaxElapsed = 30
  Coms = {c1, c2}
  PortHandles = {0, 1, 2}
  MaxBytes = 2
  Threads = {t1, t2}
  Ids = {i1, i2}
  Errors = {e1}
  Others = {x1}
  MaxDepth = 2
  Variants = {v1, v2}
  Buffers = {d1, d2, d3}
  Values <- SomeValues
  MaxInt = 3
  Listening = {h1}
  Receivers = {t1}
  MaxSent = 2
  MaxWaiting = 2
  Files = {f1, f2}
INVARIANTS
  ReadFailsOnError
CHECK_DEADLOCK FALSE
