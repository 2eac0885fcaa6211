CONSTANTS
  t1 = t1
  t2 = t2
  NoThread = NoThread
  conn = conn
  s1 = s1
  c1 = c1
  p1 = p1
  NoObject = NoObject
  Conn = conn
  Threads = {t1, t2}
  Sessions = {s1}
  Consumers = {c1}
  Producers = {p1}
  Opener = t1
  Starters = {t1}
  Closers = {t1, t2}
  SetupFirst = TRUE
  MaxCalls = 3
  MaxFaults = 1
SPECIFICATION FairSpec
INVARIANTS
  TypeOK
  ChildrenCloseFirst
PROPERTIES
  ClosersEnd
CHECK_DEADLOCK FALSE
