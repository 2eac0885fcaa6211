CONSTANTS
  t1 = t1
  NoThread = NoThread
  conn = conn
  s1 = s1
  c1 = c1
  p1 = p1
  NoObject = NoObject
  Conn = conn
  Threads = {t1}
  Sessions = {s1}
  Consumers = {c1}
  Producers = {p1}
  Opener = t1
  Starters = {t1}
  Closers = {t1}
  SetupFirst = TRUE
  MaxCalls = 2
  MaxFaults = 1
SPECIFICATION Spec
INVARIANTS
  ConnectionCloseClosesSessions
CHECK_DEADLOCK FALSE
