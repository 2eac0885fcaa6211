CONSTANTS
  t1 = t1
  NoThread = NoThread
  Creator = t1
  Threads = {t1}
  Senders = {t1}
  Closers = {t1}
  MaxSends = 1
  MaxFlows = 1
  MaxGrant = 1
  MaxDrops = 0
SPECIFICATION FairSpec
PROPERTIES
  CloseReturnsOnceClosed
CHECK_DEADLOCK FALSE
