CONSTANTS
  t1 = t1
  t2 = t2
  NoThread = NoThread
  Creator = t1
  Threads = {t1, t2}
  Senders = {t1}
  Closers = {t2}
  MaxSends = 2
  MaxFlows = 2
  MaxGrant = 2
  MaxDrops = 1
SPECIFICATION FairSpec
PROPERTIES
  SleepingCloserReturns
  SleepingSenderReturns
  AcceptedIsExecuted
CHECK_DEADLOCK FALSE
