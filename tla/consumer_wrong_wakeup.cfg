CONSTANTS
  t1 = t1
  t2 = t2
  NoThread = NoThread
  Creator = t1
  Threads = {t1, t2}
  Starters = {t1}
  Closers = {t2}
  Alternate = TRUE
  Window = 2
  MaxCalls = 2
  MaxMessages = 1
  MaxDrops = 0
SPECIFICATION FairSpec
PROPERTIES
  SleepingStopperReturns
CHECK_DEADLOCK FALSE
