CONSTANTS
  t1 = t1
  t2 = t2
  NoThread = NoThread
  Creator = t1
  Threads = {t1, t2}
  Starters = {t1}
  Closers = {t1, t2}
  Alternate = TRUE
  Window = 3
  MaxCalls = 4
  MaxMessages = 3
  MaxDrops = 1
SPECIFICATION FairSpec
INVARIANTS
  TypeOK
  StopHalts
  AtMostOneWindow
  StartedHasCredit
  ReturnedCloseIsClosed
PROPERTIES
  LoneStopperReturns
  LoneCloserReturns
  ImplementsCredit
CHECK_DEADLOCK FALSE
