CONSTANTS
  t1 = t1
  t2 = t2
  NoThread = NoThread
  Creator = t1
  Threads = {t1, t2}
  Senders = {t1, t2}
  Closers = {t1, t2}
  MaxSends = 2
  MaxFlows = 2
  MaxGrant = 1
  MaxDrops = 1
SPECIFICATION Spec
INVARIANTS
  TypeOK
  OneMessagePerSendable
  AcceptedInOrder
  ReturnedCloseIsClosed
PROPERTIES
  ImplementsDelivery
CHECK_DEADLOCK FALSE
