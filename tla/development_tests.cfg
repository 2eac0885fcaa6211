CONSTANTS
  t1 = t1
  NoThread = NoThread
  NoObject = NoObject
  Conn = "mConnection"
  mSession = "mSession"
  session2 = "session2"
  session3 = "session3"
  mConsumer = "mConsumer"
  consumer2 = "consumer2"
  mProducer = "mProducer"
  producer2 = "producer2"
  Producer <- MCProducer
  Threads = {t1}
  Sessions = {"mSession", "session2", "session3"}
  Consumers = {"mConsumer", "consumer2"}
  Producers = {"mProducer", "producer2", "p1", "p3", "p5", "p7", "p9", "p11",
               "p13", "p15", "p17"}
  Opener = t1
  Starters = {t1}
  Closers = {t1}
  SetupFirst = FALSE
  MaxCalls = 60
  MaxFaults = 0
  Batch = 15
  MaxKeys = 2
SPECIFICATION TestSpec
INVARIANTS
  TestsSucceed
  NothingLeftOpen
PROPERTIES
  ScriptsEnd
CHECK_DEADLOCK FALSE
