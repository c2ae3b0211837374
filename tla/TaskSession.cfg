SPECIFICATION FairSpec
CONSTANTS
  Logs <- MCLogs
  Streams = {"s1", "r1"}
  Writers = {"s1"}
  Callbacks = {c1}
  Waiters = {w1}
  CacheSize = 2
  SeenMax = 2
  MaxClients = 2
INVARIANTS NothingMissed WaitersSettle
PROPERTY DrainCloses
CHECK_DEADLOCK FALSE
