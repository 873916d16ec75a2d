CONSTANTS
  t1 = t1
  t2 = t2
  jar = jar
  cfg = cfg
  None = None
  Threads <- MCThreads
  Names <- MCOneName
  Chunks = 2
  Quota = 2
  MaxRequests = 2
  MaxFaults = 1
SPECIFICATION FairSpec
CHECK_DEADLOCK FALSE
INVARIANTS
  TypeOK
  PublishedIsWhole
  NoPartLeft
PROPERTIES
  FrozenOncePublished
  StoreSpec
  UsageCatchesUp
