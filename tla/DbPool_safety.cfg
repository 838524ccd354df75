SPECIFICATION FairSpec
CONSTANTS
  t1 = t1
  t2 = t2
  t3 = t3
  t4 = t4
  Threads <- MCThreads
  MinConnections = 1
  MaxConnections = 2
  MaxFaults = 3
PROPERTIES
  PoolProgress
INVARIANTS
  SlotAccounting
  NoLostWakeup
