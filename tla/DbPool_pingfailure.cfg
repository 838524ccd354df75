SPECIFICATION Spec
CONSTANTS
  t1 = t1
  t2 = t2
  t3 = t3
  t4 = t4
  Threads <- MCThreads3
  MinConnections = 1
  MaxConnections = 2
  MaxFaults = 2
PROPERTIES
  PingFailureThenCreates
