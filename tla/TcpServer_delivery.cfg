SPECIFICATION Spec
CONSTANTS
  None = None
  c1 = c1
  c2 = c2
  w1 = w1
  w2 = w2
  u1 = u1
  u2 = u2
  Conns <- MCConns
  Workers <- MCWorkers
  Users <- MCUser
  MaxRequests <- MCTwo
  Kinds <- MCFence
  MayStop = FALSE
  MayFail = TRUE
INVARIANTS
  FenceCountsMarks
  QueuedRequestHasStarter
  TimeoutFindsIdle

  
CHECK_DEADLOCK FALSE
SYMMETRY MCSymmetry
