SPECIFICATION Spec
CONSTANTS
  None = None
  c1 = c1
  c2 = c2
  w1 = w1
  w2 = w2
  u1 = u1
  u2 = u2
  Conns <- MCConn
  Workers <- MCWorkers
  Users <- MCUser
  MaxRequests <- MCTwo
  Kinds <- MCPlain
  MayStop = FALSE
  MayFail = TRUE
PROPERTIES
  HalfCloseKeepsRequest
CHECK_DEADLOCK FALSE
