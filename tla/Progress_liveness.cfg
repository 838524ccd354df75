SPECIFICATION FairPartSpec
CONSTANTS
  t1 = t1
  t2 = t2
  u1 = u1
  u2 = u2
  u3 = u3
  k1 = k1
  x = x
  s1 = s1
  s2 = s2
  m1 = m1
  Malformed = Malformed
  None = None
  Workers = {t1, t2}
  Submitters = {u1, u2}
  MaxTasks = 3
INVARIANTS
  PoolIsSafe
  OutputIsSafe
PROPERTIES
  PoolProgress
  OutputEnds
  TimeoutsHappen
  CallersReturn
  ConsumerProgress
  DeadPresenceExpires
  RequestsFinish
CHECK_DEADLOCK FALSE
