SPECIFICATION PartSpec
CONSTANTS
  t1 = t1
  t2 = t2
  t3 = t3
  u1 = u1
  u2 = u2
  n1 = n1
  k1 = k1
  x = x
  y = y
  None = None
  Threads = {t1, t2}
  Users = {u1, u2}
  ClientIds = {k1}
  Contents = {x, y}
  MaxIds = 3
  Faults = {"redis", "mysql"}
INVARIANTS
  AnswersAreTrue
  Idempotence
  SequencesAreDense
  FriendsAgreed
  
  PullIsExact
  
  NewestLinesKept
  FeedSplitsStream
  PoolIsSound
  LinesAreKept
SYMMETRY Symmetry
