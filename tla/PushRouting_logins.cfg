SPECIFICATION LoginSpec
CONSTANTS
  a = a
  b = b
  a1 = a1
  a2 = a2
  b1 = b1
  u1 = u1
  u2 = u2
  None = None
  Servers = {a, b}
  Places = {a1, a2, b1}
  ServerOf <- TwoServers
  Users = {u1, u2}
  MaxTokens = 2
  Faults = {}
INVARIANTS
  PresenceIsCurrent
  LastLoginIsRouted
  IndexesAgree
SYMMETRY UserSymmetry
CHECK_DEADLOCK FALSE
