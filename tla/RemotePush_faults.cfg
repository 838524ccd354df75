SPECIFICATION Spec
CONSTANTS
  m1 = m1
  Messages = {m1}
  Malformed = Malformed
  None = None
  Target <- OneTarget
  TaskIds <- TwoTasks
  MaxEntries = 2
  Faults <- EveryFault
INVARIANTS
  AtMostOnce
  
CHECK_DEADLOCK FALSE
