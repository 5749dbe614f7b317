SPECIFICATION FairSpec
CONSTANTS
  c1 = c1
  c2 = c2
  i1 = i1
  i2 = i2
  NoTarget = NoTarget
  Conns = {c1, c2}
  Instances = {i1, i2}
  Attempts = 2
  Faults = {"stall", "cut", "reset"}
CHECK_DEADLOCK FALSE
INVARIANTS
  WorkIsCounted
  DrainWaits
  StaysUp
PROPERTIES
  DrainEndsOnceClientsLeave
  RequestsFinish
