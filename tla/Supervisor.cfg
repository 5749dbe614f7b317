SPECIFICATION FairSpec
CONSTANTS
  s1 = s1
  s2 = s2
  b1 = b1
  NoChild = NoChild
  Children = {s1, s2}
  Beats = {b1}
CHECK_DEADLOCK FALSE
INVARIANTS
  StopIsClean
PROPERTIES
  DeadIsForgotten
  StopEnds
