SPECIFICATION FairSpec
CONSTANTS
  a = a
  b = b
  temp = temp
  NoOwner = NoOwner
  Nodes = {a, b}
  Tasks = {temp}
  Keys = {temp}
  KeyOf <- keyOf
  Faults = 1
CHECK_DEADLOCK FALSE
INVARIANTS
  RunsAreKnown
  OneNodeAtATime
PROPERTIES
  TasksGoOn
