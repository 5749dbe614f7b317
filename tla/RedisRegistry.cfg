SPECIFICATION FairSpec
CONSTANTS
  n1 = n1
  n2 = n2
  b1 = b1
  b2 = b2
  l1 = l1
  l2 = l2
  Nodes = {n1, n2}
  Beats = {b1}
  Listers = {l1}
  Late = {n2}
INVARIANTS
  StoppedIsUnlisted
  DrainHolds
PROPERTIES
  ListedStaysListed
  GoneIsForgotten
