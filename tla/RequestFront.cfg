SPECIFICATION FrontFairSpec
CONSTANTS
  r1 = r1
  r2 = r2
  Requests = {r1, r2}
  Kinds <- kinds
  RetryAttempts = 2
  MaxHops = 2
  HopBound = 3
CHECK_DEADLOCK FALSE
INVARIANTS
  AnswersAreTrue
PROPERTIES
  DrainingTakesNothing
  LoopsEnd
