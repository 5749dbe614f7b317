SPECIFICATION WatchSpec
CONSTANTS
  all = all
  bus = bus
  Backends = {"memory", "redis", "none"}
  Subscribers = {all, bus}
  Wants <- wants
  Kinds <- kinds
  Conversations <- conversations
  ByBus = {bus}
  Throwing = {all}
  Leaving = {all, bus}
  AppCalls = 2
  Subscribing <- subscribing
  Logs = 1
  Losses = 1
  Polls = {p1, p2}
  LogSize = 3
CHECK_DEADLOCK FALSE
INVARIANTS
  DeliveryHolds
PROPERTIES
  TailCatchesUp
  RepliesAreRead
  ReadOn
