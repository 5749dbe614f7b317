SPECIFICATION Spec
CONSTANTS
  c1 = c1
  c2 = c2
  api1 = api1
  web2 = web2
  web1 = web1
  None = None
  Never = Never
  Clients = {c1, c2}
  Registered <- MCRegistered
  ServiceOf <- MCServiceOf
  RoutesOf <- MCRoutesOf
  TypeOf <- MCTypeOf
  Probed = {"api"}
  Paths <- MCPaths
  Widths <- MCWidths
  RouteOrder <- MCRouteOrder
  Setups <- MCSetups
  CacheMs = 1
  CheckTimeoutMs = 1
  StaleGraceMs = 1
  FailureThreshold = 2
  Attempts = 2
  Rotation <- MCRotation
  Flaky = {api1}
CHECK_DEADLOCK FALSE
INVARIANTS
  RightService
PROPERTIES
  BackByAnswer
  DownIsDropped
  UpIsUsed
