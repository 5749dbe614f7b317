SPECIFICATION ConfigSpec
CONSTANTS
  None = None
  Empty = Empty
  RawConfigs <- MCRawConfigs
  Widths <- MCWidths
  RouteOrder <- MCRouteOrder
CHECK_DEADLOCK FALSE
INVARIANTS
  PartsAgree
  RoutesReach
