SPECIFICATION FairSpec
CONSTANTS
  api = api
  web = web
  job = job
  None = None
  Router = Router
  Modes = {"process", "podman"}
  Runs = {1, 2}
  Services = {api, web, job}
  Order <- order
  Workers = {job}
  Routed = {web}
  Realtime = {api}
  Instances <- instancesOf
  Preferred <- preferredOf
  From = 3
  To = 4
  RouterPort = 2
  Requests <- requests
  Foreign = {1}
  Flaky = {job}
  Slow = {job}
  InFlight = 1
  Commands = 1
CHECK_DEADLOCK FALSE
INVARIANTS
  PortsApart
  NothingLeftBehind
  RealtimeHasRedis
PROPERTIES
  StoppedIsForgotten
