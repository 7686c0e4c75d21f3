\* Four reads whose callers stay and a breaker with two probes; or two servers to discover and check.
SPECIFICATION BothSpec
CONSTANTS
  weather = weather
  write = write
  g1 = g1
  g2 = g2
  g3 = g3
  g4 = g4
  p1 = p1
  p2 = p2
  k1 = k1
  map = map
  query = query
  tips = tips
  extra = extra
  z1 = z1
  Servers <- OnlyWeather
  Tasks <- FourGets
  ServerOf <- GetServer
  SideEffecting = {}
  Retryable = {g1}
  Keys = {}
  NoKey = NoKey
  KeyOf <- NoKeys
  MaxAttempts = 2
  TTL = 1
  Cancels = FALSE
  Restarts = TRUE
  FailureThreshold = 2
  RecoveryTimeout = 2
  HalfOpenMaxCalls = 2
  ServerNames = {weather, map}
  ToolNames = {query, tips, extra}
  Allowlist <- ToolsAllowed
  Listings <- SomeListings
  Probes = {z1}
CHECK_DEADLOCK FALSE
INVARIANTS
  SlotsHeldByProbes
  HealthTypeOK
  ReachableServersHaveTheirTools
  NoToolMissingSilently
PROPERTIES
  Recovers
  EveryCallReturns
  LastingStateIsShown
