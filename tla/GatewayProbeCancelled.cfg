\* The same server, but callers may be cancelled.
SPECIFICATION FairSpec
CONSTANTS
  weather = weather
  write = write
  g1 = g1
  g2 = g2
  g3 = g3
  g4 = g4
  p1 = p1
  p2 = p2
  k1 = k1
  Servers <- OnlyWeather
  Tasks <- FourGets
  ServerOf <- GetServer
  SideEffecting = {}
  Retryable = {g1}
  Keys = {}
  NoKey = NoKey
  KeyOf <- NoKeys
  MaxAttempts = 2
  TTL = 1
  Cancels = TRUE
  Restarts = FALSE
  FailureThreshold = 2
  RecoveryTimeout = 2
  HalfOpenMaxCalls = 1
CHECK_DEADLOCK FALSE
PROPERTY
  Recovers
