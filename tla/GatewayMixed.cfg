\* Reads on one server, two writes with one key on the other, callers that go away, restarts.
SPECIFICATION Spec
CONSTANTS
  weather = weather
  write = write
  g1 = g1
  g2 = g2
  g3 = g3
  g4 = g4
  p1 = p1
  p2 = p2
  k1 = k1
  Servers <- Both
  Tasks <- AllCalls
  ServerOf <- OwnServer
  SideEffecting <- PutCalls
  Retryable = {g1}
  Keys = {k1}
  NoKey = NoKey
  KeyOf <- SharedKey
  MaxAttempts = 2
  TTL = 1
  Cancels = TRUE
  Restarts = TRUE
  FailureThreshold = 2
  RecoveryTimeout = 2
  HalfOpenMaxCalls = 1
SYMMETRY Interchangeable
CHECK_DEADLOCK FALSE
INVARIANTS
  TypeOK
  ClosedIffBelowThreshold
  RefusalHasCause
  WriteEffectsHaveCalls
PROPERTY
  ImplementsKeyedCall
