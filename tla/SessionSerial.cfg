\* One request at a time, as the shipped frontend sends them, every interruption.
SPECIFICATION Spec
CONSTANTS
  r1 = r1
  r2 = r2
  r3 = r3
  r4 = r4
  w1 = w1
  w2 = w2
  c1 = c1
  Reqs <- ThreeReqs
  NoReq = NoReq
  Calls <- TwoWritesOneRead
  Writes <- TwoWrites
  NoCall = NoCall
  MaxBatch = 2
  MaxOpen = 1
  Faults = {"model", "limit", "store", "disconnect", "crash", "undiscovered", "expiry"}
SYMMETRY Interchangeable
INVARIANTS
  TypeOK
  ConsentBeforeEffect
  PendingIsUnanswered
  NoDanglingCalls
PROPERTIES
  ImplementsKeyedCall
  PauseEndsByDecision
  StoredResultIsFinal
