\* Several clients on one conversation, the model may fail, nothing else does.
SPECIFICATION FairSpec
CONSTANTS
  r1 = r1
  r2 = r2
  r3 = r3
  r4 = r4
  w1 = w1
  w2 = w2
  c1 = c1
  Reqs <- ThreeReqs
  NoReq = NoReq
  Calls <- TwoWritesOneRead
  Writes <- TwoWrites
  NoCall = NoCall
  MaxBatch = 2
  MaxOpen = 3
  Faults = {"model"}
PROPERTIES
  ImplementsGate
  EveryTurnEnds
