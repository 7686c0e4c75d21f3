\* One request at a time, the client may go away.
SPECIFICATION Spec
CONSTANTS
  r1 = r1
  r2 = r2
  r3 = r3
  r4 = r4
  w1 = w1
  w2 = w2
  c1 = c1
  Reqs <- ThreeReqs
  NoReq = NoReq
  Calls <- TwoWrites
  Writes <- TwoWrites
  NoCall = NoCall
  MaxBatch = 1
  MaxOpen = 1
  Faults = {"disconnect"}
INVARIANT WriteAtMostOnce
