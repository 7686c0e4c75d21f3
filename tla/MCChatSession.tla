--------------------------- MODULE MCChatSession ---------------------------
(* Model values and symmetry for the TLC runs of ChatSession *)
EXTENDS ChatSession, TLC

CONSTANTS r1, r2, r3, r4, w1, w2, c1

ThreeReqs == {r1, r2, r3}
FourReqs == {r1, r2, r3, r4}
TwoWritesOneRead == {w1, w2, c1}
TwoWrites == {w1, w2}

(* Requests are interchangeable, and so are the two writes *)
Interchangeable == Permutations(Reqs) \cup Permutations(TwoWrites)
=============================================================================
