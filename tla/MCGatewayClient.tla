-------------------------- MODULE MCGatewayClient --------------------------
(* Two servers: "weather" with retryable reads, "write" with keyed writes *)
EXTENDS GatewayClient, TLC

CONSTANTS weather, write, g1, g2, g3, g4, p1, p2, k1

Both == {weather, write}
Gets == {g1, g2, g3}
PutCalls == {p1, p2}
AllCalls == Gets \cup PutCalls
FourGets == {g1, g2, g3, g4}

OwnServer == [t \in AllCalls |-> IF t \in PutCalls THEN write ELSE weather]
SharedKey == [t \in AllCalls |-> IF t \in PutCalls THEN k1 ELSE NoKey]

OnlyWeather == {weather}
GetServer == [t \in FourGets |-> weather]
NoKeys == [t \in FourGets |-> NoKey]

(* g1 differs from the other reads: it is the retryable one *)
Interchangeable == Permutations(Gets \ {g1}) \cup Permutations(PutCalls)
=============================================================================
