------------------------- MODULE MCGatewayServers --------------------------
(***************************************************************************)
(* The two sides of the gateway that must go on by themselves, its calls   *)
(* and its health checks, in one run.  They share no state, so it is       *)
(* enough to let one of them move, chosen at the start.  Of the two        *)
(* servers to be discovered one lists its tools as it should, twice,       *)
(* without a description or with a stranger among them; the other has a    *)
(* single tool.                                                            *)
(***************************************************************************)
EXTENDS MCGatewayClient, ServerHealth

CONSTANTS map, query, tips, extra, z1

VARIABLE mover

ToolsAllowed ==
  [s \in {weather, map} |-> IF s = weather THEN {query, tips} ELSE {query}]

Good(n) == [name |-> n, described |-> TRUE]
Bare(n) == [name |-> n, described |-> FALSE]

WeatherListings ==
  { <<Good(query), Good(tips)>>, <<Good(query), Good(query)>>,
    <<Bare(query), Good(tips), Good(extra)>> }
SomeListings == [s \in {weather, map} |->
                   IF s = weather THEN WeatherListings ELSE {<<Good(query)>>}]

gatewayVars == <<mover, vars, healthVars>>

CallsMove(A) == mover = "calls" /\ A /\ UNCHANGED <<mover, healthVars>>
ChecksMove(A) == mover = "checks" /\ A /\ UNCHANGED <<mover, vars>>

BothInit ==
  /\ mover \in {"calls", "checks"}
  /\ Init /\ HealthInit
  /\ mover = "calls" => \A s \in ServerNames : up[s]

BothNext == CallsMove(Next) \/ ChecksMove(HealthNext)

(* What GatewayClient's FairSpec and ServerHealth's HealthFairness assume  *)
BothFairness ==
  /\ WF_gatewayVars(CallsMove(Tick))
  /\ \A t \in Tasks : WF_gatewayVars(CallsMove(Proceed(t)))
  /\ WF_gatewayVars(ChecksMove(CheckAll(Loop)))
  /\ \A c \in Checkers :
       /\ WF_gatewayVars(ChecksMove(Finish(c)))
       /\ \A s \in ServerNames : WF_gatewayVars(ChecksMove(RecordHealth(c, s)))

BothSpec == BothInit /\ [][BothNext]_gatewayVars /\ BothFairness
=============================================================================
