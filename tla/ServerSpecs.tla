---------------------------- MODULE ServerSpecs -----------------------------
(***************************************************************************)
(* The table of MCP servers the service ships with: which tools each may   *)
(* offer and what the gateway may do with a call of each.                  *)
(***************************************************************************)
EXTENDS Naturals

ToolPolicy == [side_effecting : BOOLEAN, retryable : BOOLEAN, timeout : Nat]

(* ToolPolicy()                                                            *)
DefaultPolicy == [side_effecting |-> FALSE, retryable |-> FALSE, timeout |-> 15]

Read(seconds) == [side_effecting |-> FALSE, retryable |-> TRUE, timeout |-> seconds]
WriteOnce(seconds) == [side_effecting |-> TRUE, retryable |-> FALSE, timeout |-> seconds]

DefaultServers == {"weather", "write", "map"}

(* tool_policies; the keys are the allowlists, too.                        *)
ToolPolicies ==
  [weather |-> [query_weather |-> Read(30), get_weather_tips |-> Read(5)],
   write   |-> [write_file |-> WriteOnce(15)],
   map     |-> [geocode |-> Read(10), reverse_geocode |-> Read(10)]]

DefaultAllowlist(server) == DOMAIN ToolPolicies[server]

PolicyFor(server, tool) ==
  IF tool \in DOMAIN ToolPolicies[server] THEN ToolPolicies[server][tool] ELSE DefaultPolicy
=============================================================================
