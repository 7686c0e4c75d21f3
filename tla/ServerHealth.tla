---------------------------- MODULE ServerHealth ----------------------------
(***************************************************************************)
(* What the gateway knows of its MCP servers: the tools it found once, at  *)
(* startup, and the health records that the background loop and every      *)
(* /readyz write side by side.  A server is up or down as it pleases; a    *)
(* get_tools that it is asked may take its time, and has no timeout: it    *)
(* may never return.  One life of the process.                             *)
(***************************************************************************)
EXTENDS Naturals, Sequences

CONSTANTS
  ServerNames,
  ToolNames,
  Allowlist,   \* the names a server's tools may have
  Listings,    \* what get_tools may answer: sequences of tools
  Probes       \* requests to /readyz, each of which may come again

Loop == "loop"
Checkers == Probes \union {Loop}
Tool == [name : ToolNames, described : BOOLEAN]

ASSUME HealthAssumption ==
  /\ Allowlist \in [ServerNames -> SUBSET ToolNames]
  /\ Listings \in [ServerNames -> SUBSET Seq(Tool)]
  /\ Loop \notin Probes

VARIABLES
  up,          \* the servers themselves
  discovered,  \* servers discover is done with
  found,       \* what get_tools answered, empty if it raised
  tools,       \* registered, as <<server, name>>
  rejected,    \* <<server, name, reason>>; name is Whole for a whole server
  status,      \* HealthRecord.status
  phase,       \* what each checker is doing
  pings        \* the pings of its check_all

healthVars == <<up, discovered, found, tools, rejected, status, phase, pings>>

Whole == "whole server"
Reasons == {"discovery_failed", "not_in_allowlist", "missing_description_schema",
            "duplicate_qualified_name", "declared_but_not_discovered"}
Statuses == {"unknown", "healthy", "unhealthy"}

HealthTypeOK ==
  /\ up \in [ServerNames -> BOOLEAN]
  /\ discovered \subseteq ServerNames
  /\ \A s \in ServerNames : found[s] \in Listings[s] \union {<<>>}
  /\ tools \subseteq discovered \X ToolNames
  /\ rejected \subseteq discovered \X (ToolNames \union {Whole}) \X Reasons
  /\ status \in [ServerNames -> Statuses]
  /\ phase \in [Checkers -> {"idle", "checking"}]
  /\ pings \in [Checkers -> [ServerNames -> {"none", "sent", "ok", "failed"}]]
  /\ \A c \in Checkers : phase[c] = "idle" => \A s \in ServerNames : pings[c][s] = "none"

HealthInit ==
  /\ up \in [ServerNames -> BOOLEAN]
  /\ discovered = {}
  /\ found = [s \in ServerNames |-> <<>>]
  /\ tools = {}
  /\ rejected = {}
  /\ status = [s \in ServerNames |-> "unknown"]
  /\ phase = [c \in Checkers |-> "idle"]
  /\ pings = [c \in Checkers |-> [s \in ServerNames |-> "none"]]

Toggle(s) ==
  /\ up' = [up EXCEPT ![s] = ~@]
  /\ UNCHANGED <<discovered, found, tools, rejected, status, phase, pings>>

-----------------------------------------------------------------------------
(* Discovery                                                               *)

Registrable(s, t) == t.name \in Allowlist[s] /\ t.described

NewTools(s, listing) ==
  {<<s, listing[i].name>> : i \in {j \in DOMAIN listing : Registrable(s, listing[j])}}

Complaint(s, listing, i) ==
  CASE listing[i].name \notin Allowlist[s] -> "not_in_allowlist"
    [] ~listing[i].described               -> "missing_description_schema"
    [] OTHER                               -> "duplicate_qualified_name"

Refused(s, listing) ==
  {i \in DOMAIN listing :
     \/ ~Registrable(s, listing[i])
     \/ \E j \in 1..(i - 1) : listing[j].name = listing[i].name /\ Registrable(s, listing[j])}

Listed(listing) == {listing[i].name : i \in DOMAIN listing}

Complaints_namedOnly(s, listing) ==
  {<<s, listing[i].name, Complaint(s, listing, i)>> : i \in Refused(s, listing)}

Complaints(s, listing) ==
  {<<s, listing[i].name, Complaint(s, listing, i)>> : i \in Refused(s, listing)}
    \union {<<s, t, "declared_but_not_discovered">> : t \in Allowlist[s] \ Listed(listing)}

Discover_startsOver(s) ==
  /\ s \notin discovered
  /\ discovered' = discovered \union {s}
  /\ \/ /\ up[s]
        /\ \E listing \in Listings[s] :
             /\ found' = [found EXCEPT ![s] = listing]
             /\ tools' = NewTools(s, listing)
             /\ rejected' = rejected \union Complaints(s, listing)
     \/ /\ ~up[s]
        /\ rejected' = rejected \union {<<s, Whole, "discovery_failed">>}
        /\ UNCHANGED <<found, tools>>
  /\ UNCHANGED <<up, status, phase, pings>>

(* discover_all comes before anything else in the lifespan; what a server
   that is down would have offered is never asked for again.               *)
Discover(s) ==
  /\ s \notin discovered
  /\ discovered' = discovered \union {s}
  /\ \/ /\ up[s]
        /\ \E listing \in Listings[s] :
             /\ found' = [found EXCEPT ![s] = listing]
             /\ tools' = tools \union NewTools(s, listing)
             /\ rejected' = rejected \union Complaints(s, listing)
     \/ /\ ~up[s]
        /\ rejected' = rejected \union {<<s, Whole, "discovery_failed">>}
        /\ UNCHANGED <<found, tools>>
  /\ UNCHANGED <<up, status, phase, pings>>

-----------------------------------------------------------------------------
(* Health                                                                  *)

Found(s) == {found[s][i] : i \in DOMAIN found[s]}
Started == discovered = ServerNames

(* check_all gathers one check_once per server.  The lifespan's own check
   is the first round of the loop.                                         *)
CheckAll(c) ==
  /\ Started
  /\ phase[c] = "idle"
  /\ c \in Probes => \A s \in ServerNames : status[s] # "unknown"
  /\ phase' = [phase EXCEPT ![c] = "checking"]
  /\ pings' = [pings EXCEPT ![c] = [s \in ServerNames |-> "sent"]]
  /\ UNCHANGED <<up, discovered, found, tools, rejected, status>>

Answer(c, s) ==
  /\ pings[c][s] = "sent"
  /\ pings' = [pings EXCEPT ![c][s] = IF up[s] THEN "ok" ELSE "failed"]
  /\ UNCHANGED <<up, discovered, found, tools, rejected, status, phase>>

RecordHealth_failureEscapes(c, s) ==
  /\ pings[c][s] \in {"ok", "failed"}
  /\ status' = [status EXCEPT ![s] = IF pings[c][s] = "ok" THEN "healthy" ELSE @]
  /\ pings' = [pings EXCEPT ![c][s] = "none"]
  /\ UNCHANGED <<up, discovered, found, tools, rejected, phase>>

(* check_once after its await; an exception is a result like any other.    *)
RecordHealth(c, s) ==
  /\ pings[c][s] \in {"ok", "failed"}
  /\ status' = [status EXCEPT ![s] = IF pings[c][s] = "ok" THEN "healthy" ELSE "unhealthy"]
  /\ pings' = [pings EXCEPT ![c][s] = "none"]
  /\ UNCHANGED <<up, discovered, found, tools, rejected, phase>>

Checked_whenFirst(c) ==
  /\ phase[c] = "checking"
  /\ \E s \in ServerNames : pings[c][s] = "none"

Checked(c) ==
  /\ phase[c] = "checking"
  /\ \A s \in ServerNames : pings[c][s] = "none"

(* The loop goes to sleep; readyz answers with a snapshot of the records.   *)
Finish(c) ==
  /\ Checked(c)
  /\ phase' = [phase EXCEPT ![c] = "idle"]
  /\ UNCHANGED <<up, discovered, found, tools, rejected, status, pings>>

HealthNext ==
  \/ \E s \in ServerNames : Toggle(s) \/ Discover(s)
  \/ \E c \in Checkers :
       \/ CheckAll(c) \/ Finish(c)
       \/ \E s \in ServerNames : Answer(c, s) \/ RecordHealth(c, s)

(* The loop goes on by itself and tasks are resumed.  Nothing makes a server
   answer.                                                                 *)
HealthFairness ==
  /\ WF_healthVars(CheckAll(Loop))
  /\ \A c \in Checkers :
       /\ WF_healthVars(Finish(c))
       /\ \A s \in ServerNames : WF_healthVars(RecordHealth(c, s))

HealthSpec == HealthInit /\ [][HealthNext]_healthVars /\ HealthFairness

-----------------------------------------------------------------------------
(* A server that could be asked at startup has exactly its usable tools
   registered, whatever became of the servers before and after it.         *)
ReachableServersHaveTheirTools ==
  Started => \A s \in ServerNames :
    {t \in ToolNames : <<s, t>> \in tools}
      = {t \in Allowlist[s] : [name |-> t, described |-> TRUE] \in Found(s)}

(* A tool the configuration promises is registered, or one of the reasons on
   /readyz accounts for its absence.                                       *)
NoToolMissingSilently ==
  Started => \A s \in ServerNames : \A t \in Allowlist[s] :
    \/ <<s, t>> \in tools
    \/ \E reason \in Reasons : <<s, t, reason>> \in rejected \/ <<s, Whole, reason>> \in rejected

(* Every get_tools of startup and of the loop returns or raises in the end. *)
NoCallHangs ==
  \A s \in ServerNames : /\ <>(s \in discovered)
                        /\ []<>(pings[Loop][s] # "sent")

(* While no get_tools hangs, a server that stays down, or up, is shown so in
   the end for good: a late answer of an older ping may hide it, but not for
   ever, and a server that raises stops the checks of none.  One ping without
   an answer would: check_all gathers them all, and the loop with it waits.  *)
LastingStateIsShown ==
  NoCallHangs => \A s \in ServerNames :
    /\ <>[]up[s] => <>[](status[s] = "healthy")
    /\ <>[]~up[s] => <>[](status[s] = "unhealthy")
=============================================================================
