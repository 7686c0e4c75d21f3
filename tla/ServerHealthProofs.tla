------------------------- MODULE ServerHealthProofs -------------------------
(***************************************************************************)
(* Theorems about discovery and health, for any servers, tools, allowlists *)
(* and answers of get_tools.                                               *)
(***************************************************************************)
EXTENDS ServerHealth, TLAPS

USE HealthAssumption

(* The usable tools of what a server listed, as it is registered; a server
   not asked yet has listed nothing.                                       *)
ToolsAreFound ==
  /\ found = [s \in ServerNames |-> found[s]]
  /\ \A s \in ServerNames : s \notin discovered => found[s] = <<>>
  /\ \A s \in ServerNames, t \in ToolNames :
       <<s, t>> \in tools <=>
         t \in Allowlist[s] /\ [name |-> t, described |-> TRUE] \in Found(s)

AbsencesAreExplained ==
  \A s \in discovered : \A t \in Allowlist[s] :
    \/ <<s, t>> \in tools
    \/ \E reason \in Reasons : <<s, t, reason>> \in rejected \/ <<s, Whole, reason>> \in rejected

HealthInv == HealthTypeOK /\ ToolsAreFound /\ AbsencesAreExplained

-----------------------------------------------------------------------------
(* What one listing contributes                                            *)

LEMMA ListingsAreTools ==
  ASSUME NEW s \in ServerNames, NEW listing \in Listings[s], NEW i \in DOMAIN listing
  PROVE  /\ listing[i] \in Tool
         /\ listing[i] = [name |-> listing[i].name, described |-> listing[i].described]
         /\ listing[i].name \in ToolNames /\ listing[i].described \in BOOLEAN
<1>1. listing \in Seq(Tool)
  OBVIOUS
<1>2. listing[i] \in Tool
  BY <1>1
<1> QED BY <1>2 DEF Tool

LEMMA ComplaintsAreReasons ==
  ASSUME NEW s, NEW listing, NEW i
  PROVE  Complaint(s, listing, i) \in Reasons
BY DEF Complaint, Reasons

LEMMA NewToolsAreUsable ==
  ASSUME NEW s \in ServerNames, NEW listing \in Listings[s], NEW t \in ToolNames
  PROVE  <<s, t>> \in NewTools(s, listing) <=>
           /\ t \in Allowlist[s]
           /\ [name |-> t, described |-> TRUE] \in {listing[i] : i \in DOMAIN listing}
<1>1. ASSUME <<s, t>> \in NewTools(s, listing)
      PROVE  /\ t \in Allowlist[s]
             /\ [name |-> t, described |-> TRUE] \in {listing[i] : i \in DOMAIN listing}
  <2>1. PICK i \in DOMAIN listing : Registrable(s, listing[i]) /\ listing[i].name = t
    BY <1>1 DEF NewTools
  <2>2. listing[i] = [name |-> t, described |-> TRUE]
    BY <2>1, ListingsAreTools DEF Registrable
  <2> QED BY <2>1, <2>2 DEF Registrable
<1>2. ASSUME t \in Allowlist[s],
             [name |-> t, described |-> TRUE] \in {listing[i] : i \in DOMAIN listing}
      PROVE  <<s, t>> \in NewTools(s, listing)
  <2>1. PICK i \in DOMAIN listing : listing[i] = [name |-> t, described |-> TRUE]
    BY <1>2
  <2>2. listing[i].name = t /\ Registrable(s, listing[i])
    BY <1>2, <2>1 DEF Registrable
  <2> QED BY <2>2 DEF NewTools
<1> QED BY <1>1, <1>2

LEMMA OneServersToolsOnly ==
  ASSUME NEW s \in ServerNames, NEW listing \in Listings[s]
  PROVE  /\ NewTools(s, listing) \subseteq {s} \X ToolNames
         /\ Complaints(s, listing) \subseteq {s} \X ToolNames \X Reasons
<1>1. \A i \in DOMAIN listing : listing[i].name \in ToolNames
  BY ListingsAreTools
<1>2. \A t \in Allowlist[s] : t \in ToolNames
  OBVIOUS
<1>3. "declared_but_not_discovered" \in Reasons
  BY DEF Reasons
<1> QED BY <1>1, <1>2, <1>3, ComplaintsAreReasons DEF NewTools, Complaints, Refused

(* A promised tool that a listing does not yield is complained about.      *)
LEMMA ListingsExplainThemselves ==
  ASSUME NEW s \in ServerNames, NEW listing \in Listings[s], NEW t \in Allowlist[s],
         <<s, t>> \notin NewTools(s, listing)
  PROVE  \E reason \in Reasons : <<s, t, reason>> \in Complaints(s, listing)
<1>1. CASE t \notin Listed(listing)
  BY <1>1 DEF Complaints, Reasons
<1>2. CASE t \in Listed(listing)
  <2>1. PICK i \in DOMAIN listing : listing[i].name = t
    BY <1>2 DEF Listed
  <2>2. ~Registrable(s, listing[i])
    BY <2>1 DEF NewTools
  <2>3. <<s, t, Complaint(s, listing, i)>> \in Complaints(s, listing)
    BY <2>1, <2>2 DEF Complaints, Refused
  <2> QED BY <2>3, ComplaintsAreReasons
<1> QED BY <1>1, <1>2

-----------------------------------------------------------------------------
(* Discovery                                                               *)

LEMMA DiscoverSafe == ASSUME HealthInv, NEW s \in ServerNames, Discover(s) PROVE HealthInv'
<1> USE DEF HealthInv
<1>1. /\ s \notin discovered
      /\ discovered' = discovered \union {s}
      /\ UNCHANGED <<up, status, phase, pings>>
  BY DEF Discover
<1>2. \A t \in ToolNames : <<s, t>> \notin tools
  BY <1>1 DEF HealthTypeOK
<1>3. CASE up[s]
  <2>1. PICK listing \in Listings[s] :
          /\ found' = [found EXCEPT ![s] = listing]
          /\ tools' = tools \union NewTools(s, listing)
          /\ rejected' = rejected \union Complaints(s, listing)
    BY <1>3 DEF Discover
  <2>2. /\ found'[s] = listing
        /\ \A r \in ServerNames : r # s => found'[r] = found[r]
        /\ found' = [r \in ServerNames |-> found'[r]]
    BY <2>1 DEF ToolsAreFound
  <2>3. HealthTypeOK'
    <3>1. \A r \in ServerNames : found'[r] \in Listings[r] \union {<<>>}
      BY <2>2 DEF HealthTypeOK
    <3>2. tools' \subseteq discovered' \X ToolNames
      BY <1>1, <2>1, OneServersToolsOnly DEF HealthTypeOK
    <3>3. rejected' \subseteq discovered' \X (ToolNames \union {Whole}) \X Reasons
      BY <1>1, <2>1, OneServersToolsOnly DEF HealthTypeOK
    <3> QED BY <1>1, <3>1, <3>2, <3>3 DEF HealthTypeOK
  <2>4. ToolsAreFound'
    <3>1. ASSUME NEW r \in ServerNames, NEW t \in ToolNames
          PROVE  <<r, t>> \in tools' <=>
                   t \in Allowlist[r] /\ [name |-> t, described |-> TRUE] \in Found(r)'
      <4>1. CASE r = s
        <5>1. <<s, t>> \in tools' <=> <<s, t>> \in NewTools(s, listing)
          BY <1>2, <2>1
        <5>2. Found(s)' = {listing[i] : i \in DOMAIN listing}
          BY <2>2 DEF Found
        <5>3. <<s, t>> \in NewTools(s, listing) <=>
                /\ t \in Allowlist[s]
                /\ [name |-> t, described |-> TRUE] \in {listing[i] : i \in DOMAIN listing}
          BY NewToolsAreUsable
        <5> QED BY <4>1, <5>1, <5>2, <5>3
      <4>2. CASE r # s
        <5>1. <<r, t>> \in tools' <=> <<r, t>> \in tools
          BY <2>1, <4>2, OneServersToolsOnly
        <5>2. Found(r)' = Found(r)
          BY <2>2, <4>2 DEF Found
        <5> QED BY <5>1, <5>2 DEF ToolsAreFound
      <4> QED BY <4>1, <4>2
    <3>2. \A r \in ServerNames : r \notin discovered' => found'[r] = <<>>
      BY <1>1, <2>2 DEF ToolsAreFound
    <3> QED BY <2>2, <3>1, <3>2 DEF ToolsAreFound
  <2>5. AbsencesAreExplained'
    BY <1>1, <2>1, ListingsExplainThemselves DEF AbsencesAreExplained
  <2> QED BY <2>3, <2>4, <2>5
<1>4. CASE ~up[s]
  <2>1. /\ rejected' = rejected \union {<<s, Whole, "discovery_failed">>}
        /\ UNCHANGED <<found, tools>>
    BY <1>4 DEF Discover
  <2>2. HealthTypeOK'
    BY <1>1, <2>1 DEF HealthTypeOK, Reasons
  <2>3. ToolsAreFound'
    BY <1>1, <2>1 DEF ToolsAreFound, Found
  <2>4. AbsencesAreExplained'
    BY <1>1, <2>1 DEF AbsencesAreExplained, Reasons
  <2> QED BY <2>2, <2>3, <2>4
<1> QED BY <1>3, <1>4

-----------------------------------------------------------------------------
(* Health checks                                                           *)

LEMMA ChecksOnlySafe ==
  ASSUME HealthInv, HealthTypeOK', UNCHANGED <<discovered, found, tools, rejected>>
  PROVE  HealthInv'
BY DEF HealthInv, ToolsAreFound, Found, AbsencesAreExplained

LEMMA CheckAllSafe == ASSUME HealthInv, NEW c \in Checkers, CheckAll(c) PROVE HealthInv'
<1>1. /\ phase' = [phase EXCEPT ![c] = "checking"]
      /\ pings' = [pings EXCEPT ![c] = [s \in ServerNames |-> "sent"]]
      /\ UNCHANGED <<up, discovered, found, tools, rejected, status>>
  BY DEF CheckAll
<1>2. pings' \in [Checkers -> [ServerNames -> {"none", "sent", "ok", "failed"}]]
  BY <1>1 DEF HealthInv, HealthTypeOK
<1>3. phase' \in [Checkers -> {"idle", "checking"}]
  BY <1>1 DEF HealthInv, HealthTypeOK
<1>4. \A d \in Checkers : phase'[d] = "idle" => \A s \in ServerNames : pings'[d][s] = "none"
  BY <1>1 DEF HealthInv, HealthTypeOK
<1>5. HealthTypeOK'
  BY <1>1, <1>2, <1>3, <1>4 DEF HealthInv, HealthTypeOK
<1> QED BY <1>1, <1>5, ChecksOnlySafe

(* Answer and RecordHealth change one ping of a checker that is checking.        *)
LEMMA OnePingSafe ==
  ASSUME HealthInv, NEW c \in Checkers, NEW s \in ServerNames,
         NEW ping \in {"none", "ok", "failed"},
         pings[c][s] # "none",
         pings' = [pings EXCEPT ![c][s] = ping],
         status' \in [ServerNames -> Statuses],
         UNCHANGED <<up, discovered, found, tools, rejected, phase>>
  PROVE  HealthInv'
<1>1. pings' \in [Checkers -> [ServerNames -> {"none", "sent", "ok", "failed"}]]
  BY DEF HealthInv, HealthTypeOK
<1>2. phase[c] # "idle"
  BY DEF HealthInv, HealthTypeOK
<1>3. \A d \in Checkers : d # c => pings'[d] = pings[d]
  BY DEF HealthInv, HealthTypeOK
<1>4. \A d \in Checkers : phase'[d] = "idle" => \A r \in ServerNames : pings'[d][r] = "none"
  BY <1>2, <1>3 DEF HealthInv, HealthTypeOK
<1>5. HealthTypeOK'
  BY <1>1, <1>4 DEF HealthInv, HealthTypeOK
<1> QED BY <1>5, ChecksOnlySafe

LEMMA FinishSafe == ASSUME HealthInv, NEW c \in Checkers, Finish(c) PROVE HealthInv'
<1>1. /\ \A s \in ServerNames : pings[c][s] = "none"
      /\ phase' = [phase EXCEPT ![c] = "idle"]
      /\ UNCHANGED <<up, discovered, found, tools, rejected, status, pings>>
  BY DEF Finish, Checked
<1>2. phase' \in [Checkers -> {"idle", "checking"}]
  BY <1>1 DEF HealthInv, HealthTypeOK
<1>3. \A d \in Checkers : phase'[d] = "idle" => \A s \in ServerNames : pings'[d][s] = "none"
  BY <1>1 DEF HealthInv, HealthTypeOK
<1>4. HealthTypeOK'
  BY <1>1, <1>2, <1>3 DEF HealthInv, HealthTypeOK
<1> QED BY <1>1, <1>4, ChecksOnlySafe

-----------------------------------------------------------------------------
LEMMA HealthInvariant == HealthSpec => []HealthInv
<1>1. HealthInit => HealthInv
  <2> SUFFICES ASSUME HealthInit PROVE HealthInv
    OBVIOUS
  <2>1. HealthTypeOK
    BY DEF HealthInit, HealthTypeOK, Statuses
  <2>2. ToolsAreFound
    BY DEF HealthInit, ToolsAreFound, Found
  <2> QED BY <2>1, <2>2 DEF HealthInit, HealthInv, AbsencesAreExplained
<1>2. HealthInv /\ [HealthNext]_healthVars => HealthInv'
  <2> SUFFICES ASSUME HealthInv, [HealthNext]_healthVars PROVE HealthInv'
    OBVIOUS
  <2>1. ASSUME NEW s \in ServerNames, Toggle(s) PROVE HealthInv'
    <3>1. up' \in [ServerNames -> BOOLEAN]
      BY <2>1 DEF Toggle, HealthInv, HealthTypeOK
    <3>2. HealthTypeOK'
      BY <2>1, <3>1 DEF Toggle, HealthInv, HealthTypeOK
    <3> QED BY <2>1, <3>2, ChecksOnlySafe DEF Toggle
  <2>2. ASSUME NEW c \in Checkers, NEW s \in ServerNames, Answer(c, s) PROVE HealthInv'
    BY <2>2, OnePingSafe DEF Answer, HealthInv, HealthTypeOK
  <2>3. ASSUME NEW c \in Checkers, NEW s \in ServerNames, RecordHealth(c, s) PROVE HealthInv'
    <3>1. status' \in [ServerNames -> Statuses]
      BY <2>3 DEF RecordHealth, HealthInv, HealthTypeOK, Statuses
    <3> QED BY <2>3, <3>1, OnePingSafe DEF RecordHealth
  <2>4. CASE UNCHANGED healthVars
    BY <2>4, ChecksOnlySafe DEF healthVars, HealthInv, HealthTypeOK
  <2> QED BY <2>1, <2>2, <2>3, <2>4, DiscoverSafe, CheckAllSafe, FinishSafe DEF HealthNext
<1> QED BY <1>1, <1>2, PTL DEF HealthSpec

(* Checkers that overlap leave every record, ping and reason well formed.  *)
THEOREM HealthTypeCorrect == HealthSpec => []HealthTypeOK
BY HealthInvariant, PTL DEF HealthInv

(* For any configuration and any listings, duplicates and nonsense included,
   startup registers exactly the usable tools of each server it reached.   *)
THEOREM UsableToolsAreRegistered == HealthSpec => []ReachableServersHaveTheirTools
<1>1. HealthInv => ReachableServersHaveTheirTools
  <2> SUFFICES ASSUME HealthInv, NEW s \in ServerNames
               PROVE  {t \in ToolNames : <<s, t>> \in tools}
                        = {t \in Allowlist[s] : [name |-> t, described |-> TRUE] \in Found(s)}
    BY DEF ReachableServersHaveTheirTools
  <2>1. \A t \in Allowlist[s] : t \in ToolNames
    OBVIOUS
  <2> QED BY <2>1 DEF HealthInv, ToolsAreFound
<1> QED BY <1>1, HealthInvariant, PTL

(* No promised tool is missing without a reason.                           *)
THEOREM AbsencesHaveReasons == HealthSpec => []NoToolMissingSilently
<1>1. HealthInv => NoToolMissingSilently
  BY DEF HealthInv, AbsencesAreExplained, NoToolMissingSilently, Started
<1> QED BY <1>1, HealthInvariant, PTL
-----------------------------------------------------------------------------
(* Old answers                                                             *)

(* Checkers that hold an answer the server has since made untrue           *)
Outdated(s) == {c \in Checkers : pings[c][s] = IF up[s] THEN "failed" ELSE "ok"}

Shown(s) == status[s] = IF up[s] THEN "healthy" ELSE "unhealthy"

(* While a server stays as it is, no checker comes to hold an outdated answer
   about it, and only an outdated answer makes a true record untrue.         *)
RecordsSettle ==
  [][\A s \in ServerNames :
       up'[s] = up[s] =>
         /\ Outdated(s)' \subseteq Outdated(s)
         /\ Shown(s) /\ Outdated(s) = {} => Shown(s)']_healthVars

(* The safety half of LastingStateIsShown, for any number of overlapping
   checkers: once the outdated answers are recorded, a record that tells the
   truth goes on telling it until the server changes.                        *)
THEOREM TruthLasts == HealthSpec => RecordsSettle
<1> DEFINE Settles(s) == up'[s] = up[s] =>
              /\ Outdated(s)' \subseteq Outdated(s)
              /\ Shown(s) /\ Outdated(s) = {} => Shown(s)'
<1>1. ASSUME HealthInv, [HealthNext]_healthVars, NEW s \in ServerNames PROVE Settles(s)
  <2> SUFFICES ASSUME up'[s] = up[s]
               PROVE  /\ Outdated(s)' \subseteq Outdated(s)
                      /\ Shown(s) /\ Outdated(s) = {} => Shown(s)'
    OBVIOUS
  <2>t. /\ pings \in [Checkers -> [ServerNames -> {"none", "sent", "ok", "failed"}]]
        /\ status \in [ServerNames -> Statuses] /\ up[s] \in BOOLEAN
    BY <1>1 DEF HealthInv, HealthTypeOK
  <2>1. ASSUME status'[s] = status[s], \A c \in Checkers : pings'[c][s] \in {pings[c][s], "sent", "none"}
        PROVE  Settles(s)
    BY <2>1 DEF Outdated, Shown
  <2>2. ASSUME UNCHANGED <<status, pings>> PROVE Settles(s)
    BY <2>1, <2>2
  <2>3. ASSUME NEW c \in Checkers, CheckAll(c) PROVE Settles(s)
    <3>1. pings' = [pings EXCEPT ![c] = [r \in ServerNames |-> "sent"]] /\ status' = status
      BY <2>3 DEF CheckAll
    <3>2. \A d \in Checkers : pings'[d][s] \in {pings[d][s], "sent", "none"}
      BY <2>t, <3>1
    <3> QED BY <2>1, <3>1, <3>2
  <2>4. ASSUME NEW c \in Checkers, NEW r \in ServerNames, Answer(c, r) PROVE Settles(s)
    <3>1. pings' = [pings EXCEPT ![c][r] = IF up[r] THEN "ok" ELSE "failed"] /\ status' = status
      BY <2>4 DEF Answer
    <3>2. \A d \in Checkers : pings'[d][s] \in {pings[d][s], IF up[s] THEN "ok" ELSE "failed"}
      BY <2>t, <3>1
    <3> QED BY <3>1, <3>2 DEF Outdated, Shown
  <2>5. ASSUME NEW c \in Checkers, NEW r \in ServerNames, RecordHealth(c, r) PROVE Settles(s)
    <3>1. /\ pings[c][r] \in {"ok", "failed"}
          /\ pings' = [pings EXCEPT ![c][r] = "none"]
          /\ status' = [status EXCEPT ![r] = IF pings[c][r] = "ok" THEN "healthy" ELSE "unhealthy"]
      BY <2>5 DEF RecordHealth
    <3>2. \A d \in Checkers : pings'[d][s] \in {pings[d][s], "none"}
      BY <2>t, <3>1
    <3>3. CASE r # s
      BY <2>1, <2>t, <3>1, <3>2, <3>3
    <3>4. CASE r = s
      <4>1. Outdated(s) = {} => pings[c][s] = IF up[s] THEN "ok" ELSE "failed"
        BY <3>1, <3>4 DEF Outdated
      <4>2. status'[s] = IF pings[c][s] = "ok" THEN "healthy" ELSE "unhealthy"
        BY <2>t, <3>1, <3>4
      <4> QED BY <3>2, <4>1, <4>2 DEF Outdated, Shown
    <3> QED BY <3>3, <3>4
  <2>6. CASE UNCHANGED healthVars
    BY <2>2, <2>6 DEF healthVars
  <2>7. ASSUME NEW r \in ServerNames, Toggle(r) \/ Discover(r) PROVE Settles(s)
    BY <2>2, <2>7 DEF Toggle, Discover
  <2>8. ASSUME NEW c \in Checkers, Finish(c) PROVE Settles(s)
    BY <2>2, <2>8 DEF Finish
  <2> QED BY <1>1, <2>3, <2>4, <2>5, <2>6, <2>7, <2>8 DEF HealthNext
<1>2. HealthInv /\ [HealthNext]_healthVars => [\A s \in ServerNames : Settles(s)]_healthVars
  BY <1>1
<1> QED BY <1>2, HealthInvariant, PTL DEF HealthSpec, RecordsSettle
=============================================================================
