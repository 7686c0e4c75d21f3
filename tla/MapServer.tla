----------------------------- MODULE MapServer ------------------------------
(***************************************************************************)
(* geocode and reverse_geocode of the Map MCP server, which share one      *)
(* throttle in front of Nominatim.  The clock is kept as ages: the time    *)
(* since _last_request_at, and what is left of a sleep.                    *)
(***************************************************************************)
EXTENDS Naturals

CONSTANTS
  MapCalls,        \* calls of either tool
  MinInterval,     \* MIN_INTERVAL_S, in ticks
  MapTimeout       \* REQUEST_TIMEOUT_S, in ticks: of one phase of a request

ASSUME MapServerAssumption == MinInterval \in Nat /\ MapTimeout \in Nat

VARIABLES
  lookup,      \* what each call is doing, or how it ended
  sinceLast,   \* age of _last_request_at, up to MinInterval
  rest,        \* what is left of a call's sleep
  asked,       \* age of the request under way, up to MapTimeout
  sinceSent    \* history: time since a call sent its request, up to MinInterval

mapVars == <<lookup, sinceLast, rest, asked, sinceSent>>

Holding == {"sleeping", "asking"}   \* the throttle lock
MapAnswers == {"ok", "validation", "provider", "raised"}
MapEnded == MapAnswers \union {"timeout", "transport", "cancelled"}

MapTypeOK ==
  /\ lookup \in [MapCalls -> {"idle", "waiting"} \union Holding \union MapEnded]
  /\ sinceLast \in 0..MinInterval
  /\ rest \in [MapCalls -> 0..MinInterval]
  /\ asked \in [MapCalls -> 0..MapTimeout]
  /\ sinceSent \in [MapCalls -> 0..MinInterval]

(* The module starts with _last_request_at = 0.0 on a clock that may have
   just started itself.                                                    *)
MapInit ==
  /\ lookup = [c \in MapCalls |-> "idle"]
  /\ sinceLast \in 0..MinInterval
  /\ rest = [c \in MapCalls |-> 0]
  /\ asked = [c \in MapCalls |-> 0]
  /\ sinceSent = [c \in MapCalls |-> MinInterval]

Geocode(c) ==
  /\ lookup[c] = "idle"
  /\ lookup' = [lookup EXCEPT ![c] = "waiting"]
  /\ UNCHANGED <<sinceLast, rest, asked, sinceSent>>

Free_whileAsleep == \A d \in MapCalls : lookup[d] # "asking"

Free == \A d \in MapCalls : lookup[d] \notin Holding

(* A sleep is reckoned once, when the lock is taken.                       *)
Throttle(c) ==
  /\ lookup[c] = "waiting"
  /\ Free
  /\ lookup' = [lookup EXCEPT ![c] = IF sinceLast < MinInterval THEN "sleeping" ELSE "asking"]
  /\ rest' = [rest EXCEPT ![c] = MinInterval - sinceLast]
  /\ sinceSent' = IF sinceLast < MinInterval THEN sinceSent ELSE [sinceSent EXCEPT ![c] = 0]
  /\ UNCHANGED <<sinceLast, asked>>

Wake(c) ==
  /\ lookup[c] = "sleeping"
  /\ rest[c] = 0
  /\ lookup' = [lookup EXCEPT ![c] = "asking"]
  /\ sinceSent' = [sinceSent EXCEPT ![c] = 0]
  /\ UNCHANGED <<sinceLast, rest, asked>>

(* Any response counts as a request: a 5xx, a 4xx, an empty result and one
   that is no JSON, too.                                                   *)
Answered(c) ==
  /\ lookup[c] = "asking"
  /\ \E outcome \in MapAnswers : lookup' = [lookup EXCEPT ![c] = outcome]
  /\ sinceLast' = 0
  /\ asked' = [asked EXCEPT ![c] = 0]
  /\ UNCHANGED <<rest, sinceSent>>

(* An exception releases the lock and leaves _last_request_at alone.       *)
Unanswered(c) ==
  /\ lookup[c] = "asking"
  /\ \/ asked[c] = MapTimeout /\ lookup' = [lookup EXCEPT ![c] = "timeout"]
     \/ lookup' = [lookup EXCEPT ![c] = "transport"]
  /\ asked' = [asked EXCEPT ![c] = 0]
  /\ UNCHANGED <<sinceLast, rest, sinceSent>>

(* The caller's session ends before the call does.                         *)
Cancel(c) ==
  /\ lookup[c] \in {"waiting"} \union Holding
  /\ lookup' = [lookup EXCEPT ![c] = "cancelled"]
  /\ rest' = [rest EXCEPT ![c] = 0]
  /\ asked' = [asked EXCEPT ![c] = 0]
  /\ UNCHANGED <<sinceLast, sinceSent>>

Older(age, cap) == IF age < cap THEN age + 1 ELSE cap

MapTick ==
  /\ sinceLast' = Older(sinceLast, MinInterval)
  /\ rest' = [c \in MapCalls |-> IF rest[c] > 0 THEN rest[c] - 1 ELSE 0]
  /\ asked' = [c \in MapCalls |->
                 IF lookup[c] = "asking" THEN Older(asked[c], MapTimeout) ELSE 0]
  /\ sinceSent' = [c \in MapCalls |-> Older(sinceSent[c], MinInterval)]
  /\ UNCHANGED lookup

MapStep(c) ==
  \/ Geocode(c) \/ Throttle(c) \/ Wake(c)
  \/ Answered(c) \/ Unanswered(c) \/ Cancel(c)

MapNext == MapTick \/ \E c \in MapCalls : MapStep(c)

MapSpec == MapInit /\ [][MapNext]_mapVars

-----------------------------------------------------------------------------
(* Whoever queued, slept or was cancelled in between, a request to Nominatim
   is sent while no other is under way and MinInterval or more after every
   earlier one that was answered, whatever the answer was.                 *)
AnsweredRequestsAreSpaced ==
  [][\A c \in MapCalls : lookup[c] # "asking" /\ lookup'[c] = "asking" =>
       \A d \in MapCalls :
         /\ lookup[d] # "asking"
         /\ lookup[d] \in MapAnswers => sinceSent[d] = MinInterval]_mapVars

(* What map_server.py:7-8 says the throttle ensures: no two requests, answered
   or not, are sent less than MinInterval apart.                           *)
RequestsAreSpaced ==
  [][\A c \in MapCalls : lookup[c] # "asking" /\ lookup'[c] = "asking" =>
       \A d \in MapCalls \ {c} : sinceSent[d] = MinInterval]_mapVars
=============================================================================
