--------------------------- MODULE WeatherServer ----------------------------
(***************************************************************************)
(* query_weather of the Weather MCP server under the gateway's attempts    *)
(* and timeout: attempts at OpenWeather nested in attempts of the gateway, *)
(* and a cache in each server process that ends with the process, which    *)
(* may serve one session or many.  The gateway takes any answer of the     *)
(* tool for a success, {"ok": false} included, and tries again only after  *)
(* its own timeout or an exception.                                        *)
(***************************************************************************)
EXTENDS Naturals

CONSTANTS
  Queries,           \* calls of the tool, as the agent makes them
  Cities,
  CityOf,            \* the city a query names
  WeatherProcesses,
  TTL,               \* lifetime of a cache entry, in ticks
  MaxAttempts,       \* MAX_ATTEMPTS of the server
  GatewayAttempts,   \* max_attempts of _invoke_with_policy
  WeatherTimeout,    \* both REQUEST_TIMEOUT_S and the policy's timeout_s
  FirstPause,        \* backoff_s before the second attempt
  LongestPause       \* what backoff_s is capped at

ASSUME WeatherAssumption ==
  /\ CityOf \in [Queries -> Cities]
  /\ TTL \in Nat \ {0}
  /\ MaxAttempts \in Nat \ {0}
  /\ GatewayAttempts \in Nat \ {0}
  /\ WeatherTimeout \in Nat \ {0}
  /\ LongestPause \in Nat
  /\ FirstPause \in 0..LongestPause

VARIABLES
  query,     \* idle, asking, backing off, or how the query ended
  process,   \* the process that serves its latest attempt
  inner,     \* requests to OpenWeather in this attempt
  tries,     \* attempts of the gateway
  clock,     \* time since the attempt began
  backoff,   \* backoff_s: the length of the gateway's next sleep
  nap,       \* what is left of the one under way
  cache,     \* what is left of the lifetime of each entry; 0 is no entry
  requests,  \* history: requests to OpenWeather of the whole query
  spent      \* history: time since the query began, asleep or asking

weatherVars == <<query, process, inner, tries, clock, backoff, nap, cache, requests, spent>>

QueryEnded == {"ok", "cached", "error", "failed"}

WeatherTypeOK ==
  /\ query \in [Queries -> {"idle", "asking", "backoff"} \union QueryEnded]
  /\ process \in [Queries -> WeatherProcesses]
  /\ inner \in [Queries -> 0..MaxAttempts]
  /\ tries \in [Queries -> 0..GatewayAttempts]
  /\ clock \in [Queries -> 0..WeatherTimeout]
  /\ cache \in [WeatherProcesses -> [Cities -> 0..TTL]]
  /\ backoff \in [Queries -> 0..LongestPause]
  /\ nap \in [Queries -> 0..LongestPause]
  /\ requests \in [Queries -> Nat]
  /\ spent \in [Queries -> Nat]

WeatherInit ==
  /\ query = [q \in Queries |-> "idle"]
  /\ process \in {[q \in Queries |-> p] : p \in WeatherProcesses}
  /\ inner = [q \in Queries |-> 0]
  /\ tries = [q \in Queries |-> 0]
  /\ clock = [q \in Queries |-> 0]
  /\ cache = [p \in WeatherProcesses |-> [c \in Cities |-> 0]]
  /\ backoff = [q \in Queries |-> FirstPause]
  /\ nap = [q \in Queries |-> 0]
  /\ requests = [q \in Queries |-> 0]
  /\ spent = [q \in Queries |-> 0]

(* TTLCache.get                                                            *)
Cached(p, city) == cache[p][city] > 0

Doubled(q) == IF 2 * backoff[q] < LongestPause THEN 2 * backoff[q] ELSE LongestPause

(* One attempt of the gateway, the first or the one after a sleep: a cache
   hit answers at once, otherwise the first request goes out.              *)
Attempt(q) ==
  /\ query[q] = "idle" \/ (query[q] = "backoff" /\ nap[q] = 0)
  /\ backoff' = IF query[q] = "backoff" THEN [backoff EXCEPT ![q] = Doubled(q)] ELSE backoff
  /\ \E p \in WeatherProcesses :
       /\ process' = [process EXCEPT ![q] = p]
       /\ IF Cached(p, CityOf[q])
          THEN query' = [query EXCEPT ![q] = "cached"] /\ UNCHANGED <<inner, requests>>
          ELSE /\ query' = [query EXCEPT ![q] = "asking"]
               /\ inner' = [inner EXCEPT ![q] = 1]
               /\ requests' = [requests EXCEPT ![q] = @ + 1]
  /\ tries' = [tries EXCEPT ![q] = @ + 1]
  /\ clock' = [clock EXCEPT ![q] = 0]
  /\ UNCHANGED <<nap, cache, spent>>

(* No OPENWEATHER_API_KEY in the server's environment.                     *)
Unconfigured(q) ==
  /\ query[q] = "idle"
  /\ query' = [query EXCEPT ![q] = "error"]
  /\ UNCHANGED <<process, inner, tries, clock, backoff, nap, cache, requests, spent>>

Answers(q) ==
  LET p == process[q] IN
  /\ query[q] = "asking"
  /\ query' = [query EXCEPT ![q] = "ok"]
  /\ cache' = [cache EXCEPT ![p][CityOf[q]] = TTL]
  /\ UNCHANGED <<process, inner, tries, clock, backoff, nap, requests, spent>>

(* A 4xx is an answer like any other to the gateway.                       *)
Rejects(q) ==
  /\ query[q] = "asking"
  /\ query' = [query EXCEPT ![q] = "error"]
  /\ UNCHANGED <<process, inner, tries, clock, backoff, nap, cache, requests, spent>>

(* A timeout, a transport error or a 5xx: tried again at once, and the last
   one is the tool's answer.                                               *)
Fails(q) ==
  /\ query[q] = "asking"
  /\ IF inner[q] < MaxAttempts
     THEN /\ inner' = [inner EXCEPT ![q] = @ + 1]
          /\ requests' = [requests EXCEPT ![q] = @ + 1]
          /\ UNCHANGED query
     ELSE query' = [query EXCEPT ![q] = "error"] /\ UNCHANGED <<inner, requests>>
  /\ UNCHANGED <<process, tries, clock, backoff, nap, cache, spent>>

AfterFailure_forever(q) == "backoff"

AfterFailure(q) == IF tries[q] < GatewayAttempts THEN "backoff" ELSE "failed"

NapAfter(q) == IF AfterFailure(q) = "backoff" THEN backoff[q] ELSE 0

(* wait_for cuts the attempt off wherever it is, or the tool raises, on a
   200 that is no JSON.                                                    *)
AttemptFails(q) ==
  /\ query[q] = "asking"
  /\ query' = [query EXCEPT ![q] = AfterFailure(q)]
  /\ nap' = [nap EXCEPT ![q] = NapAfter(q)]
  /\ UNCHANGED <<process, inner, tries, clock, backoff, cache, requests, spent>>

(* A session's process ends with the session, or under its calls.          *)
EndWeather(p) ==
  LET cut == {q \in Queries : query[q] = "asking" /\ process[q] = p} IN
  /\ query' = [q \in Queries |-> IF q \in cut THEN AfterFailure(q) ELSE query[q]]
  /\ nap' = [q \in Queries |-> IF q \in cut THEN NapAfter(q) ELSE nap[q]]
  /\ cache' = [cache EXCEPT ![p] = [c \in Cities |-> 0]]
  /\ UNCHANGED <<process, inner, tries, clock, backoff, requests, spent>>

(* No attempt outlasts its timeout, no sleep its length: time stands still
   until it is cut off or woken.                                           *)
WeatherTick ==
  /\ \A q \in Queries : /\ query[q] = "asking" => clock[q] < WeatherTimeout
                        /\ query[q] = "backoff" => nap[q] > 0
  /\ clock' = [q \in Queries |-> IF query[q] = "asking" THEN clock[q] + 1 ELSE clock[q]]
  /\ nap' = [q \in Queries |-> IF query[q] = "backoff" THEN nap[q] - 1 ELSE nap[q]]
  /\ spent' = [q \in Queries |->
                 IF query[q] \in {"asking", "backoff"} THEN spent[q] + 1 ELSE spent[q]]
  /\ cache' = [p \in WeatherProcesses |-> [c \in Cities |->
                 IF cache[p][c] > 0 THEN cache[p][c] - 1 ELSE 0]]
  /\ UNCHANGED <<query, process, inner, tries, backoff, requests>>

QueryStep(q) ==
  \/ Attempt(q) \/ Unconfigured(q) \/ Answers(q)
  \/ Rejects(q) \/ Fails(q) \/ AttemptFails(q)

WeatherNext ==
  \/ WeatherTick
  \/ \E q \in Queries : QueryStep(q)
  \/ \E p \in WeatherProcesses : EndWeather(p)

WeatherSpec == WeatherInit /\ [][WeatherNext]_weatherVars

-----------------------------------------------------------------------------
(* The attempts nest without multiplying in time: a query is over within
   GatewayAttempts timeouts and the sleeps between them, whatever the server
   retries inside, sends at most MaxAttempts requests per attempt and gives
   up only after the last attempt.                                         *)
RetriesAreBounded ==
  \A q \in Queries :
    /\ spent[q] <= GatewayAttempts * WeatherTimeout + (GatewayAttempts - 1) * LongestPause
    /\ requests[q] <= tries[q] * MaxAttempts
    /\ query[q] = "failed" => tries[q] = GatewayAttempts
=============================================================================
