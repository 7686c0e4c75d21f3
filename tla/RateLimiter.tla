---------------------------- MODULE RateLimiter -----------------------------
(***************************************************************************)
(* The token buckets behind rate_limited_user, one per user and process.   *)
(* Tokens are counted in units so small that both the refill of one tick   *)
(* and the price of a request are whole numbers; the rounding of Python    *)
(* floats is left out.  check runs without an await: it is one step.       *)
(***************************************************************************)
EXTENDS Naturals

CONSTANTS
  Users,
  Capacity,  \* units in a full bucket
  Price,     \* units one request takes
  Refill,    \* units that come back per tick
  MaxTime    \* bound: ticks of the monotonic clock

ASSUME LimiterAssumption ==
  /\ Capacity \in Nat
  /\ Price \in Nat \ {0}
  /\ Refill \in Nat
  /\ MaxTime \in Nat

Times == 0..MaxTime

VARIABLES
  now,
  buckets,   \* _buckets: the users seen, each with tokens and last_refill
  answer,    \* what the user's latest request got
  admitted   \* history: requests of the user let through at time t or later

vars == <<now, buckets, answer, admitted>>

Absent == [tokens |-> 0, last_refill |-> 0, known |-> FALSE]
Bucket == [tokens : 0..Capacity, last_refill : Times, known : BOOLEAN]

TypeOK ==
  /\ now \in Times
  /\ buckets \in [Users -> Bucket]
  /\ \A u \in Users : buckets[u].last_refill <= now
  /\ answer \in [Users -> {"none", "ok", "429"}]
  /\ admitted \in [Users -> [Times -> Nat]]

Init ==
  /\ now = 0
  /\ buckets = [u \in Users |-> Absent]
  /\ answer = [u \in Users |-> "none"]
  /\ admitted = [u \in Users |-> [t \in Times |-> 0]]

BucketFor_shared(u) ==
  IF \E v \in Users : buckets[v].known
  THEN buckets[CHOOSE v \in Users : buckets[v].known]
  ELSE [tokens |-> Capacity, last_refill |-> now, known |-> TRUE]

(* _bucket_for: a user's first request finds a full bucket                 *)
BucketFor(u) ==
  IF buckets[u].known THEN buckets[u]
  ELSE [tokens |-> Capacity, last_refill |-> now, known |-> TRUE]

Smaller(m, n) == IF m <= n THEN m ELSE n

Refilled_uncapped(b) ==
  [b EXCEPT !.tokens = @ + (now - b.last_refill) * Refill, !.last_refill = now]

Refilled_clockKept(b) ==
  [b EXCEPT !.tokens = Smaller(Capacity, @ + (now - b.last_refill) * Refill)]

Refilled(b) ==
  [b EXCEPT !.tokens = Smaller(Capacity, @ + (now - b.last_refill) * Refill),
            !.last_refill = now]

(* try_consume refills first; a refusal takes nothing.                     *)
Admit(u) ==
  LET b == Refilled(BucketFor(u)) IN
  /\ b.tokens >= Price
  /\ buckets' = [buckets EXCEPT ![u] = [b EXCEPT !.tokens = @ - Price]]
  /\ answer' = [answer EXCEPT ![u] = "ok"]
  /\ admitted' = [admitted EXCEPT ![u] =
                    [t \in Times |-> IF t <= now THEN @[t] + 1 ELSE @[t]]]
  /\ UNCHANGED now

Refuse(u) ==
  LET b == Refilled(BucketFor(u)) IN
  /\ b.tokens < Price
  /\ buckets' = [buckets EXCEPT ![u] = b]
  /\ answer' = [answer EXCEPT ![u] = "429"]
  /\ UNCHANGED <<now, admitted>>

Tick ==
  /\ now < MaxTime
  /\ now' = now + 1
  /\ UNCHANGED <<buckets, answer, admitted>>

Next ==
  \/ \E u \in Users : Admit(u) \/ Refuse(u)
  \/ Tick

Spec == Init /\ [][Next]_vars

-----------------------------------------------------------------------------
(* Over every stretch of time up to now, a user got at most one full bucket
   of requests plus what was refilled meanwhile, however the requests are
   spread, refusals and idle times between them included.                  *)
WindowBound ==
  \A u \in Users : \A t \in 0..now :
    Price * admitted[u][t] <= Capacity + Refill * (now - t)

(* And no less: a 429 is given only if one more request would have broken
   that bound for some stretch that ends at the refusal.  Other users'
   requests cannot bring it about.                                         *)
RefusalIsNeeded ==
  \A u \in Users : answer[u] = "429" =>
    \E t \in 0..buckets[u].last_refill :
      Price * (admitted[u][t] + 1) > Capacity + Refill * (buckets[u].last_refill - t)
=============================================================================
