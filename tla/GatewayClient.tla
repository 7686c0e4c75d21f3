--------------------------- MODULE GatewayClient ---------------------------
(***************************************************************************)
(* GatewayClient.call under concurrency: calls from several conversations, *)
(* one circuit breaker per MCP server, the idempotency store with its TTL, *)
(* retries, timeouts, cancelled callers and restarts of the process.       *)
(*                                                                         *)
(* An action runs from one await to the next.  allow_request follows the   *)
(* store lookup without an await in between only for calls without a key;  *)
(* record_success and record_failure run at once when the invocation       *)
(* returns; the put is awaited afterwards.                                 *)
(***************************************************************************)
EXTENDS CircuitBreaker, FiniteSets

CONSTANTS
  Servers,
  Tasks,          \* invocations of GatewayClient.call
  ServerOf,       \* the server each task's tool belongs to
  SideEffecting,  \* tasks whose tool is side_effecting
  Retryable,      \* tasks whose tool policy is retryable
  Keys, NoKey,
  KeyOf,          \* the idempotency_key argument, NoKey for None
  MaxAttempts,    \* max_attempts of the retry loop
  TTL,            \* age after which a stored result no longer counts
  Cancels,        \* may a caller be cancelled?
  Restarts        \* may the process be restarted?

ASSUME GatewayAssumption ==
  /\ ServerOf \in [Tasks -> Servers]
  /\ KeyOf \in [Tasks -> Keys \cup {NoKey}] /\ NoKey \notin Keys
  /\ SideEffecting \subseteq Tasks /\ Retryable \subseteq Tasks
  /\ MaxAttempts \in Nat \ {0} /\ TTL \in Nat
  /\ Cancels \in BOOLEAN /\ Restarts \in BOOLEAN

VARIABLES
  pc,        \* where each call is
  attempt,   \* invocations of the tool made so far
  answer,    \* the ToolResult, by its error code
  probe,     \* ghost: admitted through a half-open breaker
  breaker,   \* the breaker of each server
  store,     \* idempotency_keys: result and age, or Absent
  effects    \* how often the side effect behind each key really happened

taskVars == <<pc, attempt, answer, probe>>
vars     == <<taskVars, breaker, store, effects>>

Failures == {"TIMEOUT", "PROVIDER"}
Results  == {"ok"} \cup Failures
Answers  == Results \cup {"none", "NOT_ALLOWED", "CONFIRMATION_REQUIRED",
                          "CIRCUIT_OPEN", "cancelled"}

Absent == [res |-> "none", age |-> 0]
Rows   == [res : Results, age : 0..(TTL + 1)] \cup {Absent}

TypeOK ==
  /\ pc \in [Tasks -> {"idle", "lookup", "expire", "admit", "invoke",
                       "backoff", "put", "done"}]
  /\ attempt \in [Tasks -> 0..MaxAttempts]
  /\ answer \in [Tasks -> Answers]
  /\ probe \in [Tasks -> BOOLEAN]
  /\ breaker \in [Servers -> Breaker]
  /\ store \in [Keys -> Rows]
  /\ effects \in [Keys -> Nat]

Init ==
  /\ pc = [t \in Tasks |-> "idle"]
  /\ attempt = [t \in Tasks |-> 0]
  /\ answer = [t \in Tasks |-> "none"]
  /\ probe = [t \in Tasks |-> FALSE]
  /\ breaker = [s \in Servers |-> NewBreaker]
  /\ store = [k \in Keys |-> Absent]
  /\ effects = [k \in Keys |-> 0]

Goto(t, where) == pc' = [pc EXCEPT ![t] = where]

Return(t, res) ==
  /\ Goto(t, "done")
  /\ answer' = [answer EXCEPT ![t] = res]

Keyed(t) == t \in SideEffecting /\ KeyOf[t] # NoKey

InFlight(t) == pc[t] \in {"lookup", "expire", "admit", "invoke", "backoff", "put"}

-----------------------------------------------------------------------------

BreakerFor_shared(t) == CHOOSE s \in Servers : TRUE

BreakerFor(t) == ServerOf[t]

(* The breaker check and, if it passes, the start of the first attempt     *)
Admission(t) ==
  LET s == BreakerFor(t)
  IN  /\ breaker' = [breaker EXCEPT ![s] = AfterAllowRequest(@)]
      /\ IF Admits(breaker[s])
         THEN /\ Goto(t, "invoke")
              /\ attempt' = [attempt EXCEPT ![t] = 1]
              /\ probe' = [probe EXCEPT ![t] = Current(breaker[s]).state = "half_open"]
              /\ UNCHANGED answer
         ELSE /\ Return(t, "CIRCUIT_OPEN")
              /\ UNCHANGED <<attempt, probe>>

(* The tool is not in the registry, or it is a write nobody confirmed      *)
CallRefused(t) ==
  /\ pc[t] = "idle"
  /\ \/ Return(t, "NOT_ALLOWED")
     \/ t \in SideEffecting /\ Return(t, "CONFIRMATION_REQUIRED")
  /\ UNCHANGED <<attempt, probe, breaker, store, effects>>

Call(t) ==
  /\ pc[t] = "idle"
  /\ IF Keyed(t)
     THEN Goto(t, "lookup") /\ UNCHANGED <<attempt, answer, probe, breaker>>
     ELSE Admission(t)
  /\ UNCHANGED <<store, effects>>

Expired(row) == row.age > TTL

(* IdempotencyStore.get: the SELECT and what its row decides               *)
Lookup(t) ==
  LET row == store[KeyOf[t]]
  IN  /\ pc[t] = "lookup"
      /\ IF row = Absent THEN Goto(t, "admit") /\ UNCHANGED answer
         ELSE IF Expired(row) THEN Goto(t, "expire") /\ UNCHANGED answer
         ELSE Return(t, row.res)
      /\ UNCHANGED <<attempt, probe, breaker, store, effects>>

Removed(t) == [store EXCEPT ![KeyOf[t]] = Absent]

(* The DELETE of an expired row names only the key: it also removes a fresh
   row that another call has put since the SELECT.                         *)
Expire(t) ==
  /\ pc[t] = "expire"
  /\ store' = Removed(t)
  /\ Goto(t, "admit")
  /\ UNCHANGED <<attempt, answer, probe, breaker, effects>>

Admit(t) ==
  /\ pc[t] = "admit"
  /\ Admission(t)
  /\ UNCHANGED <<store, effects>>

(* What the write server may have done by the time the call returns, times
   out or is abandoned                                                     *)
MaybePerformed(t) ==
  IF Keyed(t)
  THEN \E n \in {0, 1} : effects' = [effects EXCEPT ![KeyOf[t]] = @ + n]
  ELSE UNCHANGED effects

RetriesLeft_writesToo(t) == attempt[t] < MaxAttempts

RetriesLeft_offByOne(t) == t \in Retryable /\ attempt[t] <= MaxAttempts

RetriesLeft(t) == t \in Retryable /\ attempt[t] < MaxAttempts

Record(t, res) ==
  breaker' = [breaker EXCEPT ![BreakerFor(t)] =
                IF res = "ok" THEN AfterSuccess(@) ELSE AfterFailure(@)]

(* One attempt under wait_for comes back: sleep and try again, or report to
   the breaker and hand the result on                                      *)
Invoke(t) ==
  /\ pc[t] = "invoke"
  /\ MaybePerformed(t)
  /\ \E res \in Results :
       IF res \in Failures /\ RetriesLeft(t)
       THEN Goto(t, "backoff") /\ UNCHANGED <<answer, breaker>>
       ELSE /\ Record(t, res)
            /\ IF Keyed(t)
               THEN Goto(t, "put") /\ answer' = [answer EXCEPT ![t] = res]
               ELSE Return(t, res)
  /\ UNCHANGED <<attempt, probe, store>>

Retry_notCounted(t) ==
  /\ pc[t] = "backoff"
  /\ Goto(t, "invoke")
  /\ UNCHANGED <<attempt, answer, probe, breaker, store, effects>>

Retry(t) ==
  /\ pc[t] = "backoff"
  /\ Goto(t, "invoke")
  /\ attempt' = [attempt EXCEPT ![t] = @ + 1]
  /\ UNCHANGED <<answer, probe, breaker, store, effects>>

Put_assumesOk(t) ==
  /\ pc[t] = "put"
  /\ store' = [store EXCEPT ![KeyOf[t]] = [res |-> "ok", age |-> 0]]
  /\ Goto(t, "done")
  /\ UNCHANGED <<attempt, answer, probe, breaker, effects>>

(* Successes and failures alike are stored                                 *)
Stored(t) == [store EXCEPT ![KeyOf[t]] = [res |-> answer[t], age |-> 0]]

Put(t) ==
  /\ pc[t] = "put"
  /\ store' = Stored(t)
  /\ Goto(t, "done")
  /\ UNCHANGED <<attempt, answer, probe, breaker, effects>>

-----------------------------------------------------------------------------

(* The caller is cancelled (its client went away): CancelledError passes
   through every "except Exception", so nothing is recorded; a commit that
   was under way may or may not reach the file.                            *)
Cancel(t) ==
  /\ Cancels
  /\ InFlight(t)
  /\ Return(t, "cancelled")
  /\ IF pc[t] = "invoke" THEN MaybePerformed(t) ELSE UNCHANGED effects
  /\ \/ UNCHANGED store
     \/ pc[t] = "expire" /\ store' = Removed(t)
     \/ pc[t] = "put" /\ store' = Stored(t)
  /\ UNCHANGED <<attempt, probe, breaker>>

Purged(rows) == [k \in Keys |-> IF Expired(rows[k]) THEN Absent ELSE rows[k]]

(* The process dies; the next one starts with new breakers and runs
   purge_expired                                                           *)
Restart ==
  /\ Restarts
  /\ \E t \in Tasks : InFlight(t)
  /\ pc' = [t \in Tasks |-> IF InFlight(t) THEN "done" ELSE pc[t]]
  /\ answer' = [t \in Tasks |-> IF InFlight(t) THEN "cancelled" ELSE answer[t]]
  /\ breaker' = [s \in Servers |-> NewBreaker]
  /\ store' = Purged(store)
  /\ UNCHANGED <<attempt, probe, effects>>

(* breaker_snapshot (readyz, admin) reads the state property too           *)
Observe(s) ==
  /\ breaker' = [breaker EXCEPT ![s] = Current(@)]
  /\ breaker' # breaker
  /\ UNCHANGED <<taskVars, store, effects>>

Aged(row) ==
  IF row = Absent \/ Expired(row) THEN row ELSE [row EXCEPT !.age = @ + 1]

Tick ==
  /\ breaker' = [s \in Servers |-> Cool(breaker[s])]
  /\ store' = [k \in Keys |-> Aged(store[k])]
  /\ <<breaker, store>>' # <<breaker, store>>
  /\ UNCHANGED <<taskVars, effects>>

Proceed(t) ==
  Lookup(t) \/ Expire(t) \/ Admit(t) \/ Invoke(t) \/ Retry(t) \/ Put(t)

Next ==
  \/ \E t \in Tasks : CallRefused(t) \/ Call(t) \/ Proceed(t) \/ Cancel(t)
  \/ \E s \in Servers : Observe(s)
  \/ Restart
  \/ Tick

Spec == Init /\ [][Next]_vars

(* Time passes, and wait_for bounds every attempt: a call that was started
   goes on.  Nobody has to call, cancel or look at the breakers.           *)
FairSpec == Spec /\ WF_vars(Tick) /\ \A t \in Tasks : WF_vars(Proceed(t))

-----------------------------------------------------------------------------
(* Properties                                                              *)

(* The breaker's state and its counter never disagree: it is closed exactly
   while fewer than failure_threshold consecutive failures were recorded,
   whatever late answers, probes and restarts are interleaved.             *)
ClosedIffBelowThreshold ==
  \A s \in Servers :
    breaker[s].state = "closed" <=> breaker[s].failures < FailureThreshold

(* No more half-open slots are taken than probes still run, with a
   record_success or record_failure ahead of them: a slot is lost only where
   callers may be cancelled, and to a cancelled one.                       *)
ProbesOf(s) ==
  {t \in Tasks : /\ ServerOf[t] = s /\ probe[t]
                 /\ \/ pc[t] \in {"invoke", "backoff"}
                    \/ Cancels /\ answer[t] = "cancelled"}

SlotsHeldByProbes ==
  \A s \in Servers :
    breaker[s].state = "half_open"
      => breaker[s].probes <= Cardinality(ProbesOf(s))

(* One failing server does not take the others down: a call is answered
   CIRCUIT_OPEN only after failure_threshold calls of the same server were
   really invoked and failed (or, with a key, were cancelled before their
   failure was handed on).                                                 *)
Failed(t) == \/ answer[t] \in Failures
             \/ Keyed(t) /\ answer[t] = "cancelled"

FailedOn(s) == {t \in Tasks : ServerOf[t] = s /\ attempt[t] > 0 /\ Failed(t)}

RefusalHasCause ==
  \A t \in Tasks :
    answer[t] = "CIRCUIT_OPEN"
      => Cardinality(FailedOn(ServerOf[t])) >= FailureThreshold

(* A replayed result is the result of an invocation: some call with the
   same key was invoked and got that very answer, or was cancelled before
   it could hand it on.                                                    *)
ReplayHasOriginal ==
  \A t \in Tasks :
    Keyed(t) /\ answer[t] \in Results /\ attempt[t] = 0
      => \E u \in Tasks : /\ Keyed(u) /\ KeyOf[u] = KeyOf[t]
                          /\ attempt[u] > 0
                          /\ answer[u] \in {answer[t], "cancelled"}

(* A side effect happens at most once per invoked call with its key: the
   retry loop never repeats a write.                                       *)
WriteEffectsHaveCalls ==
  \A k \in Keys :
    effects[k] <= Cardinality({t \in Tasks : Keyed(t) /\ KeyOf[t] = k
                                             /\ attempt[t] > 0})

Refuses(s) == ~Admits(breaker[s])

(* A breaker that refuses calls comes to admit one again: the cooldown
   ends, the probe reports.                                                *)
Recovers == \A s \in Servers : Refuses(s) ~> ~Refuses(s)

EveryCallReturns == \A t \in Tasks : InFlight(t) ~> pc[t] = "done"

(* A keyed call as KeyedCall sees it: a row past its TTL is one not kept,
   and a call is at its attempt from the moment the lookup found nothing.  *)
KeyedCalls == {t \in Tasks : Keyed(t)}

Where(t) ==
  IF pc[t] \in {"lookup", "put"} THEN pc[t]
  ELSE IF pc[t] \in {"expire", "admit", "invoke", "backoff"} THEN "invoke"
  ELSE IF pc[t] = "idle" THEN "idle"
  ELSE IF answer[t] = "cancelled" THEN "over"
  ELSE "answered"

CalledWith(t) == IF Where(t) = "idle" THEN NoKey ELSE KeyOf[t]

HeldBy(t) == IF Where(t) \in {"put", "answered"} THEN answer[t] ELSE "none"

KeptFor(k) == IF Expired(store[k]) THEN "none" ELSE store[k].res

Promise == INSTANCE KeyedCall WITH
  Callers <- KeyedCalls,
  Denials <- {"NOT_ALLOWED", "CONFIRMATION_REQUIRED"},
  Refusals <- {"CIRCUIT_OPEN"},
  CanForget <- TRUE,
  at <- [t \in KeyedCalls |-> Where(t)],
  key <- [t \in KeyedCalls |-> CalledWith(t)],
  got <- [t \in KeyedCalls |-> HeldBy(t)],
  kept <- [k \in Keys |-> KeptFor(k)],
  performed <- effects

(* Whatever overlaps, expires, is cancelled or restarted: a keyed call is
   answered by the kept result, a refusal or one attempt of its own, and
   only the result of such an attempt is ever kept.                        *)
ImplementsKeyedCall == Promise!KeyedSpec
=============================================================================
