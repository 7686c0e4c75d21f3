--------------------------- MODULE CircuitBreaker ---------------------------
(***************************************************************************)
(* The per-server circuit breaker as operators on its record.  The code    *)
(* compares a monotonic clock with _opened_at; here the record counts down *)
(* what is left of the cooldown, and Cool lets one unit of time pass.      *)
(***************************************************************************)
EXTENDS Naturals

CONSTANTS
  FailureThreshold,   \* consecutive failures that open the breaker
  RecoveryTimeout,    \* units of time an open breaker stays open
  HalfOpenMaxCalls    \* probes a half-open breaker lets through

ASSUME BreakerAssumption ==
  /\ FailureThreshold \in Nat \ {0}
  /\ RecoveryTimeout \in Nat
  /\ HalfOpenMaxCalls \in Nat \ {0}

Breaker == [state : {"closed", "open", "half_open"}, failures : Nat,
            cooldown : 0..RecoveryTimeout, probes : 0..HalfOpenMaxCalls]

NewBreaker == [state |-> "closed", failures |-> 0, cooldown |-> 0, probes |-> 0]

Cool(b) == [b EXCEPT !.cooldown = IF @ = 0 THEN 0 ELSE @ - 1]

(* The state property: reading it turns an open breaker whose cooldown is
   over into a half-open one with all its probes free.                     *)
Current(b) ==
  IF b.state = "open" /\ b.cooldown = 0
  THEN [state |-> "half_open", failures |-> b.failures, cooldown |-> 0, probes |-> 0]
  ELSE b

Admits(b) ==
  \/ Current(b).state = "closed"
  \/ Current(b).state = "half_open" /\ Current(b).probes < HalfOpenMaxCalls

(* allow_request: what it leaves behind, whether it admits or not          *)
AfterAllowRequest(b) ==
  IF Admits(b) /\ Current(b).state = "half_open"
  THEN [Current(b) EXCEPT !.probes = @ + 1] ELSE Current(b)

AfterSuccess_countKept(b) == [NewBreaker EXCEPT !.failures = b.failures]

(* record_success: whatever the state, even open, the breaker closes      *)
AfterSuccess(b) == NewBreaker

(* Counting a failure may trip the breaker; the probes taken stay counted
   until the next half-open period.                                        *)
Tripped(b) == [state |-> "open", failures |-> b.failures + 1,
               cooldown |-> RecoveryTimeout, probes |-> b.probes]
Counted(b) == [b EXCEPT !.failures = @ + 1]

AfterFailure_probeNotReopened(b) ==
  IF Current(b).failures + 1 = FailureThreshold
  THEN Tripped(Current(b)) ELSE Counted(Current(b))

(* record_failure: a failed probe reopens at once                          *)
AfterFailure(b) ==
  IF \/ Current(b).state = "half_open"
     \/ Current(b).failures + 1 >= FailureThreshold
  THEN Tripped(Current(b)) ELSE Counted(Current(b))
=============================================================================
