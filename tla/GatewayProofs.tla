--------------------------- MODULE GatewayProofs ---------------------------
(* The breaker and the gateway around it, for any servers, tasks and limits *)
EXTENDS GatewayClient, FiniteSetTheorems, TLAPS

-----------------------------------------------------------------------------
(* The breaker's operators                                                 *)

Consistent(b) == b.state = "closed" <=> b.failures < FailureThreshold

LEMMA NewBreakerGood == NewBreaker \in Breaker /\ Consistent(NewBreaker)
  BY BreakerAssumption DEF NewBreaker, Breaker, Consistent

LEMMA CurrentGood ==
  ASSUME NEW b \in Breaker, Consistent(b)
  PROVE  Current(b) \in Breaker /\ Consistent(Current(b))
  BY BreakerAssumption DEF Current, Breaker, Consistent

LEMMA CoolGood ==
  ASSUME NEW b \in Breaker, Consistent(b)
  PROVE  /\ Cool(b) \in Breaker /\ Consistent(Cool(b))
         /\ Cool(b).state = b.state /\ Cool(b).probes = b.probes
  BY BreakerAssumption DEF Cool, Breaker, Consistent

(* An admission leaves a good breaker; if it leaves it half-open with a slot
   taken, then this very call took it or the slot was taken before.        *)
LEMMA AllowRequestGood ==
  ASSUME NEW b \in Breaker, Consistent(b)
  PROVE  /\ AfterAllowRequest(b) \in Breaker /\ Consistent(AfterAllowRequest(b))
         /\ AfterAllowRequest(b).state = "half_open" /\ AfterAllowRequest(b).probes > 0
              => \/ Admits(b) /\ Current(b).state = "half_open"
                 \/ b.state = "half_open" /\ b.probes > 0
<1>1. CASE Admits(b) /\ Current(b).state = "half_open"
  <2> DEFINE c == Current(b)
  <2>1. c \in Breaker /\ Consistent(c) /\ c.state = "half_open"
        /\ c.probes < HalfOpenMaxCalls
    BY <1>1, CurrentGood DEF Admits
  <2>2. AfterAllowRequest(b) = [c EXCEPT !.probes = @ + 1]
    BY <1>1 DEF AfterAllowRequest
  <2> HIDE DEF c
  <2> QED BY <1>1, <2>1, <2>2, BreakerAssumption DEF Breaker, Consistent
<1>2. CASE ~(Admits(b) /\ Current(b).state = "half_open")
  <2>1. AfterAllowRequest(b) = Current(b)
    BY <1>2 DEF AfterAllowRequest
  <2> QED BY <2>1, CurrentGood DEF Current, Breaker
<1> QED BY <1>1, <1>2

(* A recorded failure leaves the breaker closed or open, never half-open   *)
LEMMA FailureGood ==
  ASSUME NEW b \in Breaker, Consistent(b)
  PROVE  /\ AfterFailure(b) \in Breaker /\ Consistent(AfterFailure(b))
         /\ AfterFailure(b).state # "half_open"
<1> DEFINE c == Current(b)
<1>1. c \in Breaker /\ Consistent(c)
  BY CurrentGood
<1> HIDE DEF c
<1>2. CASE c.state = "half_open" \/ c.failures + 1 >= FailureThreshold
  <2>1. AfterFailure(b) = Tripped(c)
    BY <1>2 DEF AfterFailure, c
  <2> QED BY <1>1, <1>2, <2>1, BreakerAssumption DEF Tripped, Breaker, Consistent
<1>3. CASE ~(c.state = "half_open" \/ c.failures + 1 >= FailureThreshold)
  <2>1. AfterFailure(b) = Counted(c)
    BY <1>3 DEF AfterFailure, c
  <2> QED BY <1>1, <1>3, <2>1, BreakerAssumption DEF Counted, Breaker, Consistent
<1> QED BY <1>2, <1>3

-----------------------------------------------------------------------------
(* The gateway                                                             *)

BreakersGood == \A s \in Servers : breaker[s] \in Breaker /\ Consistent(breaker[s])

BreakerInv == breaker \in [Servers -> Breaker] /\ BreakersGood

LEMMA BreakerStep == BreakerInv /\ [Next]_vars => BreakerInv'
<1> SUFFICES ASSUME BreakerInv, [Next]_vars PROVE BreakerInv'
  OBVIOUS
<1> USE GatewayAssumption DEF BreakerInv, BreakersGood
<1>1. ASSUME NEW t \in Tasks, Admission(t) PROVE BreakerInv'
  BY <1>1, AllowRequestGood DEF Admission, BreakerFor
<1>2. ASSUME NEW t \in Tasks, NEW res, Record(t, res) PROVE BreakerInv'
  BY <1>2, NewBreakerGood, FailureGood DEF Record, BreakerFor, AfterSuccess
<1>3. CASE Restart
  BY <1>3, NewBreakerGood DEF Restart
<1>4. CASE Tick
  BY <1>4, CoolGood DEF Tick
<1>5. ASSUME NEW s \in Servers, Observe(s) PROVE BreakerInv'
  BY <1>5, CurrentGood DEF Observe
<1>6. CASE UNCHANGED breaker
  BY <1>6
<1>7. ASSUME NEW t \in Tasks, Invoke(t) PROVE BreakerInv'
  BY <1>2, <1>6, <1>7 DEF Invoke
<1>8. ASSUME NEW t \in Tasks, Call(t) \/ Admit(t) PROVE BreakerInv'
  BY <1>1, <1>6, <1>8 DEF Call, Admit
<1> QED
  BY <1>3, <1>4, <1>5, <1>6, <1>7, <1>8 DEF Next, Proceed, CallRefused, Lookup,
     Expire, Retry, Put, Cancel, vars

LEMMA BreakersStayGood == Spec => []BreakerInv
<1>1. Init => BreakerInv
  BY NewBreakerGood DEF Init, BreakerInv, BreakersGood
<1> QED BY <1>1, BreakerStep, PTL DEF Spec

(* The state machine of the breaker and its failure counter agree for any
   number of concurrent calls, late answers, cancellations and restarts.   *)
THEOREM BreakerStateMatchesCount == Spec => []ClosedIffBelowThreshold
<1>1. BreakerInv => ClosedIffBelowThreshold
  BY DEF BreakerInv, BreakersGood, ClosedIffBelowThreshold, Consistent
<1> QED BY <1>1, BreakersStayGood, PTL

-----------------------------------------------------------------------------
(* Types and the stages of a call: it has attempts behind it exactly from
   its admission on, sleeps only with attempts left, comes to the store only
   with a key, and has an answer only when it puts one or is done.         *)

TypeInv ==
  /\ TypeOK
  /\ \A t \in Tasks :
       /\ pc[t] \in {"idle", "lookup", "expire", "admit"} => attempt[t] = 0
       /\ pc[t] \in {"invoke", "backoff", "put"} => attempt[t] > 0
       /\ pc[t] = "backoff" => t \in Retryable /\ attempt[t] < MaxAttempts
       /\ pc[t] \in {"lookup", "expire", "put"} => Keyed(t)
       /\ pc[t] = "put" => answer[t] \in Results
       /\ pc[t] \notin {"put", "done"} => answer[t] = "none"

LEMMA RowTypes ==
  /\ Absent \in Rows
  /\ \A res \in Results : [res |-> res, age |-> 0] \in Rows
  /\ \A row \in Rows : Aged(row) \in Rows
  BY GatewayAssumption DEF Absent, Rows, Aged, Expired

LEMMA EffectsTyped ==
  ASSUME TypeOK, NEW t \in Tasks, MaybePerformed(t)
  PROVE  effects' \in [Keys -> Nat]
  BY GatewayAssumption DEF MaybePerformed, Keyed, TypeOK

LEMMA StoreTyped ==
  ASSUME TypeInv, NEW t \in Tasks
  PROVE  /\ pc[t] = "expire" => Removed(t) \in [Keys -> Rows]
         /\ pc[t] = "put" => Stored(t) \in [Keys -> Rows]
  BY RowTypes DEF TypeInv, TypeOK, Removed, Stored

LEMMA TypeStep ==
  ASSUME TypeInv, BreakerInv', [Next]_vars
  PROVE  TypeInv'
<1> USE GatewayAssumption DEF TypeInv, TypeOK, BreakerInv, Answers, Goto, Return
<1>1. ASSUME NEW t \in Tasks, CallRefused(t) PROVE TypeInv'
  BY <1>1 DEF CallRefused
<1>2. ASSUME NEW t \in Tasks, Admission(t), UNCHANGED <<store, effects>>,
             pc[t] \in {"idle", "admit"}
      PROVE  TypeInv'
  <2> DEFINE halfOpen == Current(breaker[BreakerFor(t)]).state = "half_open"
  <2>0. halfOpen \in BOOLEAN
    OBVIOUS
  <2> HIDE DEF halfOpen
  <2>1. CASE Admits(breaker[BreakerFor(t)])
    <3>1. /\ pc' = [pc EXCEPT ![t] = "invoke"] /\ attempt' = [attempt EXCEPT ![t] = 1]
          /\ probe' = [probe EXCEPT ![t] = halfOpen] /\ UNCHANGED answer
      BY <1>2, <2>1 DEF Admission, halfOpen
    <3>2. probe' \in [Tasks -> BOOLEAN]
      BY <2>0, <3>1
    <3> QED BY <1>2, <3>1, <3>2 DEF Keyed
  <2>2. CASE ~Admits(breaker[BreakerFor(t)])
    BY <1>2, <2>2 DEF Admission, Keyed
  <2> QED BY <2>1, <2>2
<1>3. ASSUME NEW t \in Tasks, Call(t) PROVE TypeInv'
  BY <1>2, <1>3 DEF Call
<1>4. ASSUME NEW t \in Tasks, Admit(t) PROVE TypeInv'
  BY <1>2, <1>4 DEF Admit
<1>5. ASSUME NEW t \in Tasks, Lookup(t) PROVE TypeInv'
  <2>1. store[KeyOf[t]].res \in Answers
    BY <1>5 DEF Lookup, Keyed, Rows, Absent, Results, Failures
  <2>2. UNCHANGED <<attempt, probe, breaker, store, effects>>
    BY <1>5 DEF Lookup
  <2>3. CASE pc' = [pc EXCEPT ![t] = "admit"] /\ UNCHANGED answer
    BY <1>5, <2>2, <2>3 DEF Lookup, Keyed
  <2>4. CASE pc' = [pc EXCEPT ![t] = "expire"] /\ UNCHANGED answer
    BY <1>5, <2>2, <2>4 DEF Lookup, Keyed
  <2>5. CASE Return(t, store[KeyOf[t]].res)
    BY <2>1, <2>2, <2>5 DEF Keyed
  <2> QED BY <1>5, <2>3, <2>4, <2>5 DEF Lookup
<1>6. ASSUME NEW t \in Tasks, Expire(t) PROVE TypeInv'
  BY <1>6, StoreTyped DEF Expire, Keyed
<1>7. ASSUME NEW t \in Tasks, Invoke(t) PROVE TypeInv'
  <2>1. effects' \in [Keys -> Nat]
    BY <1>7, EffectsTyped DEF Invoke
  <2>2. PICK res \in Results :
          IF res \in Failures /\ RetriesLeft(t)
          THEN Goto(t, "backoff") /\ UNCHANGED <<answer, breaker>>
          ELSE /\ Record(t, res)
               /\ IF Keyed(t)
                  THEN Goto(t, "put") /\ answer' = [answer EXCEPT ![t] = res]
                  ELSE Return(t, res)
    BY <1>7 DEF Invoke
  <2>3. pc[t] = "invoke" /\ UNCHANGED <<attempt, probe, store>>
    BY <1>7 DEF Invoke
  <2>4. CASE res \in Failures /\ RetriesLeft(t)
    BY <2>1, <2>2, <2>3, <2>4 DEF RetriesLeft, Keyed
  <2>5. CASE ~(res \in Failures /\ RetriesLeft(t))
    BY <2>1, <2>2, <2>3, <2>5 DEF Keyed
  <2> QED BY <2>4, <2>5
<1>8. ASSUME NEW t \in Tasks, Retry(t) PROVE TypeInv'
  BY <1>8 DEF Retry
<1>9. ASSUME NEW t \in Tasks, Put(t) PROVE TypeInv'
  BY <1>9, StoreTyped DEF Put, Keyed
<1>10. ASSUME NEW t \in Tasks, Cancel(t) PROVE TypeInv'
  <2>1. effects' \in [Keys -> Nat]
    BY <1>10, EffectsTyped DEF Cancel
  <2>2. store' \in [Keys -> Rows]
    BY <1>10, StoreTyped DEF Cancel
  <2> QED BY <1>10, <2>1, <2>2 DEF Cancel, Keyed
<1>11. CASE Restart
  BY <1>11, RowTypes DEF Restart, Purged
<1>12. CASE Tick
  BY <1>12, RowTypes DEF Tick, taskVars
<1>13. ASSUME NEW s \in Servers, Observe(s) PROVE TypeInv'
  BY <1>13 DEF Observe, taskVars
<1>14. CASE UNCHANGED vars
  BY <1>14 DEF vars, taskVars
<1> QED
  BY <1>1, <1>3, <1>4, <1>5, <1>6, <1>7, <1>8, <1>9, <1>10, <1>11, <1>12,
     <1>13, <1>14 DEF Next, Proceed

LEMMA StagesStayGood == Spec => []TypeInv
<1>1. Init => TypeInv
  BY NewBreakerGood, RowTypes, GatewayAssumption
     DEF Init, TypeInv, TypeOK, Answers
<1> QED BY <1>1, TypeStep, BreakersStayGood, PTL DEF Spec

(* Every variable keeps its type; in particular the retry loop never makes
   more than max_attempts invocations.                                     *)
THEOREM GatewayTypeCorrect == Spec => []TypeOK
<1>1. TypeInv => TypeOK
  BY DEF TypeInv
<1> QED BY <1>1, StagesStayGood, PTL

-----------------------------------------------------------------------------
(* Half-open slots                                                         *)

LEMMA ProbesFinite ==
  ASSUME IsFiniteSet(Tasks), NEW s
  PROVE  /\ IsFiniteSet(ProbesOf(s)) /\ Cardinality(ProbesOf(s)) \in Nat
         /\ IsFiniteSet(ProbesOf(s)') /\ Cardinality(ProbesOf(s)') \in Nat
<1>1. ProbesOf(s) \in SUBSET Tasks /\ ProbesOf(s)' \in SUBSET Tasks
  BY DEF ProbesOf
<1>2. IsFiniteSet(ProbesOf(s)) /\ IsFiniteSet(ProbesOf(s)')
  BY <1>1, FS_Subset
<1> QED BY <1>2, FS_CardinalityType

(* Where no probe is lost and no slot taken, the slots stay held.          *)
LEMMA SlotsStayHeld ==
  ASSUME IsFiniteSet(Tasks), BreakerInv, BreakerInv', SlotsHeldByProbes, NEW s \in Servers,
         \/ breaker'[s].state # "half_open" \/ breaker'[s].probes = 0
         \/ /\ breaker[s].state = "half_open" /\ breaker'[s].probes = breaker[s].probes
            /\ ProbesOf(s) \subseteq ProbesOf(s)'
  PROVE  breaker'[s].state = "half_open" => breaker'[s].probes <= Cardinality(ProbesOf(s)')
<1>1. CASE breaker'[s].probes = 0
  BY <1>1, ProbesFinite
<1>2. CASE /\ breaker[s].state = "half_open" /\ breaker'[s].probes = breaker[s].probes
           /\ ProbesOf(s) \subseteq ProbesOf(s)'
  <2>1. Cardinality(ProbesOf(s)) <= Cardinality(ProbesOf(s)')
    BY <1>2, ProbesFinite, FS_Subset
  <2>2. breaker[s].probes <= Cardinality(ProbesOf(s)) /\ breaker[s].probes \in Nat
    BY <1>2, BreakerAssumption DEF SlotsHeldByProbes, BreakerInv, Breaker
  <2> QED BY <1>2, <2>1, <2>2, ProbesFinite
<1> QED BY <1>1, <1>2

LEMMA SlotStep ==
  ASSUME IsFiniteSet(Tasks)
  PROVE  BreakerInv /\ BreakerInv' /\ TypeInv /\ SlotsHeldByProbes /\ [Next]_vars
           => SlotsHeldByProbes'
<1> SUFFICES ASSUME BreakerInv, BreakerInv', TypeInv, SlotsHeldByProbes, [Next]_vars,
                    NEW s \in Servers, breaker'[s].state = "half_open"
             PROVE  breaker'[s].probes <= Cardinality(ProbesOf(s)')
  BY DEF SlotsHeldByProbes
<1> USE GatewayAssumption
<1> DEFINE Held == breaker'[s].probes <= Cardinality(ProbesOf(s)')
<1>a. \A t \in Tasks : answer[t] = "cancelled" => pc[t] = "done"
  BY DEF TypeInv, Results, Failures
<1>b. breaker[s] \in Breaker
  BY DEF BreakerInv
<1>d. \A t \in Tasks : pc[t] \notin {"invoke", "backoff", "done"} => t \notin ProbesOf(s)
  BY <1>a DEF ProbesOf
<1>t. /\ pc \in [Tasks -> {"idle", "lookup", "expire", "admit", "invoke",
                          "backoff", "put", "done"}]
      /\ answer \in [Tasks -> Answers] /\ probe \in [Tasks -> BOOLEAN]
  BY DEF TypeInv, TypeOK
(* Whoever is neither a probe at work nor done may do anything but leave.  *)
<1>c. ASSUME NEW t \in Tasks,
             \A u \in Tasks \ {t} : /\ pc'[u] = pc[u] /\ probe'[u] = probe[u]
                                    /\ answer'[u] = answer[u],
             t \in ProbesOf(s) => t \in ProbesOf(s)'
      PROVE  ProbesOf(s) \subseteq ProbesOf(s)'
  BY <1>c DEF ProbesOf
<1>1. ASSUME NEW t \in Tasks, Admission(t), pc[t] \in {"idle", "admit"} PROVE Held
  <2>1. /\ t \notin ProbesOf(s)
        /\ \A u \in Tasks \ {t} : /\ pc'[u] = pc[u] /\ probe'[u] = probe[u]
                                  /\ answer'[u] = answer[u]
    BY <1>1, <1>d, <1>t DEF Admission, Goto, Return
  <2>2. ProbesOf(s) \subseteq ProbesOf(s)'
    BY <1>c, <2>1
  <2>3. CASE ServerOf[t] = s /\ Admits(breaker[s]) /\ Current(breaker[s]).state = "half_open"
    <3>1. t \in ProbesOf(s)'
      BY <1>1, <2>3 DEF Admission, BreakerFor, Goto, ProbesOf, TypeInv, TypeOK
    <3>2. breaker'[s].probes = Current(breaker[s]).probes + 1
      BY <1>1, <1>b, <2>3, CurrentGood DEF Admission, BreakerFor, AfterAllowRequest, BreakerInv, Breaker
    <3>3. Cardinality(ProbesOf(s) \cup {t}) = Cardinality(ProbesOf(s)) + 1
      BY <2>1, ProbesFinite, FS_AddElement
    <3>4. Cardinality(ProbesOf(s) \cup {t}) <= Cardinality(ProbesOf(s)')
      BY <2>2, <3>1, ProbesFinite, FS_Subset
    <3>5. Current(breaker[s]).probes = 0 \/ Current(breaker[s]) = breaker[s]
      BY DEF Current
    <3>6. Current(breaker[s]).probes <= Cardinality(ProbesOf(s))
      BY <2>3, <3>5, ProbesFinite DEF SlotsHeldByProbes
    <3>7. Current(breaker[s]).probes \in Nat
      BY <1>b, <3>5, BreakerAssumption DEF Breaker
    <3> QED BY <3>2, <3>3, <3>4, <3>6, <3>7, ProbesFinite
  <2>4. CASE ~(ServerOf[t] = s /\ Admits(breaker[s]) /\ Current(breaker[s]).state = "half_open")
    <3>1. breaker'[s] = breaker[s] \/ breaker'[s] = Current(breaker[s])
      BY <1>1, <2>4 DEF Admission, BreakerFor, AfterAllowRequest, BreakerInv
    <3> QED BY <2>2, <3>1, SlotsStayHeld DEF Current
  <2> QED BY <2>3, <2>4
<1>2. ASSUME NEW t \in Tasks, NEW res, Record(t, res), UNCHANGED probe,
             \A u \in Tasks \ {t} : pc'[u] = pc[u] /\ answer'[u] = answer[u]
      PROVE  Held
  <2>1. ServerOf[t] # s
    BY <1>2, <1>b, FailureGood, NewBreakerGood
       DEF Record, BreakerFor, AfterSuccess, NewBreaker, BreakerInv, BreakersGood
  <2>2. breaker'[s] = breaker[s]
    BY <1>2, <2>1 DEF Record, BreakerFor, BreakerInv
  <2>3. ProbesOf(s) \subseteq ProbesOf(s)'
    BY <1>2, <2>1, <1>c DEF ProbesOf
  <2> QED BY <2>2, <2>3, SlotsStayHeld
<1>3. ASSUME NEW t \in Tasks, UNCHANGED <<probe, breaker>>,
             \A u \in Tasks \ {t} : pc'[u] = pc[u] /\ answer'[u] = answer[u],
             t \in ProbesOf(s) => t \in ProbesOf(s)'
      PROVE  Held
  BY <1>3, <1>c, SlotsStayHeld
<1>4. CASE Restart
  BY <1>4 DEF Restart, NewBreaker
<1>5. ASSUME UNCHANGED taskVars, breaker'[s] \in {breaker[s], Cool(breaker[s]), Current(breaker[s])}
      PROVE  Held
  <2>1. ProbesOf(s)' = ProbesOf(s)
    BY <1>5 DEF taskVars, ProbesOf
  <2>2. /\ Cool(breaker[s]).state = breaker[s].state
        /\ Cool(breaker[s]).probes = breaker[s].probes
    BY <1>b DEF Cool, Breaker
  <2> QED BY <1>5, <2>1, <2>2, SlotsStayHeld DEF Current
<1>6. CASE Tick
  BY <1>5, <1>6 DEF Tick
<1>7. ASSUME NEW x \in Servers, Observe(x) PROVE Held
  BY <1>5, <1>7 DEF Observe, BreakerInv
<1>8. CASE UNCHANGED vars
  BY <1>5, <1>8 DEF vars
<1>9. ASSUME NEW t \in Tasks, Invoke(t) PROVE Held
  <2>1. UNCHANGED probe /\ \A u \in Tasks \ {t} : pc'[u] = pc[u] /\ answer'[u] = answer[u]
    BY <1>9, <1>t DEF Invoke, Goto, Return
  <2>2. PICK res \in Results :
          IF res \in Failures /\ RetriesLeft(t)
          THEN Goto(t, "backoff") /\ UNCHANGED <<answer, breaker>>
          ELSE Record(t, res)
    BY <1>9 DEF Invoke
  <2>3. CASE res \in Failures /\ RetriesLeft(t)
    <3>1. t \in ProbesOf(s) => t \in ProbesOf(s)'
      BY <2>1, <2>2, <2>3 DEF Goto, ProbesOf, TypeInv, TypeOK
    <3> QED BY <1>3, <2>1, <2>2, <2>3, <3>1
  <2>4. CASE ~(res \in Failures /\ RetriesLeft(t))
    BY <1>2, <2>1, <2>2, <2>4
  <2> QED BY <2>3, <2>4
<1>10. ASSUME NEW t \in Tasks, Call(t) \/ Admit(t) PROVE Held
  <2>1. CASE Admission(t) /\ pc[t] \in {"idle", "admit"}
    BY <1>1, <2>1
  <2>2. CASE pc[t] = "idle" /\ Goto(t, "lookup") /\ UNCHANGED <<answer, probe, breaker>>
    <3>1. t \notin ProbesOf(s)
      BY <2>2, <1>a DEF ProbesOf
    <3> QED BY <1>3, <2>2, <3>1 DEF Goto
  <2> QED BY <1>10, <2>1, <2>2 DEF Call, Admit
<1>11. ASSUME NEW t \in Tasks, CallRefused(t) \/ Lookup(t) \/ Expire(t) \/ Put(t) PROVE Held
  <2>1. /\ t \notin ProbesOf(s) /\ UNCHANGED <<probe, breaker>>
        /\ \A u \in Tasks \ {t} : pc'[u] = pc[u] /\ answer'[u] = answer[u]
    BY <1>11, <1>d, <1>t DEF CallRefused, Lookup, Expire, Put, Goto, Return
  <2> QED BY <1>3, <2>1
<1>12. ASSUME NEW t \in Tasks, Retry(t) PROVE Held
  <2>1. /\ t \in ProbesOf(s) => t \in ProbesOf(s)'
        /\ UNCHANGED <<probe, breaker, answer>>
        /\ \A u \in Tasks \ {t} : pc'[u] = pc[u]
    BY <1>12, <1>t DEF Retry, Goto, ProbesOf
  <2> QED BY <1>3, <2>1
<1>13. ASSUME NEW t \in Tasks, Cancel(t) PROVE Held
  <2>1. /\ UNCHANGED <<probe, breaker>> /\ Cancels /\ answer'[t] = "cancelled"
        /\ \A u \in Tasks \ {t} : pc'[u] = pc[u] /\ answer'[u] = answer[u]
    BY <1>13, <1>t DEF Cancel, Goto, Return
  <2>2. t \in ProbesOf(s) => t \in ProbesOf(s)'
    BY <2>1 DEF ProbesOf
  <2> QED BY <1>3, <2>1, <2>2
<1> QED
  BY <1>4, <1>6, <1>7, <1>8, <1>9, <1>10, <1>11, <1>12, <1>13 DEF Next, Proceed

(* Every taken half-open slot belongs to a probe that still has its
   record_success or record_failure ahead, or to one whose caller was
   cancelled: nothing else ever costs a slot.                              *)
THEOREM NoSlotLeaks ==
  ASSUME IsFiniteSet(Tasks)
  PROVE  Spec => []SlotsHeldByProbes
<1>1. Init => SlotsHeldByProbes
  BY DEF Init, SlotsHeldByProbes, NewBreaker
<1> QED BY <1>1, SlotStep, BreakersStayGood, StagesStayGood, PTL DEF Spec

(* A breaker that refuses has its end in sight: the cooldown still runs, or a
   probe does, with the call of record_success or record_failure ahead.      *)
EndInSight ==
  \A s \in Servers :
    Refuses(s) => \/ breaker[s].cooldown > 0
                  \/ \E t \in Tasks : ServerOf[t] = s /\ pc[t] \in {"invoke", "backoff"}

(* The safety half of Recovers: as long as nobody is cancelled, no breaker
   refuses without a clock or a call that will end it.                       *)
THEOREM RefusalsHaveAnEnd ==
  ASSUME IsFiniteSet(Tasks), ~Cancels
  PROVE  Spec => []EndInSight
<1>1. ASSUME BreakerInv, SlotsHeldByProbes, NEW s \in Servers, Refuses(s), breaker[s].cooldown = 0
      PROVE  \E t \in Tasks : ServerOf[t] = s /\ pc[t] \in {"invoke", "backoff"}
  <2>1. breaker[s] \in Breaker /\ HalfOpenMaxCalls > 0
    BY <1>1, BreakerAssumption DEF BreakerInv
  <2>2. breaker[s].state = "half_open" /\ breaker[s].probes >= HalfOpenMaxCalls
    BY <1>1, <2>1, BreakerAssumption DEF Refuses, Admits, Current, Breaker
  <2>3. Cardinality(ProbesOf(s)) # 0
    BY <1>1, <2>1, <2>2, BreakerAssumption, ProbesFinite DEF SlotsHeldByProbes, Breaker
  <2>4. ProbesOf(s) # {}
    BY <2>3, FS_EmptySet
  <2> QED BY <2>4 DEF ProbesOf
<1>2. BreakerInv /\ SlotsHeldByProbes => EndInSight
  <2> SUFFICES ASSUME BreakerInv, SlotsHeldByProbes, NEW s \in Servers, Refuses(s)
               PROVE  \/ breaker[s].cooldown > 0
                      \/ \E t \in Tasks : ServerOf[t] = s /\ pc[t] \in {"invoke", "backoff"}
    BY DEF EndInSight
  <2>1. breaker[s].cooldown \in Nat
    BY BreakerAssumption DEF BreakerInv, Breaker
  <2> QED BY <1>1, <2>1
<1> QED BY <1>2, BreakersStayGood, NoSlotLeaks, PTL

-----------------------------------------------------------------------------
(* No call goes on for ever                                                *)

(* Steps a call has left: two for every attempt it may still make, and the
   way to the first and from the last one.                                 *)
CallWork(t) ==
  CASE pc[t] = "lookup" -> 2 * MaxAttempts + 3
    [] pc[t] = "expire" -> 2 * MaxAttempts + 2
    [] pc[t] = "admit" -> 2 * MaxAttempts + 1
    [] pc[t] = "invoke" -> 2 * (MaxAttempts - attempt[t]) + 2
    [] pc[t] = "backoff" -> 2 * (MaxAttempts - attempt[t]) + 1
    [] pc[t] = "put" -> 1
    [] pc[t] \in {"idle", "done"} -> 0

WorkGoesDown ==
  \A t \in Tasks :
    /\ InFlight(t) => CallWork(t)' <= CallWork(t)
    /\ Proceed(t) => CallWork(t)' < CallWork(t)

LEMMA WorkBounds ==
  ASSUME TypeInv, NEW t \in Tasks
  PROVE  /\ CallWork(t) \in 0..(2 * MaxAttempts + 3)
         /\ InFlight(t) => CallWork(t) > 0
<1>1. MaxAttempts \in Nat /\ attempt[t] \in 0..MaxAttempts
  BY GatewayAssumption DEF TypeInv, TypeOK
<1>2. pc[t] \in {"invoke", "backoff", "put"} => attempt[t] > 0
  BY DEF TypeInv
<1>3. pc[t] \in {"idle", "lookup", "expire", "admit", "invoke", "backoff", "put", "done"}
  BY DEF TypeInv, TypeOK
<1> QED BY <1>1, <1>2, <1>3 DEF CallWork, InFlight

LEMMA CallStepWorks ==
  ASSUME TypeInv, NEW t \in Tasks, Proceed(t)
  PROVE  CallWork(t)' < CallWork(t) /\ InFlight(t)
<1> USE GatewayAssumption
<1>1. MaxAttempts \in Nat \ {0} /\ attempt[t] \in 0..MaxAttempts
  BY DEF TypeInv, TypeOK
<1>2. /\ pc \in [Tasks -> {"idle", "lookup", "expire", "admit", "invoke",
                           "backoff", "put", "done"}]
      /\ attempt \in [Tasks -> 0..MaxAttempts]
  BY DEF TypeInv, TypeOK
<1>3. CASE Lookup(t) \/ Expire(t)
  <2>1. \/ pc[t] = "lookup" /\ pc'[t] \in {"expire", "admit", "done"}
        \/ pc[t] = "expire" /\ pc'[t] = "admit"
    BY <1>2, <1>3 DEF Lookup, Expire, Goto, Return
  <2> QED BY <1>1, <2>1 DEF CallWork, InFlight
<1>4. CASE Admit(t)
  <2>1. \/ pc'[t] = "invoke" /\ attempt'[t] = 1
        \/ pc'[t] = "done"
    BY <1>2, <1>4 DEF Admit, Admission, Goto, Return
  <2> QED BY <1>1, <1>4, <2>1 DEF Admit, CallWork, InFlight
<1>5. CASE Invoke(t)
  <2>1. pc'[t] \in {"backoff", "put", "done"} /\ UNCHANGED attempt
    BY <1>2, <1>5 DEF Invoke, Goto, Return
  <2> QED BY <1>1, <1>5, <2>1 DEF Invoke, CallWork, InFlight
<1>6. CASE Retry(t)
  <2>1. /\ pc[t] = "backoff" /\ pc'[t] = "invoke"
        /\ attempt'[t] = attempt[t] + 1 /\ attempt[t] < MaxAttempts
    BY <1>2, <1>6 DEF Retry, Goto, TypeInv
  <2> QED BY <1>1, <2>1 DEF CallWork, InFlight
<1>7. CASE Put(t)
  <2>1. pc[t] = "put" /\ pc'[t] = "done"
    BY <1>2, <1>7 DEF Put, Goto
  <2> QED BY <2>1 DEF CallWork, InFlight
<1> QED BY <1>3, <1>4, <1>5, <1>6, <1>7 DEF Proceed

(* A call in progress is taken further by its own steps, and ended, if at
   all, by what others do.                                                 *)
LEMMA WorkStep ==
  ASSUME TypeInv, TypeInv', Next
  PROVE  WorkGoesDown
<1> SUFFICES ASSUME NEW t \in Tasks, InFlight(t), ~Proceed(t)
             PROVE  CallWork(t)' <= CallWork(t)
  <2>1. ASSUME NEW t \in Tasks
        PROVE  CallWork(t) \in Nat /\ CallWork(t)' \in Nat
    <3>1. CallWork(t) \in Nat
      BY WorkBounds, GatewayAssumption
    <3>2. /\ MaxAttempts \in Nat /\ attempt'[t] \in 0..MaxAttempts
          /\ pc'[t] \in {"idle", "lookup", "expire", "admit", "invoke",
                         "backoff", "put", "done"}
      BY GatewayAssumption DEF TypeInv, TypeOK
    <3>3. CallWork(t)' \in Nat
      BY <3>2 DEF CallWork
    <3> QED BY <3>1, <3>3
  <2> QED BY <2>1, CallStepWorks DEF WorkGoesDown
<1>1. CallWork(t) \in Nat
  BY WorkBounds, GatewayAssumption
<1>0. MaxAttempts \in Nat \ {0} /\ attempt[t] \in 0..MaxAttempts
  BY GatewayAssumption DEF TypeInv, TypeOK
<1>2. CASE pc'[t] = pc[t] /\ attempt'[t] = attempt[t]
  BY <1>0, <1>2 DEF CallWork, InFlight
<1>3. CASE pc'[t] = "done"
  <2>1. CallWork(t)' = 0
    BY <1>3 DEF CallWork
  <2> QED BY <1>1, <2>1
<1>4. /\ pc \in [Tasks -> {"idle", "lookup", "expire", "admit", "invoke",
                           "backoff", "put", "done"}]
      /\ attempt \in [Tasks -> 0..MaxAttempts]
  BY DEF TypeInv, TypeOK
<1>5. ASSUME NEW u \in Tasks, u # t, CallRefused(u) \/ Call(u) \/ Proceed(u) \/ Cancel(u)
      PROVE  pc'[t] = pc[t] /\ attempt'[t] = attempt[t]
  BY <1>4, <1>5 DEF CallRefused, Call, Proceed, Lookup, Expire, Admit, Invoke, Retry, Put,
     Cancel, Admission, Goto, Return
<1>6. ~CallRefused(t) /\ ~Call(t)
  BY DEF InFlight, CallRefused, Call
<1>7. Cancel(t) \/ Restart => pc'[t] = "done"
  BY <1>4 DEF Cancel, Restart, Return, Goto
<1>8. Tick \/ (\E s \in Servers : Observe(s)) => UNCHANGED <<pc, attempt>>
  BY DEF Tick, Observe, taskVars
<1> QED BY <1>2, <1>3, <1>5, <1>6, <1>7, <1>8 DEF Next

(* Every step of a call takes from a measure that nothing adds to while it is
   in progress: whatever other calls, restarts and the clock do, it returns
   after at most 2 * max_attempts + 3 of its own steps.  EveryCallReturns asks
   of fairness only that they are taken.                                   *)
THEOREM CallsAreFinite ==
  Spec => /\ [][WorkGoesDown]_vars
          /\ [](\A t \in Tasks : CallWork(t) <= 2 * MaxAttempts + 3)
<1>1. TypeInv /\ TypeInv' /\ [Next]_vars => [WorkGoesDown]_vars
  BY WorkStep
<1>2. TypeInv => \A t \in Tasks : CallWork(t) <= 2 * MaxAttempts + 3
  BY WorkBounds, GatewayAssumption
<1> QED BY <1>1, <1>2, StagesStayGood, PTL DEF Spec

-----------------------------------------------------------------------------
(* The idempotency store                                                   *)

OriginOf(k, res) ==
  \E u \in Tasks : /\ Keyed(u) /\ KeyOf[u] = k /\ pc[u] = "done"
                   /\ attempt[u] > 0 /\ answer[u] \in {res, "cancelled"}

(* Every row of the store has a finished call it came from                 *)
OriginInv ==
  /\ \A k \in Keys : store[k] # Absent => OriginOf(k, store[k].res)
  /\ \A t \in Tasks : Keyed(t) /\ answer[t] \in Results /\ attempt[t] = 0
                       => OriginOf(KeyOf[t], answer[t])

(* An origin stays one: a finished call does not change any more           *)
LEMMA OriginStays ==
  ASSUME TypeInv, [Next]_vars, NEW k \in Keys, NEW res, OriginOf(k, res)
  PROVE  OriginOf(k, res)'
<1>1. PICK u \in Tasks : /\ Keyed(u) /\ KeyOf[u] = k /\ pc[u] = "done"
                        /\ attempt[u] > 0 /\ answer[u] \in {res, "cancelled"}
  BY DEF OriginOf
<1>2. <<pc'[u], attempt'[u], answer'[u]>> = <<"done", attempt[u], answer[u]>>
  <2>1. ASSUME NEW t \in Tasks, CallRefused(t) \/ Call(t) \/ Lookup(t) \/ Expire(t) \/ Admit(t)
        PROVE  <<pc'[u], attempt'[u], answer'[u]>> = <<"done", attempt[u], answer[u]>>
    BY <1>1, <2>1 DEF CallRefused, Call, Lookup, Expire, Admit, Admission, Return, Goto,
       TypeInv, TypeOK
  <2>2. ASSUME NEW t \in Tasks, Invoke(t) \/ Retry(t) \/ Put(t) \/ Cancel(t)
        PROVE  <<pc'[u], attempt'[u], answer'[u]>> = <<"done", attempt[u], answer[u]>>
    BY <1>1, <2>2 DEF Invoke, Retry, Put, Cancel, InFlight, Return, Goto, TypeInv, TypeOK
  <2>3. CASE Restart \/ Tick \/ UNCHANGED vars \/ \E s \in Servers : Observe(s)
    BY <1>1, <2>3 DEF Restart, InFlight, Tick, Observe, vars, taskVars, TypeInv, TypeOK
  <2> QED BY <2>1, <2>2, <2>3 DEF Next, Proceed
<1> QED BY <1>1, <1>2 DEF OriginOf

Puts(t, k) ==
  /\ Keyed(t) /\ KeyOf[t] = k /\ pc[t] = "put" /\ pc'[t] = "done"
  /\ attempt'[t] = attempt[t] /\ answer'[t] \in {answer[t], "cancelled"}
  /\ store'[k].res = answer[t]

(* What a row can be after a step: the result it had, or one just put      *)
LEMMA RowOrigin ==
  ASSUME TypeInv, [Next]_vars, NEW k \in Keys, store'[k] # Absent
  PROVE  \/ store[k] # Absent /\ store'[k].res = store[k].res
         \/ \E t \in Tasks : Puts(t, k)
<1>1. Aged(store[k]) # Absent => store[k] # Absent /\ Aged(store[k]).res = store[k].res
  BY DEF TypeInv, TypeOK, Rows, Aged, Absent
<1>2. CASE UNCHANGED store
  BY <1>2
<1>3. CASE Tick
  BY <1>1, <1>3 DEF Tick
<1>4. CASE Restart
  BY <1>4 DEF Restart, Purged
<1>5. ASSUME NEW t \in Tasks, Expire(t) \/ Cancel(t), store' = Removed(t)
      PROVE  store[k] # Absent /\ store'[k].res = store[k].res
  BY <1>5 DEF Removed, TypeInv, TypeOK
<1>6. ASSUME NEW t \in Tasks, pc[t] = "put", Put(t) \/ Cancel(t), store' = Stored(t)
      PROVE  (store[k] # Absent /\ store'[k].res = store[k].res) \/ Puts(t, k)
  <2>1. CASE KeyOf[t] = k
    BY <1>6, <2>1 DEF Put, Cancel, Return, Goto, Stored, Puts, TypeInv, TypeOK
  <2>2. CASE KeyOf[t] # k
    BY <1>6, <2>2 DEF Stored, TypeInv, TypeOK
  <2> QED BY <2>1, <2>2
<1> QED
  BY <1>2, <1>3, <1>4, <1>5, <1>6 DEF Next, Proceed, CallRefused, Call, Lookup,
     Expire, Admit, Invoke, Retry, Put, Cancel, Observe, vars

(* A call without an attempt gets a result only out of the store           *)
LEMMA ReplayOrigin ==
  ASSUME TypeInv, [Next]_vars, NEW t \in Tasks, Keyed(t), answer'[t] \in Results,
         attempt'[t] = 0
  PROVE  \/ answer'[t] = answer[t] /\ attempt[t] = 0
         \/ store[KeyOf[t]] # Absent /\ answer'[t] = store[KeyOf[t]].res
<1> DEFINE Goal == \/ answer'[t] = answer[t] /\ attempt[t] = 0
                   \/ store[KeyOf[t]] # Absent /\ answer'[t] = store[KeyOf[t]].res
<1>0. "cancelled" \notin Results /\ "NOT_ALLOWED" \notin Results
      /\ "CONFIRMATION_REQUIRED" \notin Results /\ "CIRCUIT_OPEN" \notin Results
  BY DEF Results, Failures
<1>1. CASE Lookup(t)
  BY <1>1 DEF Lookup, Return, TypeInv, TypeOK
<1>2. CASE CallRefused(t) \/ Call(t) \/ Expire(t) \/ Admit(t)
  BY <1>0, <1>2 DEF CallRefused, Call, Expire, Admit, Admission, Return, TypeInv, TypeOK
<1>3. CASE Invoke(t) \/ Retry(t) \/ Put(t) \/ Cancel(t)
  BY <1>0, <1>3 DEF Invoke, Retry, Put, Cancel, Return, TypeInv, TypeOK
<1>4. ASSUME NEW u \in Tasks, u # t, CallRefused(u) \/ Call(u) \/ Proceed(u) \/ Cancel(u)
      PROVE  Goal
  BY <1>4 DEF CallRefused, Call, Proceed, Lookup, Expire, Admit, Invoke, Retry, Put,
     Cancel, Admission, Return, TypeInv, TypeOK
<1>5. CASE Restart
  BY <1>0, <1>5 DEF Restart, TypeInv, TypeOK
<1>6. CASE Tick \/ UNCHANGED vars \/ \E s \in Servers : Observe(s)
  BY <1>6 DEF Tick, Observe, vars, taskVars
<1> QED BY <1>1, <1>2, <1>3, <1>4, <1>5, <1>6 DEF Next, Proceed

LEMMA OriginStep == TypeInv /\ TypeInv' /\ OriginInv /\ [Next]_vars => OriginInv'
<1> SUFFICES ASSUME TypeInv, TypeInv', OriginInv, [Next]_vars PROVE OriginInv'
  OBVIOUS
<1>1. ASSUME NEW k \in Keys, store'[k] # Absent
      PROVE  OriginOf(k, store[k].res)'
  <2>1. CASE store[k] # Absent /\ store'[k].res = store[k].res
    <3>1. OriginOf(k, store[k].res)
      BY <2>1 DEF OriginInv
    <3> QED BY <2>1, <3>1, OriginStays DEF OriginOf
  <2>2. CASE \E t \in Tasks : Puts(t, k)
    <3>1. PICK t \in Tasks : Puts(t, k)
      BY <2>2
    <3>2. attempt'[t] > 0
      BY <3>1 DEF Puts, TypeInv
    <3> QED BY <3>1, <3>2 DEF Puts, OriginOf, Keyed
  <2> QED BY <1>1, <2>1, <2>2, RowOrigin
<1>2. ASSUME NEW t \in Tasks, Keyed(t), answer'[t] \in Results, attempt'[t] = 0
      PROVE  OriginOf(KeyOf[t], answer[t])'
  <2>1. KeyOf[t] \in Keys
    BY <1>2, GatewayAssumption DEF Keyed
  <2>2. PICK res \in Results : res = answer'[t]
    BY <1>2
  <2>3. OriginOf(KeyOf[t], res)
    BY <1>2, <2>1, <2>2, ReplayOrigin DEF OriginInv
  <2>4. OriginOf(KeyOf[t], res)'
    BY <2>1, <2>3, OriginStays
  <2> QED BY <2>2, <2>4 DEF OriginOf
<1> QED BY <1>1, <1>2 DEF OriginInv, Keyed

(* What a replay hands out was the result of a call with the same key that
   really was invoked, whatever expired, was deleted or was put since.     *)
THEOREM ReplaysAreGenuine == Spec => []ReplayHasOriginal
<1>1. Init => OriginInv
  BY DEF Init, OriginInv, Results, Failures
<1>2. OriginInv => ReplayHasOriginal
  BY DEF OriginInv, OriginOf, ReplayHasOriginal
<1> QED BY <1>1, <1>2, OriginStep, StagesStayGood, PTL DEF Spec

-----------------------------------------------------------------------------
(* Writes are not repeated by the gateway                                  *)

(* Calls of a key whose invocation is behind them                          *)
Spent(k) == {t \in Tasks : Keyed(t) /\ KeyOf[t] = k /\ attempt[t] > 0 /\ pc[t] # "invoke"}

EffectInv == \A k \in Keys : effects[k] <= Cardinality(Spent(k))

WritesNotRetried == IsFiniteSet(Tasks) /\ SideEffecting \cap Retryable = {}

LEMMA SpentFinite ==
  ASSUME WritesNotRetried, NEW k
  PROVE  IsFiniteSet(Spent(k)) /\ Cardinality(Spent(k)) \in Nat
  BY FS_Subset, FS_CardinalityType DEF WritesNotRetried, Spent

(* No step takes a call out of Spent                                       *)
LEMMA SpentGrows ==
  ASSUME WritesNotRetried, TypeInv, TypeInv', [Next]_vars, NEW k \in Keys
  PROVE  Spent(k) \subseteq Spent(k)'
<1> SUFFICES ASSUME NEW u \in Tasks, Keyed(u), KeyOf[u] = k, attempt[u] > 0, pc[u] # "invoke"
             PROVE  attempt'[u] > 0 /\ pc'[u] # "invoke"
  BY DEF Spent, Keyed
<1>1. pc[u] \in {"put", "done"}
  BY DEF WritesNotRetried, Keyed, TypeInv, TypeOK
<1>2. ASSUME NEW t \in Tasks, CallRefused(t) \/ Call(t) \/ Lookup(t) \/ Expire(t) \/ Admit(t)
      PROVE  attempt'[u] = attempt[u] /\ pc'[u] = pc[u]
  BY <1>1, <1>2 DEF CallRefused, Call, Lookup, Expire, Admit, Admission, Return, Goto,
     TypeInv, TypeOK
<1>3. ASSUME NEW t \in Tasks, Invoke(t) \/ Retry(t) \/ Put(t) \/ Cancel(t)
      PROVE  attempt'[u] = attempt[u] /\ pc'[u] \in {"put", "done"}
  BY <1>1, <1>3 DEF Invoke, Retry, Put, Cancel, Return, Goto, TypeInv, TypeOK
<1>4. CASE Restart \/ Tick \/ UNCHANGED vars \/ \E s \in Servers : Observe(s)
  BY <1>1, <1>4 DEF Restart, InFlight, Tick, Observe, vars, taskVars, TypeInv, TypeOK
<1> QED BY <1>1, <1>2, <1>3, <1>4 DEF Next, Proceed

LEMMA EffectStep ==
  ASSUME WritesNotRetried, TypeInv, TypeInv', EffectInv, [Next]_vars
  PROVE  EffectInv'
<1> SUFFICES ASSUME NEW k \in Keys PROVE effects'[k] <= Cardinality(Spent(k)')
  BY DEF EffectInv
<1> USE DEF TypeInv, TypeOK
<1>1. /\ IsFiniteSet(Spent(k)) /\ IsFiniteSet(Spent(k)')
      /\ Cardinality(Spent(k)) \in Nat /\ Cardinality(Spent(k)') \in Nat
  BY SpentFinite, FS_Subset, FS_CardinalityType DEF WritesNotRetried, Spent
<1>2. effects[k] \in Nat /\ effects[k] <= Cardinality(Spent(k))
  BY DEF EffectInv
<1>3. CASE effects'[k] = effects[k]
  BY <1>1, <1>2, <1>3, SpentGrows, FS_Subset
<1>4. ASSUME NEW t \in Tasks, Invoke(t) \/ Cancel(t), pc[t] = "invoke", MaybePerformed(t),
             effects'[k] # effects[k]
      PROVE  effects'[k] <= Cardinality(Spent(k)')
  <2>1. Keyed(t) /\ KeyOf[t] = k /\ effects'[k] = effects[k] + 1
    BY <1>2, <1>4 DEF MaybePerformed
  <2>2. t \notin Spent(k)
    BY <1>4 DEF Spent
  <2>3. attempt'[t] > 0 /\ pc'[t] # "invoke"
    BY <1>4, <2>1 DEF Invoke, Cancel, Return, Goto, Keyed
  <2>4. t \in Spent(k)'
    BY <2>1, <2>3 DEF Spent, Keyed
  <2>5. Spent(k) \cup {t} \subseteq Spent(k)'
    BY <2>4, SpentGrows
  <2>6. Cardinality(Spent(k) \cup {t}) = Cardinality(Spent(k)) + 1
    BY <1>1, <2>2, FS_AddElement
  <2>7. Cardinality(Spent(k) \cup {t}) <= Cardinality(Spent(k)')
    BY <1>1, <2>5, FS_Subset
  <2> QED BY <1>1, <1>2, <2>1, <2>6, <2>7
<1>5. ASSUME effects'[k] # effects[k]
      PROVE  \E t \in Tasks : /\ Invoke(t) \/ Cancel(t)
                              /\ pc[t] = "invoke" /\ MaybePerformed(t)
  BY <1>5 DEF Next, Proceed, CallRefused, Call, Lookup, Expire, Admit, Invoke,
     Retry, Put, Cancel, Restart, Tick, Observe, vars
<1> QED BY <1>3, <1>4, <1>5

(* As long as no side-effecting tool is declared retryable, the gateway
   performs a write at most once per invoked call, whatever times out, is
   cancelled or restarted.                                                 *)
THEOREM WritesAreNotRetried ==
  ASSUME WritesNotRetried
  PROVE  Spec => []WriteEffectsHaveCalls
<1>1. Init => EffectInv
  <2> SUFFICES ASSUME Init, NEW k \in Keys PROVE effects[k] <= Cardinality(Spent(k))
    BY DEF EffectInv
  <2> QED BY SpentFinite DEF Init
<1>2. TypeInv /\ EffectInv => WriteEffectsHaveCalls
  <2> SUFFICES ASSUME TypeInv, EffectInv, NEW k \in Keys
               PROVE  effects[k] <= Cardinality({t \in Tasks : Keyed(t) /\ KeyOf[t] = k
                                                              /\ attempt[t] > 0})
    BY DEF WriteEffectsHaveCalls
  <2> DEFINE Invoked == {t \in Tasks : Keyed(t) /\ KeyOf[t] = k /\ attempt[t] > 0}
  <2>1. Spent(k) \subseteq Invoked /\ Invoked \subseteq Tasks
    BY DEF Spent
  <2>2. IsFiniteSet(Invoked) /\ Cardinality(Invoked) \in Nat
        /\ Cardinality(Spent(k)) <= Cardinality(Invoked) /\ Cardinality(Spent(k)) \in Nat
    BY <2>1, SpentFinite, FS_Subset, FS_CardinalityType DEF WritesNotRetried
  <2>3. effects[k] \in Nat /\ effects[k] <= Cardinality(Spent(k))
    BY DEF TypeInv, TypeOK, EffectInv
  <2> QED BY <2>2, <2>3
<1> QED BY <1>1, <1>2, EffectStep, StagesStayGood, PTL DEF Spec

-----------------------------------------------------------------------------
(* A refusal has its cause                                                 *)

(* The breaker counts no failure that some call has not behind it.         *)
CauseInv ==
  /\ \A s \in Servers : breaker[s].failures <= Cardinality(FailedOn(s))
  /\ RefusalHasCause

LEMMA FailedFinite ==
  ASSUME IsFiniteSet(Tasks), NEW s
  PROVE  IsFiniteSet(FailedOn(s)) /\ Cardinality(FailedOn(s)) \in Nat
<1>1. FailedOn(s) \subseteq Tasks
  BY DEF FailedOn
<1> QED BY <1>1, FS_Subset, FS_CardinalityType

(* A call that failed stays one that failed.                               *)
LEMMA FailedGrows ==
  ASSUME TypeInv, TypeInv', [Next]_vars, NEW s, NEW t \in FailedOn(s)
  PROVE  t \in FailedOn(s)'
<1> USE DEF TypeInv, TypeOK
<1>1. /\ t \in Tasks /\ ServerOf[t] = s /\ attempt[t] > 0 /\ Failed(t)
      /\ pc[t] \in {"put", "done"}
  BY DEF FailedOn, Failed, Failures
<1>2. SUFFICES /\ attempt'[t] = attempt[t]
               /\ answer'[t] = answer[t] \/ (Keyed(t) /\ answer'[t] = "cancelled")
  BY <1>1 DEF FailedOn, Failed, Keyed
<1>3. ASSUME NEW u \in Tasks, CallRefused(u) \/ Call(u) \/ Lookup(u) \/ Expire(u) \/ Admit(u)
      PROVE  attempt'[t] = attempt[t] /\ answer'[t] = answer[t]
  BY <1>1, <1>3 DEF CallRefused, Call, Lookup, Expire, Admit, Admission, Return, Goto
<1>4. ASSUME NEW u \in Tasks, Invoke(u) \/ Retry(u) \/ Put(u)
      PROVE  attempt'[t] = attempt[t] /\ answer'[t] = answer[t]
  BY <1>1, <1>4 DEF Invoke, Retry, Put, Return, Goto
<1>5. ASSUME NEW u \in Tasks, Cancel(u)
      PROVE  /\ attempt'[t] = attempt[t]
             /\ answer'[t] = answer[t] \/ (Keyed(t) /\ answer'[t] = "cancelled")
  BY <1>1, <1>5 DEF Cancel, InFlight, Return, Goto
<1>6. CASE Restart
  BY <1>1, <1>6 DEF Restart, InFlight
<1>7. CASE Tick \/ UNCHANGED vars \/ \E x \in Servers : Observe(x)
  BY <1>7 DEF Tick, Observe, vars, taskVars
<1> QED BY <1>3, <1>4, <1>5, <1>6, <1>7 DEF Next, Proceed

LEMMA FailedCountGrows ==
  ASSUME IsFiniteSet(Tasks), TypeInv, TypeInv', [Next]_vars, NEW s
  PROVE  Cardinality(FailedOn(s)) <= Cardinality(FailedOn(s)')
<1>1. FailedOn(s) \subseteq FailedOn(s)'
  BY FailedGrows
<1>2. FailedOn(s)' \subseteq Tasks
  BY DEF FailedOn
<1> QED BY <1>1, <1>2, FS_Subset

(* What a step adds to a breaker's count, one more call has failed.        *)
LEMMA CountsHaveCauses ==
  ASSUME IsFiniteSet(Tasks), BreakerInv, TypeInv, TypeInv', CauseInv, [Next]_vars,
         NEW s \in Servers
  PROVE  breaker'[s].failures <= Cardinality(FailedOn(s)')
<1> USE GatewayAssumption, BreakerAssumption
<1>1. /\ Cardinality(FailedOn(s)) \in Nat /\ Cardinality(FailedOn(s)') \in Nat
      /\ Cardinality(FailedOn(s)) <= Cardinality(FailedOn(s)')
      /\ IsFiniteSet(FailedOn(s)) /\ IsFiniteSet(FailedOn(s)')
  <2>1. FailedOn(s)' \subseteq Tasks
    BY DEF FailedOn
  <2> QED BY <2>1, FailedFinite, FailedCountGrows, FS_Subset, FS_CardinalityType
<1>2. breaker[s] \in Breaker /\ breaker[s].failures \in Nat
      /\ breaker[s].failures <= Cardinality(FailedOn(s))
  BY DEF BreakerInv, CauseInv, Breaker
<1>3. CASE breaker'[s].failures \in {0, breaker[s].failures}
  BY <1>1, <1>2, <1>3
<1>4. ASSUME NEW t \in Tasks, Invoke(t), breaker'[s].failures \notin {0, breaker[s].failures}
      PROVE  breaker'[s].failures <= Cardinality(FailedOn(s)')
  <2>1. PICK res \in Results :
          IF res \in Failures /\ RetriesLeft(t)
          THEN Goto(t, "backoff") /\ UNCHANGED <<answer, breaker>>
          ELSE /\ Record(t, res)
               /\ IF Keyed(t)
                  THEN Goto(t, "put") /\ answer' = [answer EXCEPT ![t] = res]
                  ELSE Return(t, res)
    BY <1>4 DEF Invoke
  <2>2. ~(res \in Failures /\ RetriesLeft(t))
    BY <1>4, <2>1
  <2>3. Record(t, res) /\ answer' = [answer EXCEPT ![t] = res]
    BY <2>1, <2>2 DEF Return
  <2>4. ServerOf[t] = s /\ res # "ok"
    BY <1>4, <2>3 DEF Record, BreakerFor, AfterSuccess, NewBreaker, BreakerInv
  <2>5. breaker'[s] = AfterFailure(breaker[s])
    BY <2>3, <2>4 DEF Record, BreakerFor, BreakerInv
  <2>6. Current(breaker[s]).failures = breaker[s].failures
    BY DEF Current
  <2>7. breaker'[s].failures = breaker[s].failures + 1
    BY <1>2, <2>5, <2>6 DEF AfterFailure, Tripped, Counted, Current, Breaker
  <2>8. t \notin FailedOn(s)
    BY <1>4 DEF Invoke, TypeInv, FailedOn, Failed, Failures
  <2>9. t \in FailedOn(s)'
    BY <1>4, <2>1, <2>3, <2>4 DEF Invoke, TypeInv, TypeOK, FailedOn, Failed, Results
  <2>10. FailedOn(s) \cup {t} \subseteq FailedOn(s)'
    BY <2>9, FailedGrows
  <2>11. Cardinality(FailedOn(s) \cup {t}) = Cardinality(FailedOn(s)) + 1
    BY <1>1, <2>8, FS_AddElement
  <2>12. Cardinality(FailedOn(s) \cup {t}) <= Cardinality(FailedOn(s)')
    BY <1>1, <2>10, FS_Subset
  <2> QED BY <1>1, <1>2, <2>7, <2>11, <2>12
<1>5. ASSUME NEW t \in Tasks, Admission(t)
      PROVE  breaker'[s].failures = breaker[s].failures
  BY <1>5 DEF Admission, BreakerFor, AfterAllowRequest, Current, BreakerInv, Breaker
<1>6. CASE Restart \/ Tick \/ \E x \in Servers : Observe(x)
  BY <1>3, <1>6 DEF Restart, NewBreaker, Tick, Cool, Observe, Current, BreakerInv, Breaker
<1>7. CASE UNCHANGED breaker
  BY <1>3, <1>7
<1>8. ASSUME NEW t \in Tasks, Call(t) \/ Admit(t)
      PROVE  breaker'[s].failures \in {0, breaker[s].failures}
  BY <1>5, <1>8 DEF Call, Admit
<1> QED
  BY <1>3, <1>4, <1>6, <1>7, <1>8 DEF Next, Proceed, CallRefused, Lookup, Expire,
     Retry, Put, Cancel, vars

(* Whoever is refused now finds the breaker not closed.                    *)
LEMMA RefusedByOpenBreaker ==
  ASSUME BreakerInv, TypeInv, TypeInv', [Next]_vars,
         NEW t \in Tasks, answer'[t] = "CIRCUIT_OPEN", answer[t] # "CIRCUIT_OPEN"
  PROVE  ~Admits(breaker[ServerOf[t]])
<1> USE DEF TypeInv, TypeOK
<1>1. ASSUME NEW u \in Tasks, Admission(u) PROVE ~Admits(breaker[ServerOf[t]])
  BY <1>1 DEF Admission, BreakerFor, Return
<1>2. ASSUME NEW u \in Tasks, Call(u) \/ Admit(u) PROVE ~Admits(breaker[ServerOf[t]])
  BY <1>1, <1>2 DEF Call, Admit
<1>3. ASSUME NEW u \in Tasks, Lookup(u) PROVE FALSE
  <2>1. store[KeyOf[u]].res # "CIRCUIT_OPEN"
    BY <1>3, GatewayAssumption DEF Lookup, Keyed, Rows, Absent, Results, Failures
  <2> QED BY <1>3, <2>1 DEF Lookup, Return
<1>4. ASSUME NEW u \in Tasks, CallRefused(u) \/ Expire(u) \/ Retry(u) \/ Put(u) \/ Cancel(u)
      PROVE  FALSE
  BY <1>4 DEF CallRefused, Expire, Retry, Put, Cancel, Return
<1>5. ASSUME NEW u \in Tasks, Invoke(u) PROVE FALSE
  BY <1>5 DEF Invoke, Return, Results, Failures
<1>6. CASE Restart \/ Tick \/ UNCHANGED vars \/ \E x \in Servers : Observe(x)
  BY <1>6 DEF Restart, Tick, Observe, vars, taskVars
<1> QED BY <1>2, <1>3, <1>4, <1>5, <1>6 DEF Next, Proceed

LEMMA CauseStep ==
  ASSUME IsFiniteSet(Tasks)
  PROVE  BreakerInv /\ TypeInv /\ TypeInv' /\ CauseInv /\ [Next]_vars => CauseInv'
<1> SUFFICES ASSUME BreakerInv, TypeInv, TypeInv', CauseInv, [Next]_vars PROVE CauseInv'
  OBVIOUS
<1> USE GatewayAssumption, BreakerAssumption
<1>1. ASSUME NEW s \in Servers PROVE breaker'[s].failures <= Cardinality(FailedOn(s)')
  BY <1>1, CountsHaveCauses
<1>2. ASSUME NEW t \in Tasks, answer'[t] = "CIRCUIT_OPEN"
      PROVE  Cardinality(FailedOn(ServerOf[t])') >= FailureThreshold
  <2> DEFINE s == ServerOf[t]
  <2>1. s \in Servers
    OBVIOUS
  <2>2. Cardinality(FailedOn(s)) \in Nat /\ Cardinality(FailedOn(s)') \in Nat
        /\ Cardinality(FailedOn(s)) <= Cardinality(FailedOn(s)')
    <3>1. FailedOn(s)' \subseteq Tasks
      BY DEF FailedOn
    <3> QED BY <3>1, FailedFinite, FailedCountGrows, FS_Subset, FS_CardinalityType
  <2>3. Cardinality(FailedOn(s)) >= FailureThreshold
    <3>1. CASE answer[t] = "CIRCUIT_OPEN"
      BY <3>1 DEF CauseInv, RefusalHasCause
    <3>2. CASE answer[t] # "CIRCUIT_OPEN"
      <4>1. ~Admits(breaker[s])
        BY <1>2, <3>2, RefusedByOpenBreaker
      <4>2. breaker[s] \in Breaker /\ Consistent(breaker[s])
            /\ breaker[s].failures <= Cardinality(FailedOn(s))
        BY <2>1 DEF BreakerInv, BreakersGood, CauseInv
      <4>3. breaker[s].state # "closed"
        BY <4>1 DEF Admits, Current
      <4>4. breaker[s].failures \in Nat /\ breaker[s].failures >= FailureThreshold
        BY <4>2, <4>3 DEF Consistent, Breaker
      <4> QED BY <2>2, <4>2, <4>4
    <3> QED BY <3>1, <3>2
  <2> QED BY <2>2, <2>3
<1> QED BY <1>1, <1>2 DEF CauseInv, RefusalHasCause, FailedOn

(* However many servers, calls, late answers, cancellations and restarts
   there are: a call is refused with CIRCUIT_OPEN only after
   failure_threshold calls of its own server have failed.                  *)
THEOREM RefusalsHaveCauses ==
  ASSUME IsFiniteSet(Tasks)
  PROVE  Spec => []RefusalHasCause
<1>1. Init => CauseInv
  <2> SUFFICES ASSUME Init PROVE CauseInv
    OBVIOUS
  <2>1. \A t \in Tasks : answer[t] = "none"
    BY DEF Init
  <2>2. \A s \in Servers : breaker[s].failures = 0 /\ Cardinality(FailedOn(s)) \in Nat
    BY FailedFinite DEF Init, NewBreaker
  <2> QED BY <2>1, <2>2 DEF CauseInv, RefusalHasCause
<1>2. CauseInv => RefusalHasCause
  BY DEF CauseInv
<1> QED BY <1>1, <1>2, CauseStep, BreakersStayGood, StagesStayGood, PTL DEF Spec
-----------------------------------------------------------------------------
(* What a keyed call can count on: KeyedCall, for any overlap of calls     *)

Lives == {"idle", "lookup", "invoke", "put", "answered", "over"}

LEMMA WhereType == \A t \in Tasks : Where(t) \in Lives
  BY DEF Where, Lives

(* What KeyedCall sees of a call follows from its place and its answer.    *)
LEMMA SameView ==
  ASSUME NEW t \in Tasks, pc'[t] = pc[t], answer'[t] = answer[t]
  PROVE  Where(t)' = Where(t) /\ CalledWith(t)' = CalledWith(t) /\ HeldBy(t)' = HeldBy(t)
<1>1. Where(t)' = Where(t)
  BY DEF Where
<1> QED BY <1>1 DEF CalledWith, HeldBy

(* The step of one call, as KeyedCall sees it                              *)
LEMMA OneCallMoves ==
  ASSUME NEW t \in KeyedCalls, NEW to, NEW k, NEW res,
         Where(t)' = to, CalledWith(t)' = k, HeldBy(t)' = res,
         \A u \in Tasks \ {t} : pc'[u] = pc[u] /\ answer'[u] = answer[u]
  PROVE  /\ [u \in KeyedCalls |-> Where(u)]' = [[u \in KeyedCalls |-> Where(u)] EXCEPT ![t] = to]
         /\ [u \in KeyedCalls |-> CalledWith(u)]'
              = [[u \in KeyedCalls |-> CalledWith(u)] EXCEPT ![t] = k]
         /\ [u \in KeyedCalls |-> HeldBy(u)]' = [[u \in KeyedCalls |-> HeldBy(u)] EXCEPT ![t] = res]
         /\ CalledWith(t) = k
              => [u \in KeyedCalls |-> CalledWith(u)]' = [u \in KeyedCalls |-> CalledWith(u)]
         /\ HeldBy(t) = res
              => [u \in KeyedCalls |-> HeldBy(u)]' = [u \in KeyedCalls |-> HeldBy(u)]
<1>1. KeyedCalls' = KeyedCalls /\ KeyedCalls \subseteq Tasks
  BY DEF KeyedCalls, Keyed
<1>2. \A u \in KeyedCalls \ {t} : /\ Where(u)' = Where(u) /\ CalledWith(u)' = CalledWith(u)
                                 /\ HeldBy(u)' = HeldBy(u)
  BY <1>1, SameView
<1> QED BY <1>1, <1>2

LEMMA NoCallMoves ==
  ASSUME \A u \in KeyedCalls : /\ Where(u)' = Where(u) /\ CalledWith(u)' = CalledWith(u)
                               /\ HeldBy(u)' = HeldBy(u)
  PROVE  /\ [u \in KeyedCalls |-> Where(u)]' = [u \in KeyedCalls |-> Where(u)]
         /\ [u \in KeyedCalls |-> CalledWith(u)]' = [u \in KeyedCalls |-> CalledWith(u)]
         /\ [u \in KeyedCalls |-> HeldBy(u)]' = [u \in KeyedCalls |-> HeldBy(u)]
<1>1. KeyedCalls' = KeyedCalls
  BY DEF KeyedCalls, Keyed
<1> QED BY <1>1

(* What counts as kept after a row was written, deleted, purged or aged    *)
LEMMA KeptAfter ==
  ASSUME TypeInv, NEW t \in KeyedCalls
  PROVE  /\ store' = Stored(t) /\ answer[t] \in Results
              => \A k \in Keys : KeptFor(k)' = IF k = KeyOf[t] THEN answer[t] ELSE KeptFor(k)
         /\ store' = Removed(t)
              => \A k \in Keys : KeptFor(k)' = IF k = KeyOf[t] THEN "none" ELSE KeptFor(k)
<1> USE GatewayAssumption DEF TypeInv, TypeOK
<1>1. KeyOf[t] \in Keys
  BY DEF KeyedCalls, Keyed
<1>2. ASSUME store' = Stored(t), answer[t] \in Results, NEW k \in Keys
      PROVE  KeptFor(k)' = IF k = KeyOf[t] THEN answer[t] ELSE KeptFor(k)
  <2>1. store'[k] = IF k = KeyOf[t] THEN [res |-> answer[t], age |-> 0] ELSE store[k]
    BY <1>1, <1>2 DEF Stored
  <2>2. ~Expired([res |-> answer[t], age |-> 0])
    BY DEF Expired
  <2> QED BY <2>1, <2>2 DEF KeptFor
<1>3. ASSUME store' = Removed(t), NEW k \in Keys
      PROVE  KeptFor(k)' = IF k = KeyOf[t] THEN "none" ELSE KeptFor(k)
  <2>1. store'[k] = IF k = KeyOf[t] THEN Absent ELSE store[k]
    BY <1>1, <1>3 DEF Removed
  <2>2. Absent.res = "none" /\ ~Expired(Absent)
    BY DEF Absent, Expired
  <2> QED BY <2>1, <2>2 DEF KeptFor
<1> QED BY <1>2, <1>3

LEMMA KeptAsTimePasses ==
  ASSUME TypeInv
  PROVE  /\ store' = Purged(store) => \A k \in Keys : KeptFor(k)' = KeptFor(k)
         /\ store' = [k \in Keys |-> Aged(store[k])]
              => \A k \in Keys : KeptFor(k)' \in {"none", KeptFor(k)}
<1> USE GatewayAssumption DEF TypeInv, TypeOK
<1>1. Absent.res = "none" /\ ~Expired(Absent)
  BY DEF Absent, Expired
<1>2. ASSUME NEW row \in Rows PROVE Aged(row).res = row.res \/ Aged(row) = row
  BY DEF Aged, Rows, Absent
<1>3. ASSUME store' = [k \in Keys |-> Aged(store[k])], NEW k \in Keys
      PROVE  KeptFor(k)' \in {"none", KeptFor(k)}
  <2>1. store'[k] = Aged(store[k]) /\ store[k] \in Rows
    BY <1>3
  <2>2. CASE Expired(store[k])
    BY <2>1, <2>2 DEF KeptFor, Aged
  <2>3. CASE ~Expired(store[k])
    BY <1>2, <2>1, <2>3 DEF KeptFor
  <2> QED BY <2>2, <2>3
<1>4. ASSUME store' = Purged(store), NEW k \in Keys PROVE KeptFor(k)' = KeptFor(k)
  BY <1>1, <1>4 DEF KeptFor, Purged
<1> QED BY <1>3, <1>4

(* A policy is never both side_effecting and retryable.                    *)
WritesSentOnce == SideEffecting \cap Retryable = {}

LEMMA KeyedStep ==
  ASSUME WritesSentOnce, TypeInv, TypeInv', [Next]_vars
  PROVE  [Promise!KeyedNext]_(Promise!keyedVars)
<1> DEFINE Step == [Promise!KeyedNext]_(Promise!keyedVars)
           at == [u \in KeyedCalls |-> Where(u)]
           key == [u \in KeyedCalls |-> CalledWith(u)]
           got == [u \in KeyedCalls |-> HeldBy(u)]
           kept == [k \in Keys |-> KeptFor(k)]
<1>k. KeyedCalls' = KeyedCalls /\ Keys' = Keys
      /\ \A u \in KeyedCalls : u \in Tasks /\ Keyed(u) /\ KeyOf[u] \in Keys
  BY GatewayAssumption DEF KeyedCalls, Keyed
<1>n. "none" \notin Results /\ "cancelled" \notin Results /\ "CIRCUIT_OPEN" \notin Results
      /\ "NOT_ALLOWED" \notin Results /\ "CONFIRMATION_REQUIRED" \notin Results
  BY DEF Results, Failures
<1>t. /\ pc \in [Tasks -> {"idle", "lookup", "expire", "admit", "invoke", "backoff", "put", "done"}]
      /\ answer \in [Tasks -> Answers] /\ store \in [Keys -> Rows] /\ effects \in [Keys -> Nat]
  BY DEF TypeInv, TypeOK
<1>u. store' = store => kept' = kept
  BY DEF KeptFor
<1>s. ASSUME store' = store, effects' = effects,
             \A u \in KeyedCalls : /\ Where(u)' = Where(u) /\ CalledWith(u)' = CalledWith(u)
                                   /\ HeldBy(u)' = HeldBy(u)
      PROVE  Step
  BY <1>s, <1>u, NoCallMoves DEF Promise!keyedVars
<1>f. ASSUME effects' = effects, NEW S \in SUBSET Keys,
             \A u \in KeyedCalls : /\ Where(u)' = Where(u) /\ CalledWith(u)' = CalledWith(u)
                                   /\ HeldBy(u)' = HeldBy(u),
             \A k \in Keys : KeptFor(k)' = IF k \in S THEN "none" ELSE KeptFor(k)
      PROVE  Step
  <2>2. kept' = [k \in Keys |-> IF k \in S THEN "none" ELSE kept[k]]
    BY <1>f
  <2>3. Promise!Forget(S)
    BY <1>f, <2>2, NoCallMoves DEF Promise!Forget
  <2> QED BY <2>3 DEF Promise!KeyedNext
<1>0. ASSUME NEW t \in Tasks, t \notin KeyedCalls,
             CallRefused(t) \/ Call(t) \/ Proceed(t) \/ Cancel(t)
      PROVE  Step
  <2>1. pc[t] \notin {"lookup", "expire", "put"}
    BY <1>0 DEF TypeInv, KeyedCalls
  <2>2. store' = store /\ effects' = effects
    BY <1>0, <2>1 DEF CallRefused, Call, Proceed, Lookup, Expire, Admit, Invoke, Retry, Put,
       Cancel, KeyedCalls, MaybePerformed
  <2>3. \A u \in Tasks \ {t} : pc'[u] = pc[u] /\ answer'[u] = answer[u]
    BY <1>0, <1>t, <2>1 DEF CallRefused, Call, Proceed, Lookup, Expire, Admit, Invoke, Retry, Put,
       Cancel, Admission, Goto, Return
  <2> QED BY <1>0, <1>k, <1>s, <2>2, <2>3, SameView
<1>1. ASSUME NEW t \in KeyedCalls, Retry(t) PROVE Step
  BY <1>1, <1>k DEF Retry, TypeInv, WritesSentOnce, Keyed
<1>r. ASSUME NEW t \in KeyedCalls, CallRefused(t) PROVE Step
  <2>1. PICK res \in {"NOT_ALLOWED", "CONFIRMATION_REQUIRED"} :
          pc' = [pc EXCEPT ![t] = "done"] /\ answer' = [answer EXCEPT ![t] = res]
    BY <1>r DEF CallRefused, Goto, Return
  <2>2. /\ \A u \in Tasks \ {t} : pc'[u] = pc[u] /\ answer'[u] = answer[u]
        /\ pc[t] = "idle" /\ pc'[t] = "done" /\ answer'[t] = res
        /\ store' = store /\ effects' = effects
    BY <1>r, <1>k, <1>t, <2>1 DEF CallRefused
  <2>3. Where(t) = "idle"
    BY <2>2 DEF Where
  <2>4. Where(t)' = "answered"
    BY <2>2 DEF Where
  <2>5. HeldBy(t)' = res /\ CalledWith(t)' = KeyOf[t]
    BY <2>2, <2>4 DEF HeldBy, CalledWith
  <2>6. /\ at' = [at EXCEPT ![t] = "answered"] /\ got' = [got EXCEPT ![t] = res]
        /\ key' = [key EXCEPT ![t] = KeyOf[t]]
    BY <2>2, <2>4, <2>5, OneCallMoves
  <2>7. Promise!Deny(t, KeyOf[t])
    BY <1>r, <1>u, <2>2, <2>3, <2>6 DEF Promise!Deny, Promise!Moves, Promise!Holds
  <2> QED BY <1>r, <1>k, <2>7 DEF Promise!KeyedNext
<1>2. ASSUME NEW t \in KeyedCalls, Call(t) PROVE Step
  <2>1. /\ \A u \in Tasks \ {t} : pc'[u] = pc[u] /\ answer'[u] = answer[u]
        /\ pc[t] = "idle" /\ pc'[t] = "lookup" /\ answer[t] = "none" /\ answer' = answer
        /\ store' = store /\ effects' = effects
    BY <1>2, <1>k, <1>t DEF Call, Goto, TypeInv
  <2>2. Where(t) = "idle" /\ Where(t)' = "lookup" /\ HeldBy(t) = "none" /\ HeldBy(t)' = "none"
    BY <1>n, <2>1 DEF Where, HeldBy
  <2>3. CalledWith(t)' = KeyOf[t]
    BY <2>2 DEF CalledWith
  <2>4. Promise!Begin(t, KeyOf[t])
    BY <1>u, <2>1, <2>2, <2>3, OneCallMoves DEF Promise!Begin, Promise!Moves
  <2> QED BY <1>2, <1>k, <2>4 DEF Promise!KeyedNext
<1>3. ASSUME NEW t \in KeyedCalls, Lookup(t) PROVE Step
  <2> DEFINE row == store[KeyOf[t]]
  <2>1. /\ \A u \in Tasks \ {t} : pc'[u] = pc[u] /\ answer'[u] = answer[u]
        /\ pc[t] = "lookup" /\ answer[t] = "none" /\ store' = store /\ effects' = effects
    BY <1>3, <1>k, <1>t DEF Lookup, Goto, Return, TypeInv
  <2>2. Where(t) = "lookup" /\ CalledWith(t) = KeyOf[t] /\ HeldBy(t) = "none" /\ row \in Rows
    BY <1>k, <1>t, <2>1 DEF Where, CalledWith, HeldBy
  <2>3. CASE row = Absent \/ Expired(row)
    <3>1. pc'[t] \in {"admit", "expire"} /\ answer' = answer
      BY <1>3, <1>k, <1>t, <2>3 DEF Lookup, Goto
    <3>2. Where(t)' = "invoke" /\ CalledWith(t)' = KeyOf[t] /\ HeldBy(t)' = "none"
      BY <3>1 DEF Where, CalledWith, HeldBy
    <3>3. kept[KeyOf[t]] = "none"
      BY <1>k, <2>3 DEF KeptFor, Absent
    <3>4. Promise!Miss(t)
      BY <1>u, <2>1, <2>2, <3>2, <3>3, OneCallMoves DEF Promise!Miss, Promise!Moves
    <3> QED BY <3>4 DEF Promise!KeyedNext
  <2>4. CASE row # Absent /\ ~Expired(row)
    <3>1. pc'[t] = "done" /\ answer'[t] = row.res /\ row.res \in Results
      BY <1>3, <1>k, <1>t, <2>2, <2>4 DEF Lookup, Goto, Return, Rows
    <3>2. Where(t)' = "answered" /\ CalledWith(t)' = KeyOf[t] /\ HeldBy(t)' = row.res
      BY <1>n, <3>1 DEF Where, CalledWith, HeldBy
    <3>3. kept[KeyOf[t]] = row.res
      BY <1>k, <2>4 DEF KeptFor
    <3>4. Promise!Replay(t)
      BY <1>n, <1>u, <2>1, <2>2, <3>1, <3>2, <3>3, OneCallMoves
         DEF Promise!Replay, Promise!Moves, Promise!Holds
    <3> QED BY <3>4 DEF Promise!KeyedNext
  <2> QED BY <2>3, <2>4
<1>4. ASSUME NEW t \in KeyedCalls, Expire(t) PROVE Step
  <2>1. /\ \A u \in Tasks \ {t} : pc'[u] = pc[u] /\ answer'[u] = answer[u]
        /\ pc[t] = "expire" /\ pc'[t] = "admit" /\ answer' = answer
        /\ store' = Removed(t) /\ effects' = effects
    BY <1>4, <1>k, <1>t DEF Expire, Goto
  <2>2. Where(t)' = Where(t)
    BY <2>1 DEF Where
  <2>3. \A u \in KeyedCalls : /\ Where(u)' = Where(u) /\ CalledWith(u)' = CalledWith(u)
                              /\ HeldBy(u)' = HeldBy(u)
    BY <1>k, <2>1, <2>2, SameView DEF CalledWith, HeldBy
  <2>4. \A k \in Keys : KeptFor(k)' = IF k \in {KeyOf[t]} THEN "none" ELSE KeptFor(k)
    BY <2>1, KeptAfter
  <2> QED BY <1>f, <1>k, <2>1, <2>3, <2>4
<1>5. ASSUME NEW t \in KeyedCalls, Admit(t) PROVE Step
  <2>1. /\ \A u \in Tasks \ {t} : pc'[u] = pc[u] /\ answer'[u] = answer[u]
        /\ pc[t] = "admit" /\ answer[t] = "none" /\ store' = store /\ effects' = effects
        /\ \/ pc'[t] = "invoke" /\ answer' = answer
           \/ pc'[t] = "done" /\ answer'[t] = "CIRCUIT_OPEN"
    BY <1>5, <1>k, <1>t DEF Admit, Admission, Goto, Return, TypeInv
  <2>2. Where(t) = "invoke" /\ CalledWith(t) = KeyOf[t] /\ HeldBy(t) = "none"
    BY <2>1 DEF Where, CalledWith, HeldBy
  <2>3. CASE pc'[t] = "invoke" /\ answer' = answer
    <3>1. Where(t)' = Where(t) /\ CalledWith(t)' = CalledWith(t) /\ HeldBy(t)' = HeldBy(t)
      BY <2>2, <2>3 DEF Where, CalledWith, HeldBy
    <3> QED BY <1>k, <1>s, <2>1, <3>1, SameView
  <2>4. CASE pc'[t] = "done" /\ answer'[t] = "CIRCUIT_OPEN"
    <3>1. Where(t)' = "answered" /\ CalledWith(t)' = KeyOf[t] /\ HeldBy(t)' = "CIRCUIT_OPEN"
      BY <2>4 DEF Where, CalledWith, HeldBy
    <3>2. Promise!Refuse(t)
      BY <1>u, <2>1, <2>2, <3>1, OneCallMoves DEF Promise!Refuse, Promise!Moves, Promise!Holds
    <3> QED BY <3>2 DEF Promise!KeyedNext
  <2> QED BY <2>1, <2>3, <2>4
<1>6. ASSUME NEW t \in KeyedCalls, Invoke(t) PROVE Step
  <2>1. PICK res \in Results : pc'[t] = "put" /\ answer' = [answer EXCEPT ![t] = res]
    BY <1>6, <1>k, <1>t DEF Invoke, RetriesLeft, WritesSentOnce, Keyed, Goto
  <2>2. /\ \A u \in Tasks \ {t} : pc'[u] = pc[u] /\ answer'[u] = answer[u]
        /\ pc[t] = "invoke" /\ answer[t] = "none" /\ answer'[t] = res /\ store' = store
    BY <1>6, <1>k, <1>t, <2>1 DEF Invoke, Goto, Return, TypeInv
  <2>3. /\ Where(t) = "invoke" /\ CalledWith(t) = KeyOf[t] /\ HeldBy(t) = "none"
        /\ Where(t)' = "put" /\ CalledWith(t)' = KeyOf[t] /\ HeldBy(t)' = res
    BY <2>1, <2>2 DEF Where, CalledWith, HeldBy
  <2>4. \E n \in {0, 1} : effects' = [effects EXCEPT ![key[t]] = @ + n]
    BY <1>6, <1>k, <2>3 DEF Invoke, MaybePerformed
  <2>5. Promise!Perform(t)
    BY <1>u, <2>2, <2>3, <2>4, OneCallMoves
       DEF Promise!Perform, Promise!Moves, Promise!Holds, Promise!MayPerform
  <2> QED BY <2>5 DEF Promise!KeyedNext
<1>7. ASSUME NEW t \in KeyedCalls, pc[t] = "put", store' = Stored(t) PROVE
        kept' = [kept EXCEPT ![KeyOf[t]] = answer[t]]
  <2>1. \A k \in Keys : KeptFor(k)' = IF k = KeyOf[t] THEN answer[t] ELSE KeptFor(k)
    BY <1>k, <1>7, KeptAfter DEF TypeInv
  <2> QED BY <1>k, <2>1
<1>8. ASSUME NEW t \in KeyedCalls, Put(t) PROVE Step
  <2>1. /\ \A u \in Tasks \ {t} : pc'[u] = pc[u] /\ answer'[u] = answer[u]
        /\ pc[t] = "put" /\ pc'[t] = "done" /\ answer' = answer /\ answer[t] \in Results
        /\ store' = Stored(t) /\ effects' = effects
    BY <1>8, <1>k, <1>t DEF Put, Goto, TypeInv
  <2>2. /\ Where(t) = "put" /\ CalledWith(t) = KeyOf[t] /\ HeldBy(t) = answer[t]
        /\ Where(t)' = "answered" /\ CalledWith(t)' = KeyOf[t] /\ HeldBy(t)' = answer[t]
    BY <1>n, <2>1 DEF Where, CalledWith, HeldBy
  <2>3. kept' = [kept EXCEPT ![key[t]] = got[t]]
    BY <1>7, <2>1, <2>2
  <2>4. Promise!Keep(t)
    BY <2>1, <2>2, <2>3, OneCallMoves DEF Promise!Keep, Promise!Moves
  <2> QED BY <2>4 DEF Promise!KeyedNext
<1>9. ASSUME NEW t \in KeyedCalls, Cancel(t) PROVE Step
  <2>1. /\ \A u \in Tasks \ {t} : pc'[u] = pc[u] /\ answer'[u] = answer[u]
        /\ InFlight(t) /\ pc'[t] = "done" /\ answer'[t] = "cancelled"
    BY <1>9, <1>k, <1>t DEF Cancel, Goto, Return
  <2>2. /\ Where(t) \in {"lookup", "invoke", "put"} /\ CalledWith(t) = KeyOf[t]
        /\ Where(t) = "put" <=> pc[t] = "put"
        /\ pc[t] \in {"expire", "invoke"} => Where(t) = "invoke"
        /\ pc[t] = "put" => HeldBy(t) = answer[t]
    BY <2>1 DEF Where, CalledWith, HeldBy, InFlight
  <2>3. Where(t)' = "over" /\ CalledWith(t)' = KeyOf[t] /\ HeldBy(t)' = "none"
    BY <1>n, <2>1 DEF Where, CalledWith, HeldBy
  <2>4. IF at[t] = "invoke" THEN \E n \in {0, 1} : effects' = [effects EXCEPT ![key[t]] = @ + n]
                            ELSE UNCHANGED effects
    <3>1. CASE pc[t] = "invoke"
      BY <1>9, <1>k, <2>2, <3>1 DEF Cancel, MaybePerformed
    <3>2. CASE pc[t] # "invoke"
      <4>1. effects' = effects /\ effects' = [effects EXCEPT ![KeyOf[t]] = @ + 0]
        BY <1>9, <1>k, <1>t, <3>2 DEF Cancel
      <4> QED BY <1>k, <2>2, <4>1
    <3> QED BY <3>1, <3>2
  <2>5. \/ UNCHANGED kept
        \/ at[t] = "put" /\ kept' = [kept EXCEPT ![key[t]] = got[t]]
        \/ TRUE /\ at[t] = "invoke" /\ kept' = [kept EXCEPT ![key[t]] = "none"]
    <3>1. CASE store' = store
      BY <1>u, <3>1
    <3>2. CASE pc[t] = "put" /\ store' = Stored(t)
      BY <1>7, <2>2, <3>2
    <3>3. CASE pc[t] = "expire" /\ store' = Removed(t)
      <4>1. \A k \in Keys : KeptFor(k)' = IF k = KeyOf[t] THEN "none" ELSE KeptFor(k)
        BY <3>3, KeptAfter
      <4>2. kept' = [kept EXCEPT ![KeyOf[t]] = "none"]
        BY <1>k, <4>1
      <4> QED BY <2>2, <3>3, <4>2
    <3> QED BY <1>9, <3>1, <3>2, <3>3 DEF Cancel
  <2>6. Promise!Abandon(t)
    BY <2>1, <2>2, <2>3, <2>4, <2>5, OneCallMoves
       DEF Promise!Abandon, Promise!InProgress, Promise!Moves, Promise!Holds, Promise!MayPerform
  <2> QED BY <2>6 DEF Promise!KeyedNext
<1>10. CASE Restart
  <2>1. ASSUME NEW u \in KeyedCalls
        PROVE  /\ Where(u)' = IF Where(u) \in {"lookup", "invoke", "put"} THEN "over" ELSE Where(u)
               /\ HeldBy(u)' = IF Where(u) \in {"lookup", "invoke", "put"} THEN "none" ELSE HeldBy(u)
               /\ CalledWith(u)' = CalledWith(u)
    <3>1. CASE InFlight(u)
      <4>1. pc'[u] = "done" /\ answer'[u] = "cancelled"
        BY <1>10, <1>k, <3>1 DEF Restart
      <4>2. Where(u) \in {"lookup", "invoke", "put"}
        BY <3>1 DEF Where, InFlight
      <4>3. Where(u)' = "over"
        BY <1>n, <4>1 DEF Where
      <4> QED BY <4>2, <4>3 DEF CalledWith, HeldBy
    <3>2. CASE ~InFlight(u)
      <4>1. pc'[u] = pc[u] /\ answer'[u] = answer[u]
        BY <1>10, <1>k, <3>2 DEF Restart
      <4>2. Where(u) \notin {"lookup", "invoke", "put"}
        BY <3>2 DEF Where, InFlight
      <4> QED BY <1>k, <4>1, <4>2, SameView
    <3> QED BY <3>1, <3>2
  <2>2. kept' = kept
    BY <1>10, KeptAsTimePasses DEF Restart
  <2>3. /\ at' = [u \in KeyedCalls |-> IF at[u] \in {"lookup", "invoke", "put"} THEN "over" ELSE at[u]]
        /\ got' = [u \in KeyedCalls |-> IF at[u] \in {"lookup", "invoke", "put"} THEN "none" ELSE got[u]]
        /\ key' = key
    BY <1>k, <2>1
  <2>4. Promise!Stop
    BY <1>10, <2>2, <2>3 DEF Promise!Stop, Promise!InProgress, Restart
  <2> QED BY <2>4 DEF Promise!KeyedNext
<1>11. CASE Tick
  <2> DEFINE S == {k \in Keys : KeptFor(k)' = "none"}
  <2>1. \A k \in Keys : KeptFor(k)' = IF k \in S THEN "none" ELSE KeptFor(k)
    BY <1>11, KeptAsTimePasses DEF Tick
  <2>2. S \in SUBSET Keys /\ pc' = pc /\ answer' = answer /\ effects' = effects
    BY <1>11 DEF Tick, taskVars
  <2> HIDE DEF S
  <2> QED BY <1>f, <1>k, <2>1, <2>2, SameView
<1>12. CASE UNCHANGED vars \/ \E s \in Servers : Observe(s)
  BY <1>12, <1>k, <1>s, SameView DEF vars, taskVars, Observe
<1> QED
  <2>1. ASSUME NEW t \in Tasks, CallRefused(t) \/ Call(t) \/ Proceed(t) \/ Cancel(t) PROVE Step
    <3>1. CASE t \in KeyedCalls
      BY <1>1, <1>r, <1>2, <1>3, <1>4, <1>5, <1>6, <1>8, <1>9, <2>1, <3>1 DEF Proceed
    <3> QED BY <1>0, <2>1, <3>1
  <2> QED BY <1>10, <1>11, <1>12, <2>1 DEF Next

(* A keyed call can count on KeyedCall's promise under any overlap of calls,
   whatever expires, is cancelled or restarted: the kept result, a refusal or
   one attempt of its own, and only the result of such an attempt is kept.
   Needs that no tool is both side_effecting and retryable.                *)
THEOREM GatewayKeepsPromise ==
  ASSUME WritesSentOnce
  PROVE  Spec => ImplementsKeyedCall
<1>1. Init => Promise!KeyedInit
  <2> SUFFICES ASSUME Init PROVE Promise!KeyedInit
    OBVIOUS
  <2>1. \A t \in KeyedCalls : t \in Tasks /\ Keyed(t) /\ pc[t] = "idle" /\ answer[t] = "none"
    BY DEF Init, KeyedCalls
  <2>2. \A t \in KeyedCalls : Where(t) = "idle" /\ CalledWith(t) = NoKey /\ HeldBy(t) = "none"
    BY <2>1 DEF Where, CalledWith, HeldBy, Results, Failures
  <2>3. \A k \in Keys : KeptFor(k) = "none"
    BY GatewayAssumption DEF Init, KeptFor, Expired, Absent
  <2> QED BY <2>2, <2>3 DEF Init, Promise!KeyedInit
<1> QED BY <1>1, KeyedStep, StagesStayGood, PTL DEF Spec, ImplementsKeyedCall, Promise!KeyedSpec
=============================================================================
