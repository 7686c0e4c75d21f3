------------------------- MODULE TurnBillingProofs --------------------------
(***************************************************************************)
(* That a finished turn pays for its own model calls, with any number of   *)
(* overlapping requests, and that it pays for no other turn's if a         *)
(* conversation has one request in progress at a time.  Both come from the *)
(* order of three readings of the clock: turn_started_at, the start of the *)
(* turn's own spans, and the start of everybody else's.                    *)
(***************************************************************************)
EXTENDS TurnBilling, FiniteSetTheorems, TLAPS

(* A turn stamps itself before it begins its first span.                   *)
StampsComeFirst ==
  \A r \in ChatRequests :
    /\ since[r] <= wallClock
    /\ \A n \in 1..calls[r] : since[r] <= startedAt[<<r, n>>]

(* Only begun spans are stored, and the one under way is not.              *)
StoredHaveBegun ==
  /\ \A r \in ChatRequests, n \in 1..MaxInvokes : <<r, n>> \in stored => n <= calls[r]
  /\ \A r \in ChatRequests : pc[r] = "invoking" => calls[r] >= 1 /\ Current(r) \notin stored

NoCallBeforeTheLock ==
  \A r \in ChatRequests :
    pc[r] \in {"new", "admitted", "waiting", "refused", "rejected"} => calls[r] = 0

(* A call that cost tokens has a row that says so, or ended its turn for want
   of a row.                                                               *)
PaidArePriced ==
  \A r \in ChatRequests, n \in 1..MaxInvokes :
    <<r, n>> \in paid =>
      \/ <<r, n>> \in priced
      \/ /\ n = calls[r] /\ pc[r] \in {"billing", "recording", "done", "gone"}
         /\ <<r, n>> \notin stored

(* What a turn reads back contains the calls it is to pay for.             *)
BillsAreComplete ==
  \A r \in ChatRequests :
    /\ pc[r] \in {"recording", "done"} =>
         \A n \in 1..MaxInvokes : <<r, n>> \in paid =>
           \/ <<r, n>> \in turnSpans[r]
           \/ n = calls[r] /\ <<r, n>> \notin stored
    /\ pc[r] = "done" /\ turnSpans[r] # {} => r \in recorded

BillingInv ==
  /\ BillingTypeOK /\ StampsComeFirst /\ StoredHaveBegun /\ NoCallBeforeTheLock
  /\ PaidArePriced /\ BillsAreComplete

-----------------------------------------------------------------------------
LEMMA SpanPairs ==
  /\ \A s \in Spans : s[1] \in ChatRequests /\ s[2] \in 1..MaxInvokes /\ s = <<s[1], s[2]>>
  /\ \A r \in ChatRequests, n \in 1..MaxInvokes : <<r, n>> \in Spans
BY DEF Spans

LEMMA BillingInitEstablishes == BillingInit => BillingInv
BY BillingAssumption, SpanPairs
DEF BillingInit, BillingInv, BillingTypeOK, StampsComeFirst, StoredHaveBegun,
    NoCallBeforeTheLock, PaidArePriced, BillsAreComplete, EndStates, Current

(* The steps of a request outside its model calls: they move it on and leave
   the spans and the bills alone.                                          *)
LEMMA PlainStepsPreserve ==
  ASSUME BillingInv, NEW r \in ChatRequests,
         AdmitTurn(r) \/ Reject(r) \/ StampTurn(r) \/ TakeLock(r) \/ TurnEnds(r)
  PROVE  BillingInv'
<1> USE BillingAssumption
<1>1. /\ UNCHANGED <<wallClock, calls, startedAt, stored, priced, paid, turnSpans, recorded>>
      /\ \/ since' = since
         \/ since' = [since EXCEPT ![r] = wallClock] /\ calls[r] = 0
      /\ pc[r] \notin {"billing", "recording", "done", "gone"}
  BY DEF AdmitTurn, Reject, StampTurn, TakeLock, TurnEnds, BillingInv, NoCallBeforeTheLock
<1>2. PICK to \in {"refused", "admitted", "rejected", "waiting", "running", "billing"} :
        /\ pc' = [pc EXCEPT ![r] = to]
        /\ to \in {"running", "billing"} \/ calls[r] = 0
  BY DEF AdmitTurn, Reject, StampTurn, TakeLock, TurnEnds, Move, BillingInv, NoCallBeforeTheLock
<1>3. BillingTypeOK'
  <2>1. pc' \in [ChatRequests -> EndStates \union {"new", "admitted", "waiting", "running",
                                         "invoking", "billing", "recording"}]
    BY <1>2 DEF BillingInv, BillingTypeOK, EndStates
  <2>2. since' \in [ChatRequests -> Nat]
    BY <1>1 DEF BillingInv, BillingTypeOK
  <2> QED
    BY <1>1, <2>1, <2>2 DEF BillingInv, BillingTypeOK
<1>4. StampsComeFirst'
  BY <1>1 DEF BillingInv, BillingTypeOK, StampsComeFirst
<1>5. StoredHaveBegun'
  BY <1>1, <1>2 DEF BillingInv, BillingTypeOK, StoredHaveBegun, Current
<1>6. NoCallBeforeTheLock'
  BY <1>1, <1>2 DEF BillingInv, BillingTypeOK, NoCallBeforeTheLock
<1>7. PaidArePriced'
  BY <1>1, <1>2 DEF BillingInv, BillingTypeOK, PaidArePriced
<1>8. BillsAreComplete'
  BY <1>1, <1>2 DEF BillingInv, BillingTypeOK, BillsAreComplete
<1> QED
  BY <1>3, <1>4, <1>5, <1>6, <1>7, <1>8 DEF BillingInv

LEMMA InvokePreserves ==
  ASSUME BillingInv, NEW r \in ChatRequests, Invoke(r)
  PROVE  BillingInv'
<1> USE BillingAssumption
<1> DEFINE n == calls[r] + 1
<1>1. /\ pc[r] = "running" /\ pc' = [pc EXCEPT ![r] = "invoking"]
      /\ calls' = [calls EXCEPT ![r] = n]
      /\ startedAt' = [startedAt EXCEPT ![<<r, n>>] = wallClock]
      /\ UNCHANGED <<wallClock, since, stored, priced, paid, turnSpans, recorded>>
      /\ n \in 1..MaxInvokes
  BY DEF Invoke, Move, BillingInv, BillingTypeOK
<1>2. calls'[r] = n /\ \A q \in ChatRequests \ {r} : calls'[q] = calls[q]
  BY <1>1 DEF BillingInv, BillingTypeOK
<1>3. /\ startedAt'[<<r, n>>] = wallClock
      /\ \A q \in ChatRequests, m \in 1..MaxInvokes :
           <<q, m>> # <<r, n>> => startedAt'[<<q, m>>] = startedAt[<<q, m>>]
  BY <1>1, SpanPairs DEF BillingInv, BillingTypeOK
<1>4. BillingTypeOK'
  <2>1. pc' \in [ChatRequests -> EndStates \union {"new", "admitted", "waiting", "running",
                                         "invoking", "billing", "recording"}]
    BY <1>1 DEF BillingInv, BillingTypeOK
  <2>2. startedAt' \in [Spans -> Nat]
    BY <1>1 DEF BillingInv, BillingTypeOK
  <2>3. n \in 0..MaxInvokes
    BY <1>1
  <2>4. calls' \in [ChatRequests -> 0..MaxInvokes]
    BY <1>1, <2>3 DEF BillingInv, BillingTypeOK
  <2> QED
    BY <1>1, <2>1, <2>2, <2>4 DEF BillingInv, BillingTypeOK
<1>5. StampsComeFirst'
  <2>1. ASSUME NEW q \in ChatRequests, NEW m \in 1..calls'[q]
        PROVE  since[q] <= startedAt'[<<q, m>>]
    <3>1. m \in 1..MaxInvokes
      BY <1>4, <2>1 DEF BillingTypeOK
    <3>2. CASE q = r /\ m = n
      BY <1>3, <3>2 DEF BillingInv, StampsComeFirst
    <3>3. CASE ~(q = r /\ m = n)
      <4>1. m \in 1..calls[q]
        BY <1>1, <1>2, <3>3 DEF BillingInv, BillingTypeOK
      <4> QED
        BY <4>1, <1>3, <3>1, <3>3 DEF BillingInv, StampsComeFirst
    <3> QED
      BY <3>2, <3>3
  <2> QED
    BY <1>1, <2>1 DEF BillingInv, StampsComeFirst
<1>6. StoredHaveBegun'
  <2>1. \A q \in ChatRequests, m \in 1..MaxInvokes : <<q, m>> \in stored' => m <= calls'[q]
    BY <1>1, <1>2 DEF BillingInv, BillingTypeOK, StoredHaveBegun
  <2>2. <<r, n>> \notin stored
    BY <1>1 DEF BillingInv, BillingTypeOK, StoredHaveBegun
  <2> QED
    BY <1>1, <1>2, <2>1, <2>2 DEF BillingInv, BillingTypeOK, StoredHaveBegun, Current
<1>7. NoCallBeforeTheLock'
  BY <1>1, <1>2 DEF BillingInv, BillingTypeOK, NoCallBeforeTheLock
<1>8. PaidArePriced'
  BY <1>1, <1>2 DEF BillingInv, BillingTypeOK, PaidArePriced
<1>9. BillsAreComplete'
  BY <1>1, <1>2 DEF BillingInv, BillingTypeOK, BillsAreComplete
<1> QED
  BY <1>4, <1>5, <1>6, <1>7, <1>8, <1>9 DEF BillingInv

LEMMA ReportsAreBoolean == \A reported \in Reports : reported \in BOOLEAN
BY BillingAssumption

(* A span stored when its call returns, fails or is abandoned              *)
LEMMA StoredSpanPreserves ==
  ASSUME BillingInv, NEW r \in ChatRequests, NEW to \in {"running", "billing", "gone"},
         NEW reported \in BOOLEAN,
         pc[r] = "invoking", Move(r, to), StoreSpan(r, reported),
         UNCHANGED <<wallClock, since, calls, startedAt, turnSpans, recorded>>
  PROVE  BillingInv'
<1> USE BillingAssumption
<1>1. /\ pc' = [pc EXCEPT ![r] = to]
      /\ stored' = stored \union {<<r, calls[r]>>}
      /\ \/ priced' = priced /\ paid' = paid
         \/ /\ priced' = priced \union {<<r, calls[r]>>}
            /\ paid' = paid \union {<<r, calls[r]>>}
      /\ priced' \subseteq stored' \intersect paid'
      /\ calls[r] \in 1..MaxInvokes
  <2>1. calls[r] \in 1..MaxInvokes
    BY DEF BillingInv, BillingTypeOK, StoredHaveBegun
  <2> QED
    BY <2>1 DEF Move, StoreSpan, PaidWith, Current, BillingInv, BillingTypeOK
<1>2. BillingTypeOK'
  BY <1>1, SpanPairs DEF BillingInv, BillingTypeOK, EndStates
<1>3. StampsComeFirst'
  BY DEF BillingInv, StampsComeFirst
<1>4. StoredHaveBegun'
  <2>1. \A q \in ChatRequests, n \in 1..MaxInvokes : <<q, n>> \in stored' => n <= calls[q]
    BY <1>1 DEF BillingInv, BillingTypeOK, StoredHaveBegun
  <2>2. \A q \in ChatRequests : pc'[q] = "invoking" => q # r /\ pc[q] = "invoking"
    BY <1>1 DEF BillingInv, BillingTypeOK
  <2>3. \A q \in ChatRequests : q # r => <<q, calls[q]>> # <<r, calls[r]>>
    OBVIOUS
  <2> QED
    BY <1>1, <2>1, <2>2, <2>3 DEF BillingInv, StoredHaveBegun, Current
<1>5. NoCallBeforeTheLock'
  BY <1>1 DEF BillingInv, BillingTypeOK, NoCallBeforeTheLock
<1>6. PaidArePriced'
  <2>1. \A n \in 1..MaxInvokes : <<r, n>> \in paid => <<r, n>> \in priced
    BY DEF BillingInv, PaidArePriced
  <2>2. <<r, calls[r]>> \notin paid
    BY <1>1, <2>1 DEF BillingInv, BillingTypeOK, StoredHaveBegun, Current
  <2>3. \A n \in 1..MaxInvokes : <<r, n>> \in paid' => <<r, n>> \in priced'
    BY <1>1, <2>1
  <2>4. ASSUME NEW q \in ChatRequests, q # r, NEW n \in 1..MaxInvokes, <<q, n>> \in paid'
        PROVE  \/ <<q, n>> \in priced'
               \/ /\ n = calls[q] /\ pc'[q] \in {"billing", "recording", "done", "gone"}
                  /\ <<q, n>> \notin stored'
    BY <1>1, <2>4 DEF BillingInv, BillingTypeOK, PaidArePriced
  <2> QED
    BY <2>3, <2>4 DEF PaidArePriced
<1>7. BillsAreComplete'
  BY <1>1 DEF BillingInv, BillingTypeOK, BillsAreComplete
<1> QED
  BY <1>2, <1>3, <1>4, <1>5, <1>6, <1>7 DEF BillingInv

(* A call whose row could not be written ends its turn.                    *)
LEMMA LostSpanPreserves ==
  ASSUME BillingInv, NEW r \in ChatRequests, NEW reported \in BOOLEAN,
         pc[r] = "invoking", Move(r, "billing"), LoseSpan(r, reported),
         UNCHANGED <<wallClock, since, calls, startedAt, turnSpans, recorded>>
  PROVE  BillingInv'
<1> USE BillingAssumption
<1>1. /\ pc' = [pc EXCEPT ![r] = "billing"]
      /\ UNCHANGED <<stored, priced>>
      /\ paid' = paid \/ paid' = paid \union {<<r, calls[r]>>}
      /\ calls[r] \in 1..MaxInvokes /\ <<r, calls[r]>> \notin stored
  <2>1. calls[r] \in 1..MaxInvokes /\ <<r, calls[r]>> \notin stored
    BY DEF BillingInv, BillingTypeOK, StoredHaveBegun, Current
  <2> QED
    BY <2>1 DEF Move, LoseSpan, PaidWith, Current
<1>2. BillingTypeOK'
  BY <1>1, SpanPairs DEF BillingInv, BillingTypeOK, EndStates
<1>3. StampsComeFirst'
  BY DEF BillingInv, StampsComeFirst
<1>4. StoredHaveBegun'
  BY <1>1 DEF BillingInv, BillingTypeOK, StoredHaveBegun, Current
<1>5. NoCallBeforeTheLock'
  BY <1>1 DEF BillingInv, BillingTypeOK, NoCallBeforeTheLock
<1>6. PaidArePriced'
  BY <1>1 DEF BillingInv, BillingTypeOK, PaidArePriced
<1>7. BillsAreComplete'
  BY <1>1 DEF BillingInv, BillingTypeOK, BillsAreComplete
<1> QED
  BY <1>2, <1>3, <1>4, <1>5, <1>6, <1>7 DEF BillingInv

LEMMA ReadSpansPreserves ==
  ASSUME BillingInv, NEW r \in ChatRequests, ReadSpans(r)
  PROVE  BillingInv'
<1> USE BillingAssumption
<1>1. PICK to \in {"done", "recording"} :
      /\ pc' = [pc EXCEPT ![r] = to] /\ pc[r] = "billing"
      /\ to = "done" => SpansSince(r) = {}
      /\ turnSpans' = [turnSpans EXCEPT ![r] = SpansSince(r)]
      /\ UNCHANGED <<wallClock, since, calls, startedAt, stored, priced, paid, recorded>>
  BY DEF ReadSpans, Move
<1>2. BillingTypeOK'
  BY <1>1 DEF BillingInv, BillingTypeOK, EndStates, SpansSince
<1>3. turnSpans'[r] = SpansSince(r) /\ \A q \in ChatRequests \ {r} : turnSpans'[q] = turnSpans[q]
  BY <1>1 DEF BillingInv, BillingTypeOK
<1>4. \A n \in 1..MaxInvokes : <<r, n>> \in stored => <<r, n>> \in SpansSince(r)
  <2> SUFFICES ASSUME NEW n \in 1..MaxInvokes, <<r, n>> \in stored
               PROVE  <<r, n>> \in SpansSince(r)
    OBVIOUS
  <2>1. <<r, n>> \in stored /\ n <= calls[r]
    BY DEF BillingInv, BillingTypeOK, StoredHaveBegun
  <2>2. since[r] <= startedAt[<<r, n>>]
    BY <2>1 DEF BillingInv, BillingTypeOK, StampsComeFirst
  <2>3. startedAt[<<r, n>>] \in Nat /\ since[r] \in Nat
    BY SpanPairs DEF BillingInv, BillingTypeOK
  <2> QED
    BY <2>1, <2>2, <2>3 DEF SpansSince, ThreadOfSpan
<1>5. StampsComeFirst' /\ StoredHaveBegun' /\ NoCallBeforeTheLock' /\ PaidArePriced'
  BY <1>1 DEF BillingInv, BillingTypeOK, StampsComeFirst, StoredHaveBegun,
              NoCallBeforeTheLock, PaidArePriced, Current
<1>6. BillsAreComplete'
  BY <1>1, <1>3, <1>4 DEF BillingInv, BillingTypeOK, PaidArePriced, BillsAreComplete
<1> QED
  BY <1>2, <1>5, <1>6 DEF BillingInv

(* The end of the handler, with its row in budget_usage or without         *)
LEMMA EndPreserves ==
  ASSUME BillingInv, NEW r \in ChatRequests, NEW to \in {"done", "gone"}, Live(r), Move(r, to),
         to = "done" => pc[r] = "recording" /\ r \in recorded',
         recorded' = recorded \union {r} \/ recorded' = recorded,
         UNCHANGED <<wallClock, since, calls, startedAt, stored, priced, paid, turnSpans>>
  PROVE  BillingInv'
<1> USE BillingAssumption
<1>1. pc' = [pc EXCEPT ![r] = to]
  BY DEF Move
<1>2. BillingTypeOK'
  BY <1>1 DEF BillingInv, BillingTypeOK, EndStates
<1>3. StampsComeFirst' /\ StoredHaveBegun' /\ NoCallBeforeTheLock' /\ PaidArePriced'
  BY <1>1 DEF BillingInv, BillingTypeOK, StampsComeFirst, StoredHaveBegun,
              NoCallBeforeTheLock, PaidArePriced, Live, EndStates, Current
<1>4. BillsAreComplete'
  BY <1>1 DEF BillingInv, BillingTypeOK, BillsAreComplete
<1> QED
  BY <1>2, <1>3, <1>4 DEF BillingInv

LEMMA BillingStepPreserves == BillingInv /\ [BillingNext]_billingVars => BillingInv'
<1> SUFFICES ASSUME BillingInv, [BillingNext]_billingVars PROVE BillingInv'
  OBVIOUS
<1>1. ASSUME NEW r \in ChatRequests,
             AdmitTurn(r) \/ Reject(r) \/ StampTurn(r) \/ TakeLock(r) \/ TurnEnds(r)
      PROVE  BillingInv'
  BY <1>1, PlainStepsPreserve
<1>2. ASSUME NEW r \in ChatRequests, Invoke(r) PROVE BillingInv'
  BY <1>2, InvokePreserves
<1>3. ASSUME NEW r \in ChatRequests, InvokeReturns(r) PROVE BillingInv'
  BY <1>3, StoredSpanPreserves, ReportsAreBoolean DEF InvokeReturns
<1>4. ASSUME NEW r \in ChatRequests, InvokeFails(r) PROVE BillingInv'
  BY <1>4, StoredSpanPreserves, LostSpanPreserves, ReportsAreBoolean DEF InvokeFails
<1>5. ASSUME NEW r \in ChatRequests, ReadSpans(r) PROVE BillingInv'
  BY <1>5, ReadSpansPreserves
<1>6. ASSUME NEW r \in ChatRequests, RecordUsage(r) PROVE BillingInv'
  BY <1>6, EndPreserves DEF RecordUsage, Live, EndStates
<1>7. ASSUME NEW r \in ChatRequests, Disconnect(r) PROVE BillingInv'
  BY <1>7, EndPreserves, StoredSpanPreserves, ReportsAreBoolean DEF Disconnect
<1>8. CASE BillingTick
  BY <1>8 DEF BillingTick, BillingInv, BillingTypeOK, StampsComeFirst, StoredHaveBegun,
              NoCallBeforeTheLock, PaidArePriced, BillsAreComplete, Current
<1>9. CASE UNCHANGED billingVars
  BY <1>9 DEF billingVars, BillingInv, BillingTypeOK, StampsComeFirst, StoredHaveBegun,
              NoCallBeforeTheLock, PaidArePriced, BillsAreComplete, Current
<1> QED
  BY <1>1, <1>2, <1>3, <1>4, <1>5, <1>6, <1>7, <1>8, <1>9 DEF BillingNext

(* The order of stamps and spans is kept whatever overlaps, fails or breaks
   off.                                                                    *)
THEOREM BillingInvariant == BillingSpec => []BillingInv
BY BillingInitEstablishes, BillingStepPreserves, PTL DEF BillingSpec

(* Every variable keeps its type: no bill names a span that has no row.    *)
THEOREM BillingTypeCorrect == BillingSpec => []BillingTypeOK
<1>1. BillingInv => BillingTypeOK
  BY DEF BillingInv
<1> QED
  BY <1>1, BillingInvariant, PTL

(* Every turn that ends pays for the calls it made, but for a last one that
   left no row behind.                                                     *)
THEOREM FinishedTurnsAreBilled == BillingSpec => []FinishedTurnsPay
<1>1. BillingInv => FinishedTurnsPay
  BY SpanPairs DEF BillingInv, BillingTypeOK, PaidArePriced, BillsAreComplete,
                 FinishedTurnsPay, Current
<1> QED
  BY <1>1, BillingInvariant, PTL

-----------------------------------------------------------------------------
(* One request of a conversation in progress at a time                     *)

OneAtATime ==
  \A q, r \in ChatRequests : q # r /\ ThreadOf[q] = ThreadOf[r] => ~(Live(q) /\ Live(r))

(* Once a turn is stamped, what others paid for on its conversation is older. *)
OthersAreOlder ==
  \A r, q \in ChatRequests, n \in 1..MaxInvokes :
    /\ Live(r) /\ pc[r] # "admitted"
    /\ q # r /\ ThreadOf[q] = ThreadOf[r] /\ <<q, n>> \in priced
    => startedAt[<<q, n>>] < since[r]

BillsAreOwn ==
  \A r, q \in ChatRequests, n \in 1..MaxInvokes :
    <<q, n>> \in turnSpans[r] /\ <<q, n>> \in priced => q = r

SInv == BillingInv /\ OneAtATime /\ OthersAreOlder /\ BillsAreOwn

LEMMA AdmitSeparates ==
  ASSUME MaxPerThread = 1, SInv, NEW r \in ChatRequests, AdmitTurn(r)
  PROVE  (OneAtATime /\ OthersAreOlder /\ BillsAreOwn)'
<1> USE BillingAssumption
<1>1. PICK to \in {"refused", "admitted"} : pc' = [pc EXCEPT ![r] = to]
  BY DEF AdmitTurn, Move
<1>2. UNCHANGED <<wallClock, since, calls, startedAt, stored, priced, paid, turnSpans, recorded>>
  BY DEF AdmitTurn
<1>3. InProgress(ThreadOf[r]) = {}
  <2>1. IsFiniteSet(InProgress(ThreadOf[r]))
    BY FS_Subset DEF InProgress
  <2>2. Cardinality(InProgress(ThreadOf[r])) \in Nat
        /\ Cardinality(InProgress(ThreadOf[r])) < 1
    BY <2>1, FS_CardinalityType DEF AdmitTurn
  <2> QED
    BY <2>1, <2>2, FS_EmptySet
<1>4. \A q \in ChatRequests \ {r} : ThreadOf[q] = ThreadOf[r] => ~Live(q)
  BY <1>3 DEF InProgress
<1>5. \A q \in ChatRequests \ {r} : pc'[q] = pc[q]
  BY <1>1 DEF SInv, BillingInv, BillingTypeOK
<1>6. OneAtATime'
  BY <1>4, <1>5 DEF SInv, OneAtATime, Live
<1>7. pc'[r] \in {"refused", "admitted"}
  BY <1>1 DEF SInv, BillingInv, BillingTypeOK
<1>8. OthersAreOlder'
  BY <1>2, <1>5, <1>7 DEF SInv, OthersAreOlder, Live, EndStates
<1>9. BillsAreOwn'
  BY <1>2 DEF SInv, BillsAreOwn
<1> QED
  BY <1>6, <1>8, <1>9

(* Every other step of a request keeps it in progress or ends it.          *)
LEMMA StepsSeparate ==
  ASSUME SInv, NEW r \in ChatRequests,
         \/ Reject(r) \/ StampTurn(r) \/ TakeLock(r) \/ Invoke(r) \/ InvokeReturns(r)
         \/ InvokeFails(r) \/ TurnEnds(r) \/ ReadSpans(r) \/ RecordUsage(r) \/ Disconnect(r)
  PROVE  (OneAtATime /\ OthersAreOlder /\ BillsAreOwn)'
<1> USE BillingAssumption
<1>1. PICK to : pc' = [pc EXCEPT ![r] = to]
  BY DEF Reject, StampTurn, TakeLock, Invoke, InvokeReturns, InvokeFails, TurnEnds,
         ReadSpans, RecordUsage, Disconnect, Move
<1>2. Live(r)
  BY DEF Reject, StampTurn, TakeLock, Invoke, InvokeReturns, InvokeFails, TurnEnds,
         ReadSpans, RecordUsage, Disconnect, Live, EndStates
<1>3. pc'[r] = to /\ \A q \in ChatRequests \ {r} : pc'[q] = pc[q]
  BY <1>1 DEF SInv, BillingInv, BillingTypeOK
<1>4. OneAtATime'
  BY <1>2, <1>3 DEF SInv, OneAtATime, Live
<1>5. \A q \in ChatRequests \ {r} : ThreadOf[q] = ThreadOf[r] => ~Live(q) /\ ~Live(q)'
  BY <1>2, <1>3 DEF SInv, OneAtATime, Live
<1>6. CASE Reject(r) \/ TakeLock(r) \/ TurnEnds(r) \/ RecordUsage(r)
  <2>1. UNCHANGED <<wallClock, since, startedAt, stored, priced, paid, turnSpans>>
        /\ (pc[r] = "admitted" => ~Live(r)')
    BY <1>3, <1>6 DEF Reject, TakeLock, TurnEnds, RecordUsage, Move, Live, EndStates,
                      SInv, BillingInv, BillingTypeOK
  <2>2. OthersAreOlder'
    BY <1>2, <1>3, <2>1 DEF SInv, OthersAreOlder, Live
  <2> QED
    BY <1>4, <2>1, <2>2 DEF SInv, BillsAreOwn
<1>7. CASE StampTurn(r)
  <2>1. /\ since' = [since EXCEPT ![r] = wallClock]
        /\ UNCHANGED <<wallClock, startedAt, stored, priced, paid, turnSpans>>
        /\ \A s \in priced : ThreadOfSpan(s) = ThreadOf[r] => startedAt[s] < wallClock
    BY <1>7 DEF StampTurn
  <2>2. since'[r] = wallClock /\ \A q \in ChatRequests \ {r} : since'[q] = since[q]
    BY <2>1 DEF SInv, BillingInv, BillingTypeOK
  <2>3. OthersAreOlder'
    BY <1>3, <2>1, <2>2 DEF SInv, OthersAreOlder, Live, ThreadOfSpan
  <2> QED
    BY <1>4, <2>1, <2>3 DEF SInv, BillsAreOwn
<1>8. CASE Invoke(r)
  <2>1. /\ startedAt' = [startedAt EXCEPT ![<<r, calls[r] + 1>>] = wallClock]
        /\ UNCHANGED <<wallClock, since, stored, priced, paid, turnSpans>>
        /\ pc[r] = "running"
    BY <1>8 DEF Invoke
  <2>2. <<r, calls[r] + 1>> \notin priced
    BY <1>8 DEF Invoke, SInv, BillingInv, BillingTypeOK, StoredHaveBegun
  <2>3. \A s \in priced : startedAt'[s] = startedAt[s]
    BY <2>1, <2>2 DEF SInv, BillingInv, BillingTypeOK
  <2>4. OthersAreOlder'
    BY <1>2, <1>3, <2>1, <2>3 DEF SInv, OthersAreOlder, Live
  <2> QED
    BY <1>4, <2>1, <2>4 DEF SInv, BillsAreOwn
<1>9. ASSUME NEW reported \in BOOLEAN, pc[r] = "invoking", StoreSpan(r, reported),
             UNCHANGED <<wallClock, since, startedAt, turnSpans>>
      PROVE  (OthersAreOlder /\ BillsAreOwn)'
  <2>1. priced' \subseteq priced \union {<<r, calls[r]>>} /\ <<r, calls[r]>> \notin stored
    BY <1>9 DEF StoreSpan, Current, SInv, BillingInv, StoredHaveBegun
  <2>2. \A q \in ChatRequests, n \in 1..MaxInvokes :
          <<q, n>> \in priced' /\ q # r => <<q, n>> \in priced
    BY <2>1
  <2>3. OthersAreOlder'
    BY <1>2, <1>3, <1>5, <1>9, <2>2 DEF SInv, OthersAreOlder, Live
  <2>4. \A q \in ChatRequests : <<r, calls[r]>> \notin turnSpans[q]
    BY <2>1 DEF SInv, BillingInv, BillingTypeOK
  <2>5. BillsAreOwn'
    BY <1>9, <2>1, <2>4 DEF SInv, BillsAreOwn
  <2> QED
    BY <2>3, <2>5
<1>10. CASE InvokeReturns(r) \/ InvokeFails(r)
  <2>1. ASSUME UNCHANGED <<since, startedAt, stored, priced, turnSpans>>, pc[r] = "invoking"
        PROVE  (OthersAreOlder /\ BillsAreOwn)'
    BY <1>2, <1>3, <2>1 DEF SInv, OthersAreOlder, BillsAreOwn, Live
  <2> QED
    BY <1>4, <1>9, <1>10, <2>1 DEF InvokeReturns, InvokeFails, LoseSpan
<1>11. CASE ReadSpans(r)
  <2>1. /\ turnSpans' = [turnSpans EXCEPT ![r] = SpansSince(r)] /\ pc[r] = "billing"
        /\ UNCHANGED <<wallClock, since, startedAt, stored, priced, paid>>
    BY <1>11 DEF ReadSpans
  <2>2. turnSpans'[r] = SpansSince(r) /\ \A q \in ChatRequests \ {r} : turnSpans'[q] = turnSpans[q]
    BY <2>1 DEF SInv, BillingInv, BillingTypeOK
  <2>3. \A q \in ChatRequests, n \in 1..MaxInvokes :
          <<q, n>> \in SpansSince(r) /\ <<q, n>> \in priced => q = r
    <3> SUFFICES ASSUME NEW q \in ChatRequests, NEW n \in 1..MaxInvokes, q # r,
                        <<q, n>> \in SpansSince(r), <<q, n>> \in priced
                 PROVE  FALSE
      OBVIOUS
    <3>1. ThreadOf[q] = ThreadOf[r] /\ startedAt[<<q, n>>] >= since[r]
      BY DEF SpansSince, ThreadOfSpan
    <3>2. startedAt[<<q, n>>] < since[r]
      BY <1>2, <2>1, <3>1 DEF SInv, OthersAreOlder
    <3>3. startedAt[<<q, n>>] \in Nat /\ since[r] \in Nat
      BY SpanPairs DEF SInv, BillingInv, BillingTypeOK
    <3> QED
      BY <3>1, <3>2, <3>3
  <2>4. BillsAreOwn'
    BY <2>1, <2>2, <2>3 DEF SInv, BillsAreOwn
  <2>5. OthersAreOlder'
    BY <1>2, <1>3, <2>1 DEF SInv, OthersAreOlder, Live
  <2> QED
    BY <1>4, <2>4, <2>5
<1>12. CASE Disconnect(r)
  <2>1. ~Live(r)' /\ UNCHANGED <<wallClock, since, startedAt, turnSpans>>
    BY <1>3, <1>12 DEF Disconnect, Move, Live, EndStates, SInv, BillingInv, BillingTypeOK
  <2>2. CASE UNCHANGED priced
    <3>1. OthersAreOlder'
      BY <1>3, <2>1, <2>2 DEF SInv, OthersAreOlder, Live
    <3> QED
      BY <1>4, <2>1, <2>2, <3>1 DEF SInv, BillsAreOwn
  <2>3. CASE pc[r] = "invoking" /\ \E reported \in Reports : StoreSpan(r, reported)
    BY <1>4, <1>9, <2>1, <2>3
  <2> QED
    BY <1>12, <2>2, <2>3 DEF Disconnect
<1> QED
  BY <1>6, <1>7, <1>8, <1>10, <1>11, <1>12

LEMMA BillsStayApart ==
  ASSUME MaxPerThread = 1
  PROVE  BillingSpec => []SInv
<1>1. BillingInit => SInv
  BY BillingInitEstablishes, BillingAssumption
  DEF BillingInit, SInv, OneAtATime, OthersAreOlder, BillsAreOwn, Live
<1>2. SInv /\ [BillingNext]_billingVars => SInv'
  <2> SUFFICES ASSUME SInv, [BillingNext]_billingVars PROVE SInv'
    OBVIOUS
  <2>1. BillingInv'
    BY BillingStepPreserves DEF SInv
  <2>2. ASSUME NEW r \in ChatRequests, AdmitTurn(r)
        PROVE  (OneAtATime /\ OthersAreOlder /\ BillsAreOwn)'
    BY <2>2, AdmitSeparates
  <2>3. ASSUME NEW r \in ChatRequests,
               \/ Reject(r) \/ StampTurn(r) \/ TakeLock(r) \/ Invoke(r) \/ InvokeReturns(r)
               \/ InvokeFails(r) \/ TurnEnds(r) \/ ReadSpans(r) \/ RecordUsage(r)
               \/ Disconnect(r)
        PROVE  (OneAtATime /\ OthersAreOlder /\ BillsAreOwn)'
    BY <2>3, StepsSeparate
  <2>4. CASE BillingTick \/ UNCHANGED billingVars
    <3>1. UNCHANGED <<pc, since, startedAt, priced, turnSpans>>
      BY <2>4 DEF BillingTick, billingVars
    <3>2. \A r \in ChatRequests : Live(r)' = Live(r)
      BY <3>1 DEF Live
    <3>3. OneAtATime'
      BY <3>2 DEF SInv, OneAtATime
    <3>4. OthersAreOlder'
      BY <3>1, <3>2 DEF SInv, OthersAreOlder
    <3>5. BillsAreOwn'
      BY <3>1 DEF SInv, BillsAreOwn
    <3> QED
      BY <2>1, <3>3, <3>4, <3>5 DEF SInv
  <2> QED
    BY <2>1, <2>2, <2>3, <2>4 DEF BillingNext, SInv
<1> QED
  BY <1>1, <1>2, PTL DEF BillingSpec

(* No model call is billed by a turn that did not make it, provided each
   conversation has one request in progress at a time.                     *)
THEOREM TurnsPayTheirOwn ==
  ASSUME MaxPerThread = 1
  PROVE  BillingSpec => []TurnsPayOnlyTheirOwn
<1>1. SInv => TurnsPayOnlyTheirOwn
  BY SpanPairs DEF SInv, BillingInv, BillingTypeOK, BillsAreOwn, TurnsPayOnlyTheirOwn
<1> QED
  BY <1>1, BillsStayApart, PTL

-----------------------------------------------------------------------------
(* A refusal is earned                                                     *)

Worth(u) == {s \in priced : Owner(s[1]) = u}
Bills(u) == {e \in recorded \X priced : Owner(e[1]) = u /\ e[2] \in turnSpans[e[1]]}

LEMMA SpansAreFinite == IsFiniteSet(Spans)
<1>1. IsFiniteSet(1..MaxInvokes)
  BY BillingAssumption, FS_Interval
<1> QED
  BY <1>1, BillingAssumption, FS_Product DEF Spans

LEMMA WorthIsFinite ==
  ASSUME BillingInv, NEW u
  PROVE  IsFiniteSet(Worth(u)) /\ Cardinality(Worth(u)) \in Nat
<1>1. Worth(u) \subseteq Spans
  BY DEF Worth, BillingInv, BillingTypeOK
<1> QED
  BY <1>1, SpansAreFinite, FS_Subset, FS_CardinalityType

(* No span is in two bills, so what is billed to a user is no more than what
   his calls were worth.                                                   *)
LEMMA BillsAreWorth ==
  ASSUME SInv, NEW u
  PROVE  IsFiniteSet(Bills(u)) /\ SpentBy(u) \in Nat /\ SpentBy(u) <= Cardinality(Worth(u))
<1> DEFINE billed == [e \in Bills(u) |-> e[2]]
<1>1. ASSUME NEW e \in Bills(u)
      PROVE  e = <<e[1], e[2]>> /\ e[2] \in Worth(u) /\ e[2][1] = e[1]
  <2>1. /\ e[1] \in ChatRequests /\ e[2] \in priced /\ e[2] \in turnSpans[e[1]]
        /\ e = <<e[1], e[2]>> /\ Owner(e[1]) = u
    BY DEF Bills, SInv, BillingInv, BillingTypeOK
  <2>2. e[2] \in Spans
    BY <2>1 DEF SInv, BillingInv, BillingTypeOK
  <2>3. e[2][1] = e[1]
    BY <2>1, <2>2, SpanPairs DEF SInv, BillsAreOwn
  <2> QED
    BY <2>1, <2>3 DEF Worth
<1>2. billed \in [Bills(u) -> Worth(u)]
  BY <1>1
<1>3. \A d, e \in Bills(u) : billed[d] = billed[e] => d = e
  BY <1>1
<1>4. billed \in Injection(Bills(u), Worth(u))
  BY <1>2, <1>3 DEF Injection, IsInjective
<1>5. IsFiniteSet(Bills(u)) /\ Cardinality(Bills(u)) <= Cardinality(Worth(u))
  BY <1>4, WorthIsFinite, FS_Injection DEF SInv
<1> QED
  BY <1>5, FS_CardinalityType DEF SpentBy, Bills

(* Calls that were paid for stay paid for.                                 *)
LEMMA WorthGrows ==
  ASSUME SInv, BillingInv', [BillingNext]_billingVars, NEW u
  PROVE  Cardinality(Worth(u)) <= Cardinality(Worth(u)')
<1>1. priced \subseteq priced'
  BY DEF BillingNext, AdmitTurn, Reject, StampTurn, TakeLock, Invoke, InvokeReturns, InvokeFails,
     StoreSpan, LoseSpan, TurnEnds, ReadSpans, RecordUsage, Disconnect, BillingTick, billingVars
<1>2. Worth(u) \subseteq Worth(u)'
  BY <1>1 DEF Worth, Owner
<1>3. IsFiniteSet(Worth(u)')
  <2>1. Worth(u)' \subseteq Spans
    BY DEF Worth, BillingInv, BillingTypeOK
  <2> QED
    BY <2>1, SpansAreFinite, FS_Subset
<1> QED
  BY <1>2, <1>3, FS_Subset

LEMMA RefusalStep ==
  ASSUME SInv, SInv', RefusalIsEarned, [BillingNext]_billingVars
  PROVE  RefusalIsEarned'
<1> SUFFICES ASSUME NEW r \in ChatRequests, pc'[r] = "refused"
             PROVE  Cardinality(Worth(Owner(r))') >= Limit
  BY DEF RefusalIsEarned, Worth, Owner
<1> DEFINE u == Owner(r)
<1>1. /\ Cardinality(Worth(u)) \in Nat /\ Cardinality(Worth(u)') \in Nat
      /\ Cardinality(Worth(u)) <= Cardinality(Worth(u)')
  <2>1. Cardinality(Worth(u)) \in Nat
    BY WorthIsFinite DEF SInv
  <2>2. Cardinality(Worth(u)') \in Nat
    <3>1. Worth(u)' \subseteq Spans
      BY DEF Worth, SInv, BillingInv, BillingTypeOK
    <3> QED
      BY <3>1, SpansAreFinite, FS_Subset, FS_CardinalityType
  <2> QED
    BY <2>1, <2>2, WorthGrows DEF SInv
<1>2. CASE pc[r] = "refused"
  BY <1>1, <1>2, BillingAssumption DEF RefusalIsEarned, Worth
<1>3. CASE pc[r] # "refused"
  <2>1. AdmitTurn(r)
    BY <1>3 DEF BillingNext, AdmitTurn, Reject, StampTurn, TakeLock, Invoke, InvokeReturns, InvokeFails,
       TurnEnds, ReadSpans, RecordUsage, Disconnect, Move, BillingTick, billingVars, SInv, BillingInv, BillingTypeOK
  <2>2. Exceeded(u)
    BY <2>1 DEF AdmitTurn, Move, SInv, BillingInv, BillingTypeOK
  <2>3. SpentBy(u) \in Nat /\ SpentBy(u) <= Cardinality(Worth(u)) /\ SpentBy(u) >= Limit
    BY <2>2, BillsAreWorth DEF Exceeded
  <2> QED
    BY <1>1, <2>3, BillingAssumption
<1> QED
  BY <1>2, <1>3

(* Whoever is refused with 402 has had calls worth the limit made for his
   own conversations; with overlapping requests a call could count twice.  *)
THEOREM RefusalsAreEarned ==
  ASSUME MaxPerThread = 1
  PROVE  BillingSpec => []RefusalIsEarned
<1>1. BillingInit => RefusalIsEarned
  BY DEF BillingInit, RefusalIsEarned
<1> QED
  BY <1>1, RefusalStep, BillsStayApart, PTL DEF BillingSpec

-----------------------------------------------------------------------------
(* The overshoot is bounded: what is billed and what the requests in progress
   may still cost stay together within the limit and one turn per thread.  *)

LiveOf(u) == {r \in ChatRequests : Live(r) /\ Owner(r) = u}

RecordedAreOver == \A r \in recorded : ~Live(r) /\ pc[r] # "new"

RoomIsLeft ==
  Limit > 0 =>
    \A u \in Payers : SpentBy(u) + MaxInvokes * Cardinality(LiveOf(u))
                       <= (Limit - 1) + MaxInvokes * Cardinality(ThreadsOf(u))

Own(r) == {r} \X ({r} \X (1..MaxInvokes))

LEMMA OwnCounts ==
  ASSUME NEW r
  PROVE  IsFiniteSet(Own(r)) /\ Cardinality(Own(r)) = MaxInvokes
<1>1. IsFiniteSet(1..MaxInvokes) /\ Cardinality(1..MaxInvokes) = MaxInvokes
  BY BillingAssumption, FS_Interval
<1>2. IsFiniteSet({r}) /\ Cardinality({r}) = 1
  BY FS_Singleton
<1>3. /\ IsFiniteSet({r} \X (1..MaxInvokes))
      /\ Cardinality({r} \X (1..MaxInvokes)) = 1 * MaxInvokes
  BY <1>1, <1>2, FS_Product
<1>4. IsFiniteSet(Own(r)) /\ Cardinality(Own(r)) = 1 * (1 * MaxInvokes)
  BY <1>2, <1>3, FS_Product DEF Own
<1> QED
  BY <1>4, BillingAssumption

LEMMA RoomGrows ==
  ASSUME NEW m \in Nat, NEW n \in Nat
  PROVE  /\ MaxInvokes * m \in Nat
         /\ m <= n => MaxInvokes * m <= MaxInvokes * n
         /\ MaxInvokes * (m + 1) = MaxInvokes * m + MaxInvokes
BY BillingAssumption

LEMMA OneEachFits ==
  ASSUME IsFiniteSet(Conversations), NEW u, NEW S \in SUBSET ChatRequests,
         \A r \in S : Owner(r) = u,
         \A q, r \in S : ThreadOf[q] = ThreadOf[r] => q = r
  PROVE  /\ Cardinality(S) \in Nat /\ Cardinality(ThreadsOf(u)) \in Nat
         /\ Cardinality(S) <= Cardinality(ThreadsOf(u))
<1> DEFINE f == [r \in S |-> ThreadOf[r]]
<1>1. IsFiniteSet(ThreadsOf(u)) /\ Cardinality(ThreadsOf(u)) \in Nat
  BY FS_Subset, FS_CardinalityType DEF ThreadsOf
<1>2. f \in [S -> ThreadsOf(u)]
  BY BillingAssumption DEF ThreadsOf, Owner
<1>3. f \in Injection(S, ThreadsOf(u))
  BY <1>2 DEF Injection, IsInjective
<1> QED
  BY <1>1, <1>3, FS_Injection, FS_CardinalityType

(* Without a new row no bill grows: a span is priced before it is read back,
   and what an unrecorded request reads back is no bill yet.               *)
LEMMA BillsStay ==
  ASSUME SInv, RecordedAreOver, [BillingNext]_billingVars, recorded' = recorded, NEW u
  PROVE  Bills(u)' \subseteq Bills(u)
<1> USE DEF SInv, BillingInv, BillingTypeOK
<1>1. SUFFICES ASSUME NEW e \in recorded, NEW s \in priced', s \in turnSpans'[e]
               PROVE  s \in priced /\ s \in turnSpans[e]
  BY DEF Bills, Owner
<1>2. ASSUME NEW r \in ChatRequests, NEW reported \in BOOLEAN, pc[r] = "invoking",
             StoreSpan(r, reported), UNCHANGED turnSpans
      PROVE  s \in priced /\ s \in turnSpans[e]
  BY <1>1, <1>2 DEF StoreSpan, StoredHaveBegun
<1>3. ASSUME NEW r \in ChatRequests, ReadSpans(r) PROVE s \in priced /\ s \in turnSpans[e]
  BY <1>1, <1>3 DEF ReadSpans, RecordedAreOver, Live, EndStates
<1>4. CASE UNCHANGED <<priced, turnSpans>>
  BY <1>1, <1>4
<1>5. ASSUME NEW r \in ChatRequests, InvokeReturns(r) \/ InvokeFails(r) \/ Disconnect(r)
      PROVE  s \in priced /\ s \in turnSpans[e]
  BY <1>2, <1>4, <1>5, ReportsAreBoolean DEF InvokeReturns, InvokeFails, LoseSpan, Disconnect
<1> QED
  BY <1>3, <1>4, <1>5 DEF BillingNext, AdmitTurn, Reject, StampTurn, TakeLock, Invoke, TurnEnds,
     RecordUsage, BillingTick, billingVars

(* A new row adds a request's own calls to its owner's bill.               *)
LEMMA BillAdded ==
  ASSUME SInv, NEW r \in ChatRequests, recorded' = recorded \union {r},
         UNCHANGED <<priced, turnSpans>>, NEW u
  PROVE  /\ Bills(u)' \subseteq Bills(u) \union Own(r)
         /\ u # Owner(r) => Bills(u)' \subseteq Bills(u)
<1> SUFFICES ASSUME NEW e \in recorded', NEW s \in priced, s \in turnSpans[e], Owner(e) = u
             PROVE  \/ <<e, s>> \in Bills(u)
                    \/ u = Owner(r) /\ <<e, s>> \in Own(r)
  BY DEF Bills, Owner
<1>1. CASE e \in recorded
  BY <1>1 DEF Bills
<1>2. CASE e = r
  <2>1. s \in Spans
    BY DEF SInv, BillingInv, BillingTypeOK
  <2>2. s = <<r, s[2]>> /\ s[2] \in 1..MaxInvokes
    BY <1>2, <2>1, SpanPairs DEF SInv, BillsAreOwn
  <2> QED
    BY <1>2, <2>2 DEF Own
<1> QED
  BY <1>1, <1>2

LEMMA LiveShrinks ==
  ASSUME SInv, [BillingNext]_billingVars, NEW u, \A r \in ChatRequests : AdmitTurn(r) => Owner(r) # u
  PROVE  LiveOf(u)' \subseteq LiveOf(u)
<1> USE DEF SInv, BillingInv, BillingTypeOK
<1> SUFFICES ASSUME NEW q \in ChatRequests, Live(q)', Owner(q) = u PROVE Live(q)
  BY DEF LiveOf, Owner
<1>1. CASE pc'[q] = pc[q]
  BY <1>1 DEF Live
<1>2. CASE pc'[q] # pc[q]
  <2>1. \E r \in ChatRequests :
          \/ Reject(r) \/ StampTurn(r) \/ TakeLock(r) \/ Invoke(r) \/ InvokeReturns(r)
          \/ InvokeFails(r) \/ TurnEnds(r) \/ ReadSpans(r) \/ RecordUsage(r) \/ Disconnect(r)
    <3>1. ~ (BillingTick \/ UNCHANGED billingVars)
      BY <1>2 DEF BillingTick, billingVars
    <3>2. ASSUME NEW r \in ChatRequests, AdmitTurn(r) PROVE FALSE
      BY <1>2, <3>2 DEF AdmitTurn, Move
    <3> QED
      BY <3>1, <3>2 DEF BillingNext
  <2>2. PICK r \in ChatRequests : Live(r) /\ \E to : pc' = [pc EXCEPT ![r] = to]
    BY <2>1 DEF Reject, StampTurn, TakeLock, Invoke, InvokeReturns, InvokeFails, TurnEnds,
       ReadSpans, RecordUsage, Disconnect, Move, Live, EndStates
  <2> QED
    BY <1>2, <2>2
<1> QED
  BY <1>1, <1>2

LEMMA RoomStep ==
  ASSUME IsFiniteSet(Conversations), SInv, SInv', RecordedAreOver, RoomIsLeft, [BillingNext]_billingVars
  PROVE  RoomIsLeft'
<1> SUFFICES ASSUME Limit > 0, NEW u \in Payers
             PROVE  SpentBy(u)' + MaxInvokes * Cardinality(LiveOf(u)')
                      <= (Limit - 1) + MaxInvokes * Cardinality(ThreadsOf(u))
  BY DEF RoomIsLeft, ThreadsOf
<1> USE BillingAssumption
<1> DEFINE live == Cardinality(LiveOf(u))
           threads == Cardinality(ThreadsOf(u))
<1>1. /\ IsFiniteSet(LiveOf(u)) /\ live \in Nat
      /\ IsFiniteSet(LiveOf(u)') /\ Cardinality(LiveOf(u)') \in Nat
      /\ threads \in Nat
  <2>1. LiveOf(u) \subseteq ChatRequests /\ LiveOf(u)' \subseteq ChatRequests
        /\ ThreadsOf(u) \subseteq Conversations
    BY DEF LiveOf, ThreadsOf
  <2> QED
    BY <2>1, FS_Subset, FS_CardinalityType
<1>2. IsFiniteSet(Bills(u)) /\ SpentBy(u) \in Nat
      /\ SpentBy(u) = Cardinality(Bills(u)) /\ SpentBy(u)' = Cardinality(Bills(u)')
  BY BillsAreWorth DEF SpentBy, Bills
<1>3. SpentBy(u) + MaxInvokes * live <= (Limit - 1) + MaxInvokes * threads
  BY DEF RoomIsLeft
<1>4. ASSUME Bills(u)' \subseteq Bills(u)
      PROVE  SpentBy(u)' \in Nat /\ SpentBy(u)' <= SpentBy(u)
  BY <1>2, <1>4, FS_Subset, FS_CardinalityType
<1> HIDE DEF live, threads
<1>5. ASSUME NEW r \in ChatRequests, AdmitTurn(r), Owner(r) = u
      PROVE  SpentBy(u)' + MaxInvokes * Cardinality(LiveOf(u)')
               <= (Limit - 1) + MaxInvokes * threads
  <2>1. Bills(u)' \subseteq Bills(u)
    BY <1>5 DEF AdmitTurn, Bills, Owner
  <2>2. CASE Exceeded(u)
    <3>1. LiveOf(u)' \subseteq LiveOf(u)
      BY <1>5, <2>2 DEF AdmitTurn, Move, LiveOf, Live, EndStates, Owner, SInv, BillingInv, BillingTypeOK
    <3>2. Cardinality(LiveOf(u)') <= live
      BY <1>1, <3>1, FS_Subset DEF live
    <3>3. /\ MaxInvokes * Cardinality(LiveOf(u)') <= MaxInvokes * live
          /\ MaxInvokes * Cardinality(LiveOf(u)') \in Nat /\ MaxInvokes * live \in Nat
          /\ MaxInvokes * threads \in Nat
      BY <1>1, <3>2, RoomGrows
    <3> QED
      BY <1>2, <1>3, <1>4, <2>1, <3>3
  <2>3. CASE ~Exceeded(u)
    <3>1. SpentBy(u) <= Limit - 1
      BY <1>2, <2>3 DEF Exceeded
    <3>2. Cardinality(LiveOf(u)') <= threads
      <4>1. \A q \in LiveOf(u)' : Owner(q) = u
        BY DEF LiveOf, Owner
      <4>2. \A q, p \in LiveOf(u)' : ThreadOf[q] = ThreadOf[p] => q = p
        BY DEF LiveOf, SInv, OneAtATime
      <4>3. LiveOf(u)' \in SUBSET ChatRequests
        BY DEF LiveOf
      <4> QED
        BY <4>1, <4>2, <4>3, OneEachFits DEF threads
    <3>3. /\ MaxInvokes * Cardinality(LiveOf(u)') <= MaxInvokes * threads
          /\ MaxInvokes * Cardinality(LiveOf(u)') \in Nat
          /\ MaxInvokes * threads \in Nat
      BY <1>1, <3>2, RoomGrows
    <3> QED
      BY <1>2, <1>4, <2>1, <3>1, <3>3
  <2> QED
    BY <2>2, <2>3
<1>6. ASSUME LiveOf(u)' \subseteq LiveOf(u), Bills(u)' \subseteq Bills(u)
      PROVE  SpentBy(u)' + MaxInvokes * Cardinality(LiveOf(u)')
               <= (Limit - 1) + MaxInvokes * threads
  <2>1. Cardinality(LiveOf(u)') <= live
    BY <1>1, <1>6, FS_Subset DEF live
  <2>2. /\ MaxInvokes * Cardinality(LiveOf(u)') <= MaxInvokes * live
        /\ MaxInvokes * Cardinality(LiveOf(u)') \in Nat /\ MaxInvokes * live \in Nat
        /\ MaxInvokes * threads \in Nat
    BY <1>1, <2>1, RoomGrows
  <2> QED
    BY <1>2, <1>3, <1>4, <1>6, <2>2
<1>7. ASSUME NEW r \in ChatRequests, RecordUsage(r) \/ Disconnect(r), Owner(r) = u,
             recorded' = recorded \union {r}, UNCHANGED <<priced, turnSpans>>
      PROVE  SpentBy(u)' + MaxInvokes * Cardinality(LiveOf(u)')
               <= (Limit - 1) + MaxInvokes * threads
  <2>1. r \in LiveOf(u) /\ LiveOf(u)' \subseteq LiveOf(u) \ {r}
    BY <1>7 DEF RecordUsage, Disconnect, Move, LiveOf, Live, EndStates, Owner, SInv, BillingInv, BillingTypeOK
  <2>2. IsFiniteSet(LiveOf(u) \ {r}) /\ Cardinality(LiveOf(u) \ {r}) = live - 1
    BY <1>1, <2>1, FS_RemoveElement DEF live
  <2>3. Cardinality(LiveOf(u)') <= live - 1
    BY <2>1, <2>2, FS_Subset
  <2>4. /\ MaxInvokes * (Cardinality(LiveOf(u)') + 1) <= MaxInvokes * live
        /\ MaxInvokes * (Cardinality(LiveOf(u)') + 1)
             = MaxInvokes * Cardinality(LiveOf(u)') + MaxInvokes
        /\ MaxInvokes * Cardinality(LiveOf(u)') \in Nat /\ MaxInvokes * live \in Nat
        /\ MaxInvokes * threads \in Nat
    <3>1. live \in Nat /\ Cardinality(LiveOf(u)') + 1 \in Nat
          /\ Cardinality(LiveOf(u)') + 1 <= live
      BY <1>1, <2>3
    <3> QED
      BY <1>1, <3>1, RoomGrows
  <2>5. SpentBy(u)' \in Nat /\ SpentBy(u)' <= SpentBy(u) + MaxInvokes
    <3>1. Bills(u)' \subseteq Bills(u) \union Own(r)
      BY <1>7, BillAdded
    <3>2. /\ IsFiniteSet(Bills(u) \union Own(r))
          /\ Cardinality(Bills(u) \union Own(r)) <= Cardinality(Bills(u)) + MaxInvokes
      <4>1. IsFiniteSet(Own(r)) /\ Cardinality(Own(r)) = MaxInvokes
        BY OwnCounts
      <4>2. /\ IsFiniteSet(Bills(u) \union Own(r))
            /\ Cardinality(Bills(u) \union Own(r)) =
                 Cardinality(Bills(u)) + Cardinality(Own(r)) - Cardinality(Bills(u) \cap Own(r))
        BY <1>2, <4>1, FS_Union
      <4>3. Cardinality(Bills(u) \cap Own(r)) \in Nat
        <5>1. Bills(u) \cap Own(r) \subseteq Own(r)
          OBVIOUS
        <5> QED
          BY <4>1, <5>1, FS_Subset, FS_CardinalityType
      <4> QED
        BY <1>2, <4>1, <4>2, <4>3
    <3>3. IsFiniteSet(Bills(u)') /\ Cardinality(Bills(u)') \in Nat
          /\ Cardinality(Bills(u)') <= Cardinality(Bills(u) \union Own(r))
      BY <3>1, <3>2, FS_Subset, FS_CardinalityType
    <3>4. Cardinality(Bills(u) \union Own(r)) \in Nat
      BY <3>2, FS_CardinalityType
    <3> QED
      BY <1>2, <3>2, <3>3, <3>4
  <2> QED
    BY <1>2, <1>3, <2>4, <2>5
<1>8. CASE \E r \in ChatRequests : AdmitTurn(r) /\ Owner(r) = u
  BY <1>5, <1>8 DEF threads
<1>9. CASE ~ \E r \in ChatRequests : AdmitTurn(r) /\ Owner(r) = u
  <2>1. LiveOf(u)' \subseteq LiveOf(u)
    BY <1>9, LiveShrinks
  <2>2. CASE recorded' = recorded
    BY <1>6, <2>1, <2>2, BillsStay DEF threads
  <2>3. CASE recorded' # recorded
    <3>1. PICK r \in ChatRequests : /\ RecordUsage(r) \/ Disconnect(r)
                                /\ recorded' = recorded \union {r}
                                /\ UNCHANGED <<priced, turnSpans>>
      BY <2>3 DEF BillingNext, AdmitTurn, Reject, StampTurn, TakeLock, Invoke, InvokeReturns,
         InvokeFails, TurnEnds, ReadSpans, RecordUsage, Disconnect, BillingTick, billingVars
    <3>2. CASE Owner(r) = u
      BY <1>7, <3>1, <3>2 DEF threads
    <3>3. CASE Owner(r) # u
      <4>1. Bills(u)' \subseteq Bills(u)
        BY <3>1, <3>3, BillAdded
      <4> QED
        BY <1>6, <2>1, <4>1 DEF threads
    <3> QED
      BY <3>2, <3>3
  <2> QED
    BY <2>2, <2>3
<1> QED
  BY <1>8, <1>9

LEMMA RecordedStep ==
  ASSUME SInv, RecordedAreOver, [BillingNext]_billingVars
  PROVE  RecordedAreOver'
<1> USE DEF SInv, BillingInv, BillingTypeOK, RecordedAreOver, Live, EndStates
<1>1. ASSUME NEW r \in ChatRequests,
             \/ AdmitTurn(r) \/ Reject(r) \/ StampTurn(r) \/ TakeLock(r) \/ Invoke(r)
             \/ InvokeReturns(r) \/ InvokeFails(r) \/ TurnEnds(r) \/ ReadSpans(r)
      PROVE  RecordedAreOver'
  <2>1. recorded' = recorded /\ r \notin recorded /\ \E to : pc' = [pc EXCEPT ![r] = to]
    BY <1>1 DEF AdmitTurn, Reject, StampTurn, TakeLock, Invoke, InvokeReturns, InvokeFails,
       TurnEnds, ReadSpans, Move
  <2> QED
    BY <2>1
<1>2. ASSUME NEW r \in ChatRequests, RecordUsage(r) \/ Disconnect(r)
      PROVE  RecordedAreOver'
  <2>1. PICK to \in {"done", "gone"} : pc' = [pc EXCEPT ![r] = to]
    BY <1>2 DEF RecordUsage, Disconnect, Move
  <2>2. recorded' \subseteq recorded \union {r}
    BY <1>2 DEF RecordUsage, Disconnect
  <2> QED
    BY <2>1, <2>2
<1>3. CASE BillingTick \/ UNCHANGED billingVars
  BY <1>3 DEF BillingTick, billingVars
<1> QED
  BY <1>1, <1>2, <1>3 DEF BillingNext

(* However often the check before a turn is passed by requests on other
   conversations: the limit is overshot by at most one turn of each.       *)
THEOREM OvershootStaysBounded ==
  ASSUME MaxPerThread = 1, IsFiniteSet(Conversations)
  PROVE  BillingSpec => []OvershootIsBounded
<1>1. BillingInit => RecordedAreOver /\ RoomIsLeft
  <2> SUFFICES ASSUME BillingInit, Limit > 0, NEW u \in Payers
               PROVE  SpentBy(u) + MaxInvokes * Cardinality(LiveOf(u))
                        <= (Limit - 1) + MaxInvokes * Cardinality(ThreadsOf(u))
    BY DEF BillingInit, RecordedAreOver, RoomIsLeft
  <2>1. LiveOf(u) = {} /\ Bills(u) = {}
    BY DEF BillingInit, LiveOf, Live, Bills
  <2>2. Cardinality(LiveOf(u)) = 0 /\ SpentBy(u) = 0
    BY <2>1, FS_EmptySet DEF SpentBy, Bills
  <2>3. Cardinality(ThreadsOf(u)) \in Nat
    BY FS_Subset, FS_CardinalityType DEF ThreadsOf
  <2>4. MaxInvokes * 0 = 0 /\ MaxInvokes * Cardinality(ThreadsOf(u)) \in Nat
    BY <2>3, RoomGrows, BillingAssumption
  <2> QED
    BY <2>2, <2>4, BillingAssumption
<1>2. SInv /\ RoomIsLeft => OvershootIsBounded
  <2> SUFFICES ASSUME SInv, RoomIsLeft, NEW u \in Payers, Limit > 0
               PROVE  SpentBy(u) <= (Limit - 1) + MaxPerThread * Cardinality(ThreadsOf(u)) * MaxInvokes
    BY DEF OvershootIsBounded
  <2>1. Cardinality(ThreadsOf(u)) \in Nat /\ Cardinality(LiveOf(u)) \in Nat
    <3>1. LiveOf(u) \subseteq ChatRequests /\ ThreadsOf(u) \subseteq Conversations
      BY DEF LiveOf, ThreadsOf
    <3> QED
      BY <3>1, FS_Subset, FS_CardinalityType, BillingAssumption
  <2>2. SpentBy(u) \in Nat /\ MaxInvokes * Cardinality(LiveOf(u)) \in Nat
        /\ MaxInvokes * Cardinality(ThreadsOf(u)) \in Nat
    BY <2>1, BillsAreWorth, RoomGrows
  <2>3. MaxPerThread * Cardinality(ThreadsOf(u)) * MaxInvokes
          = MaxInvokes * Cardinality(ThreadsOf(u))
    BY <2>1, BillingAssumption
  <2>4. SpentBy(u) + MaxInvokes * Cardinality(LiveOf(u))
          <= (Limit - 1) + MaxInvokes * Cardinality(ThreadsOf(u))
    BY DEF RoomIsLeft
  <2> QED
    BY <2>2, <2>3, <2>4, BillingAssumption
<1> QED
  BY <1>1, <1>2, RoomStep, RecordedStep, BillsStayApart, PTL DEF BillingSpec
=============================================================================
