---------------------------- MODULE TurnBilling -----------------------------
(***************************************************************************)
(* What a turn costs and who pays: the budget check before a turn, the     *)
(* agent.invoke spans the tracer stores while it runs, and the bill the    *)
(* handler draws from them once the thread's lock is released.  The graph  *)
(* is reduced to its model calls; ChatSession has the rest.                *)
(*                                                                         *)
(* A model call that reports token usage costs one unit.  The clock stands *)
(* for time.time(): it never runs backwards, and a call that cost tokens   *)
(* lasted longer than one reading of it.                                   *)
(***************************************************************************)
EXTENDS Naturals, FiniteSets

CONSTANTS
  ChatRequests, Conversations, Payers,
  ThreadOf,      \* the conversation a request is sent to
  UserOf,        \* the owner of a conversation
  Limit,         \* the user's budget, in units
  Reports,       \* whether a response names its tokens: the mock model's do not
  MaxInvokes,    \* bound: model calls of one turn
  MaxPerThread,  \* bound: requests of one conversation in progress at once
  MaxClock       \* bound: readings of the clock

ASSUME BillingAssumption ==
  /\ IsFiniteSet(ChatRequests)
  /\ ThreadOf \in [ChatRequests -> Conversations]
  /\ UserOf \in [Conversations -> Payers]
  /\ Limit \in Nat
  /\ Reports \subseteq BOOLEAN
  /\ MaxInvokes \in Nat
  /\ MaxPerThread \in Nat
  /\ MaxClock \in Nat

VARIABLES
  wallClock,
  pc,         \* where each request stands
  since,      \* turn_started_at
  calls,      \* model calls the request's turn has begun
  startedAt,  \* started_at of each span
  stored,     \* the rows of trace_spans
  priced,     \* rows whose attributes name the tokens used
  paid,       \* calls the model answered, naming tokens: with a row or without
  turnSpans,  \* the spans a request found when it read them back
  recorded    \* requests with a row in budget_usage

billingVars == <<wallClock, pc, since, calls, startedAt, stored, priced, paid, turnSpans, recorded>>

Spans == ChatRequests \X (1..MaxInvokes)

EndStates == {"refused", "rejected", "done", "gone"}
Live(r) == pc[r] \notin EndStates \union {"new"}
HoldsLock(r) == pc[r] \in {"running", "invoking"}

BillingTypeOK ==
  /\ wallClock \in Nat
  /\ pc \in [ChatRequests -> EndStates \union {"new", "admitted", "waiting", "running",
                                      "invoking", "billing", "recording"}]
  /\ since \in [ChatRequests -> Nat]
  /\ calls \in [ChatRequests -> 0..MaxInvokes]
  /\ startedAt \in [Spans -> Nat]
  /\ stored \subseteq Spans
  /\ paid \subseteq Spans
  /\ priced \subseteq stored \intersect paid
  /\ turnSpans \in [ChatRequests -> SUBSET stored]
  /\ recorded \subseteq ChatRequests

BillingInit ==
  /\ wallClock = 0
  /\ pc = [r \in ChatRequests |-> "new"]
  /\ since = [r \in ChatRequests |-> 0]
  /\ calls = [r \in ChatRequests |-> 0]
  /\ startedAt = [s \in Spans |-> 0]
  /\ stored = {}
  /\ priced = {}
  /\ paid = {}
  /\ turnSpans = [r \in ChatRequests |-> {}]
  /\ recorded = {}

Move(r, to) == pc' = [pc EXCEPT ![r] = to]

ThreadOfSpan(s) == ThreadOf[s[1]]
Owner(r) == UserOf[ThreadOf[r]]

(* SUM(cost_usd) over the user's rows; a span in two bills counts twice.   *)
SpentBy(u) ==
  Cardinality({e \in recorded \X priced : Owner(e[1]) = u /\ e[2] \in turnSpans[e[1]]})

Exceeded_onlyBeyond(u) == SpentBy(u) > Limit
Exceeded(u) == SpentBy(u) >= Limit

InProgress(t) == {q \in ChatRequests : Live(q) /\ ThreadOf[q] = t}

(* ensure_within_budget: admitted, or 402                                  *)
AdmitTurn(r) ==
  /\ pc[r] = "new"
  /\ Cardinality(InProgress(ThreadOf[r])) < MaxPerThread
  /\ Move(r, IF Exceeded(Owner(r)) THEN "refused" ELSE "admitted")
  /\ UNCHANGED <<wallClock, since, calls, startedAt, stored, priced, paid, turnSpans, recorded>>

(* 404 or 400                                                              *)
Reject(r) ==
  /\ pc[r] = "admitted"
  /\ Move(r, "rejected")
  /\ UNCHANGED <<wallClock, since, calls, startedAt, stored, priced, paid, turnSpans, recorded>>

(* turn_started_at.  The clock has moved on since any paid call of the
   conversation that is over began.                                        *)
StampTurn(r) ==
  /\ pc[r] = "admitted"
  /\ \A s \in priced : ThreadOfSpan(s) = ThreadOf[r] => startedAt[s] < wallClock
  /\ Move(r, "waiting")
  /\ since' = [since EXCEPT ![r] = wallClock]
  /\ UNCHANGED <<wallClock, calls, startedAt, stored, priced, paid, turnSpans, recorded>>

TakeLock(r) ==
  /\ pc[r] = "waiting"
  /\ \A q \in ChatRequests : HoldsLock(q) => ThreadOf[q] # ThreadOf[r]
  /\ Move(r, "running")
  /\ UNCHANGED <<wallClock, since, calls, startedAt, stored, priced, paid, turnSpans, recorded>>

(* The agent node enters its span and calls the model.                     *)
Invoke(r) ==
  /\ pc[r] = "running"
  /\ calls[r] < MaxInvokes
  /\ Move(r, "invoking")
  /\ calls' = [calls EXCEPT ![r] = @ + 1]
  /\ startedAt' = [startedAt EXCEPT ![<<r, calls[r] + 1>>] = wallClock]
  /\ UNCHANGED <<wallClock, since, stored, priced, paid, turnSpans, recorded>>

Current(r) == <<r, calls[r]>>

PaidWith(r, reported) == IF reported THEN paid \union {Current(r)} ELSE paid

(* The span is left and its row written; reported says whether there was a
   response and it named its tokens.                                       *)
StoreSpan(r, reported) ==
  /\ stored' = stored \union {Current(r)}
  /\ priced' = IF reported THEN priced \union {Current(r)} ELSE priced
  /\ paid' = PaidWith(r, reported)

(* The span is left, but its row could not be written.                     *)
LoseSpan(r, reported) ==
  /\ paid' = PaidWith(r, reported)
  /\ UNCHANGED <<stored, priced>>

InvokeReturns(r) ==
  /\ pc[r] = "invoking"
  /\ \E reported \in Reports : StoreSpan(r, reported)
  /\ Move(r, "running")
  /\ UNCHANGED <<wallClock, since, calls, startedAt, turnSpans, recorded>>

(* The model raises, or the tracer does when it writes the row, also after a
   call that was answered.  The stream turns either into its error event and
   goes on to bill.                                                        *)
InvokeFails(r) ==
  /\ pc[r] = "invoking"
  /\ StoreSpan(r, FALSE) \/ \E reported \in Reports : LoseSpan(r, reported)
  /\ Move(r, "billing")
  /\ UNCHANGED <<wallClock, since, calls, startedAt, turnSpans, recorded>>

(* final, confirm_required or an error elsewhere in the graph              *)
TurnEnds(r) ==
  /\ pc[r] = "running"
  /\ Move(r, "billing")
  /\ UNCHANGED <<wallClock, since, calls, startedAt, stored, priced, paid, turnSpans, recorded>>

SpansSince_strictly(r) ==
  {s \in stored : ThreadOfSpan(s) = ThreadOf[r] /\ startedAt[s] > since[r]}

SpansSince_wholeThread(r) == {s \in stored : ThreadOfSpan(s) = ThreadOf[r]}

SpansSince_allThreads(r) == {s \in stored : startedAt[s] >= since[r]}

SpansSince(r) ==
  {s \in stored : ThreadOfSpan(s) = ThreadOf[r] /\ startedAt[s] >= since[r]}

ReadSpans(r) ==
  /\ pc[r] = "billing"
  /\ turnSpans' = [turnSpans EXCEPT ![r] = SpansSince(r)]
  /\ Move(r, IF SpansSince(r) = {} THEN "done" ELSE "recording")
  /\ UNCHANGED <<wallClock, since, calls, startedAt, stored, priced, paid, recorded>>

RecordUsage(r) ==
  /\ pc[r] = "recording"
  /\ recorded' = recorded \union {r}
  /\ Move(r, "done")
  /\ UNCHANGED <<wallClock, since, calls, startedAt, stored, priced, paid, turnSpans>>

(* The client goes away, the process dies under every request, or SQLite
   raises where nobody catches it (the bad case, the spans read back, the
   usage row): the rest of the handler does not run.  A write under way may
   still land.                                                             *)
Disconnect(r) ==
  /\ Live(r)
  /\ Move(r, "gone")
  /\ \/ UNCHANGED <<stored, priced, paid, recorded>>
     \/ /\ pc[r] = "invoking"
        /\ \E reported \in Reports : StoreSpan(r, reported)
        /\ UNCHANGED recorded
     \/ /\ pc[r] = "recording"
        /\ recorded' = recorded \union {r}
        /\ UNCHANGED <<stored, priced, paid>>
  /\ UNCHANGED <<wallClock, since, calls, startedAt, turnSpans>>

BillingTick ==
  /\ wallClock < MaxClock
  /\ wallClock' = wallClock + 1
  /\ UNCHANGED <<pc, since, calls, startedAt, stored, priced, paid, turnSpans, recorded>>

BillingNext ==
  \/ \E r \in ChatRequests :
       \/ AdmitTurn(r) \/ Reject(r) \/ StampTurn(r) \/ TakeLock(r)
       \/ Invoke(r) \/ InvokeReturns(r) \/ InvokeFails(r) \/ TurnEnds(r)
       \/ ReadSpans(r) \/ RecordUsage(r) \/ Disconnect(r)
  \/ BillingTick

BillingSpec == BillingInit /\ [][BillingNext]_billingVars

-----------------------------------------------------------------------------
(* A turn whose stream was consumed to its end pays for every model call it
   made, however coarse the clock and whatever else runs meanwhile, but for
   one: the call the tracer failed to write a row for, which is the last
   the turn makes.                                                         *)
FinishedTurnsPay ==
  \A r \in ChatRequests, s \in paid :
    pc[r] = "done" /\ s[1] = r =>
      \/ r \in recorded /\ s \in turnSpans[r] \intersect priced
      \/ s = Current(r) /\ s \notin stored

(* No model call is billed by a turn that did not make it: the bills of the
   turns are disjoint, although each is drawn from the clock alone.  Holds
   while a conversation has one request in progress.                       *)
TurnsPayOnlyTheirOwn ==
  \A r \in ChatRequests : \A s \in turnSpans[r] \intersect priced : s[1] = r

(* A user who is refused with 402 has had model calls worth the limit made
   for his own conversations.                                              *)
RefusalIsEarned ==
  \A r \in ChatRequests : pc[r] = "refused" =>
    Cardinality({s \in priced : Owner(s[1]) = Owner(r)}) >= Limit

(* The check comes before the turn and the bill after it, so the limit may
   be passed, but by no more than the turns already let in can cost.       *)
ThreadsOf(u) == {t \in Conversations : UserOf[t] = u}
OvershootIsBounded ==
  \A u \in Payers : Limit > 0 =>
    SpentBy(u) <= (Limit - 1) + MaxPerThread * Cardinality(ThreadsOf(u)) * MaxInvokes
=============================================================================
