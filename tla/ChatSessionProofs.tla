------------------------- MODULE ChatSessionProofs -------------------------
(* Safety of one conversation for any set of requests, calls and faults *)
EXTENDS ChatSession, FiniteSetTheorems, TLAPS

Confirming == {"lookup", "invoke", "put", "commit"}

(* What ties the position inside the confirm node to the checkpoint, the
   lock and the store                                                      *)
NodeInv ==
  /\ step # "ready" => lock # NoReq
  /\ step # "ready" => nextNode = "confirm"
  /\ step \in {"invoke", "put"} => store[awaitingConfirmation] = "none"
  /\ \A c \in Calls : store[c] # "none" => c \in Writes
  /\ step = "put" => result \in Outcomes
  /\ step = "commit" =>
       \/ result \in Outcomes /\ store[awaitingConfirmation] \in {"none", "expired", result}
       \/ result = "not_allowed"
  /\ ~registered \/ result = "not_allowed" => "undiscovered" \in Faults
  /\ nextNode = "confirm" => awaitingConfirmation \in Writes
  /\ nextNode = "tools" => toolCallQueue # <<>>

IInv == TypeOK /\ MutualExclusion /\ NodeInv
-----------------------------------------------------------------------------
LEMMA InitEstablishes == Init => IInv
<1> SUFFICES ASSUME Init PROVE IInv
  OBVIOUS
<1>1. registered \in BOOLEAN /\ (~registered => "undiscovered" \in Faults)
  BY DEF Init, Discoveries
<1>2. TypeOK
  BY <1>1, SessionAssumption DEF Init, TypeOK, Outcomes, Answers, Nodes
<1>3. MutualExclusion
  BY SessionAssumption DEF Init, MutualExclusion
<1>4. NodeInv
  BY <1>1 DEF Init, NodeInv, Confirming
<1> QED
  BY <1>2, <1>3, <1>4 DEF IInv

LEMMA EmptySeq == <<>> \in Seq(Calls)
  OBVIOUS

(* What the model proposes is a sequence of calls                          *)
LEMMA BatchType == ASSUME NEW b \in Batches PROVE b \in Seq(Calls)
<1>1. PICK n \in 0..MaxBatch : b \in [1..n -> {c \in Calls : history[c] = "unused"}]
  BY DEF Batches
<1>2. n \in Nat /\ b \in [1..n -> Calls]
  BY <1>1, SessionAssumption
<1> QED BY <1>2

LEMMA BatchDistinct ==
  ASSUME NEW b \in Batches
  PROVE  \A i, j \in DOMAIN b : b[i] = b[j] => i = j
<1>1. PICK n \in 0..MaxBatch : /\ b \in [1..n -> {c \in Calls : history[c] = "unused"}]
                               /\ \A i, j \in 1..n : b[i] = b[j] => i = j
  BY DEF Batches
<1> QED BY <1>1

LEMMA BatchFresh ==
  ASSUME NEW b \in Batches
  PROVE  \A i \in DOMAIN b : history[b[i]] = "unused"
<1>1. PICK n \in 0..MaxBatch : b \in [1..n -> {c \in Calls : history[c] = "unused"}]
  BY DEF Batches
<1> QED BY <1>1

(* Every step keeps the inductive invariant: one step per action, one leaf
   per conjunct                                                            *)
LEMMA StepPreserves == IInv /\ [Next]_vars => IInv'
<1> SUFFICES ASSUME IInv, [Next]_vars PROVE IInv'
  OBVIOUS
<1> USE SessionAssumption DEF vars, reqVars, procVars, runVars, ckptVars, worldVars, ghosts,
      Nodes, Outcomes, Answers
<1>1. ASSUME NEW r \in Reqs, Refuse(r) PROVE IInv'
  <2>1. TypeOK'
    BY <1>1 DEF IInv, TypeOK, MutualExclusion, NodeInv, Refuse, Arrives, Answer
  <2>2. MutualExclusion'
    BY <1>1 DEF IInv, TypeOK, MutualExclusion, NodeInv, Refuse, Arrives, Answer
  <2>3. NodeInv'
    BY <1>1 DEF IInv, TypeOK, MutualExclusion, NodeInv, Confirming, Refuse, Arrives, Answer
  <2> QED BY <2>1, <2>2, <2>3 DEF IInv
<1>2. ASSUME NEW r \in Reqs, NEW body \in Body, Chat(r, body) PROVE IInv'
  <2>a. InputFor(body) \in {"absent", "message", "approve", "reject"}
    BY <1>2 DEF Body, InputFor
  <2>b. pc[r] = "idle" /\ pc'[r] \in {"waiting", "done"} /\ UNCHANGED lock
    BY <1>2 DEF Chat, Arrives, Answer, IInv, TypeOK
  <2>1. TypeOK'
    <3>1. CASE InputFor(body) = "absent"
      <4>1. pc' = [pc EXCEPT ![r] = "done"]
        BY <1>2, <3>1 DEF Chat, Answer
      <4>2. reply' \in {[reply EXCEPT ![r] = "need_confirm"], [reply EXCEPT ![r] = "need_message"]}
        BY <1>2, <3>1 DEF Chat, Answer
      <4>3. seen' = [seen EXCEPT ![r] = awaitingConfirmation]
            /\ UNCHANGED <<runInput, procVars, ckptVars, worldVars, ghosts>>
        BY <1>2, <3>1 DEF Chat
      <4>4. /\ pc' \in [Reqs -> {"idle", "waiting", "running", "done"}]
            /\ seen' \in [Reqs -> Calls \cup {NoCall}]
        BY <4>1, <4>3 DEF IInv, TypeOK
      <4>5. reply' \in [Reqs -> {"none", "refused", "need_confirm", "need_message",
                                 "confirm_required", "final", "error", "gone"}]
        BY <4>2 DEF IInv, TypeOK
      <4> QED BY <4>3, <4>4, <4>5 DEF IInv, TypeOK
    <3>2. CASE InputFor(body) # "absent"
      <4>1. /\ pc' = [pc EXCEPT ![r] = "waiting"]
            /\ runInput' = [runInput EXCEPT ![r] = InputFor(body)]
            /\ seen' = [seen EXCEPT ![r] = awaitingConfirmation]
            /\ UNCHANGED <<reply, procVars, ckptVars, worldVars, ghosts>>
        BY <1>2, <3>2 DEF Chat
      <4>2. InputFor(body) \in {"message", "approve", "reject"}
        BY <2>a, <3>2
      <4> QED BY <4>1, <4>2 DEF IInv, TypeOK
    <3> QED BY <3>1, <3>2
  <2>2. MutualExclusion'
    BY <1>2, <2>b DEF IInv, TypeOK, MutualExclusion, Chat, Answer
  <2>3. NodeInv'
    BY <1>2 DEF IInv, TypeOK, MutualExclusion, NodeInv, Confirming, Chat, Answer, Body, InputFor, IsPaused
  <2> QED BY <2>1, <2>2, <2>3 DEF IInv
<1>3. ASSUME NEW r \in Reqs, StartTurn(r) PROVE IInv'
  <2>1. TypeOK'
    <3>1. CASE runInput[r] = "message"
      BY <1>3, <3>1, EmptySeq DEF IInv, TypeOK, StartTurn
    <3>2. CASE runInput[r] # "message"
      BY <1>3, <3>2 DEF IInv, TypeOK, StartTurn
    <3> QED BY <3>1, <3>2
  <2>2. MutualExclusion'
    BY <1>3 DEF IInv, TypeOK, MutualExclusion, NodeInv, StartTurn
  <2>3. NodeInv'
    BY <1>3 DEF IInv, TypeOK, MutualExclusion, NodeInv, Confirming, StartTurn
  <2> QED BY <2>1, <2>2, <2>3 DEF IInv
<1>4. ASSUME NEW r \in Reqs, AgentNode(r) PROVE IInv'
  <2>1. TypeOK'
    BY <1>4, BatchType DEF IInv, TypeOK, AgentNode
  <2>2. MutualExclusion'
    BY <1>4 DEF IInv, TypeOK, MutualExclusion, NodeInv, AgentNode, Runs
  <2>3. NodeInv'
    BY <1>4 DEF IInv, TypeOK, MutualExclusion, NodeInv, Confirming, AgentNode, Runs
  <2> QED BY <2>1, <2>2, <2>3 DEF IInv
<1>5. ASSUME NEW r \in Reqs, ToolsNode(r) PROVE IInv'
  <2>a. Head(toolCallQueue) \in Calls /\ Tail(toolCallQueue) \in Seq(Calls)
    BY <1>5 DEF IInv, TypeOK, NodeInv, ToolsNode, Runs
  <2>1. TypeOK'
    <3>1. CASE NeedsConfirmation(Head(toolCallQueue))
      BY <1>5, <2>a, <3>1 DEF IInv, TypeOK, ToolsNode
    <3>2. CASE ~NeedsConfirmation(Head(toolCallQueue))
      <4>1. PICK res \in Answers :
              /\ history' = [history EXCEPT ![Head(toolCallQueue)] = res]
              /\ \/ UNCHANGED effects
                 \/ effects' = [effects EXCEPT ![Head(toolCallQueue)] = @ + 1]
        BY <1>5, <3>2 DEF ToolsNode, ExecuteAndAnswer
      <4>2. history' \in [Calls -> Answers \cup {"unused", "proposed", "rejected"}]
        BY <4>1 DEF IInv, TypeOK
      <4>3. effects' \in [Calls -> Nat]
        <5>1. effects \in [Calls -> Nat]
          BY DEF IInv, TypeOK
        <5>2. effects[Head(toolCallQueue)] + 1 \in Nat
          BY <2>a, <5>1
        <5>3. CASE UNCHANGED effects
          BY <5>1, <5>3
        <5>4. CASE effects' = [effects EXCEPT ![Head(toolCallQueue)] = @ + 1]
          BY <5>1, <5>2, <5>4
        <5> QED BY <4>1, <5>3, <5>4
      <4>4. awaitingConfirmation' = NoCall
        BY <1>5, <3>2 DEF ToolsNode
      <4>5. nextNode' = RouteAfter(toolCallQueue')
        BY <1>5, <3>2 DEF ToolsNode
      <4>6. nextNode' \in Nodes
        BY <4>5 DEF RouteAfter
      <4> QED BY <1>5, <2>a, <4>2, <4>3, <4>4, <4>6 DEF IInv, TypeOK, ToolsNode
    <3> QED BY <3>1, <3>2
  <2>2. MutualExclusion'
    BY <1>5 DEF IInv, TypeOK, MutualExclusion, NodeInv, ToolsNode, Runs, NeedsConfirmation, RouteAfter
  <2>3. NodeInv'
    BY <1>5 DEF IInv, TypeOK, MutualExclusion, NodeInv, Confirming, ToolsNode, Runs, NeedsConfirmation,
       NotAllowed, ExecuteAndAnswer, RouteAfter
  <2> QED BY <2>1, <2>2, <2>3 DEF IInv
<1>6. ASSUME NEW r \in Reqs, FinalizeNode(r) PROVE IInv'
  <2>1. TypeOK'
    BY <1>6 DEF IInv, TypeOK, MutualExclusion, NodeInv, FinalizeNode, Runs
  <2>2. MutualExclusion'
    BY <1>6 DEF IInv, TypeOK, MutualExclusion, NodeInv, FinalizeNode, Runs
  <2>3. NodeInv'
    BY <1>6 DEF IInv, TypeOK, MutualExclusion, NodeInv, Confirming, FinalizeNode, Runs
  <2> QED BY <2>1, <2>2, <2>3 DEF IInv
<1>7. ASSUME NEW r \in Reqs, ConfirmInterrupt(r) PROVE IInv'
  <2>1. TypeOK'
    BY <1>7 DEF IInv, TypeOK, MutualExclusion, NodeInv, ConfirmInterrupt, Runs
  <2>2. MutualExclusion'
    BY <1>7 DEF IInv, TypeOK, MutualExclusion, NodeInv, ConfirmInterrupt, Runs
  <2>3. NodeInv'
    BY <1>7 DEF IInv, TypeOK, MutualExclusion, NodeInv, Confirming, ConfirmInterrupt, Runs
  <2> QED BY <2>1, <2>2, <2>3 DEF IInv
<1>8. ASSUME NEW r \in Reqs, ConfirmReject(r) PROVE IInv'
  <2>1. TypeOK'
    BY <1>8 DEF IInv, TypeOK, MutualExclusion, NodeInv, ConfirmReject, Runs, AnswerAwaited, RouteAfter
  <2>2. MutualExclusion'
    BY <1>8 DEF IInv, TypeOK, MutualExclusion, NodeInv, ConfirmReject, Runs, AnswerAwaited, RouteAfter
  <2>3. NodeInv'
    BY <1>8 DEF IInv, TypeOK, MutualExclusion, NodeInv, Confirming, ConfirmReject, Runs, AnswerAwaited, RouteAfter
  <2> QED BY <2>1, <2>2, <2>3 DEF IInv
<1>9. ASSUME NEW r \in Reqs, ConfirmApprove(r) PROVE IInv'
  <2>1. TypeOK'
    BY <1>9 DEF IInv, TypeOK, MutualExclusion, NodeInv, ConfirmApprove, Runs
  <2>2. MutualExclusion'
    BY <1>9 DEF IInv, TypeOK, MutualExclusion, NodeInv, ConfirmApprove, Runs
  <2>3. NodeInv'
    BY <1>9 DEF IInv, TypeOK, MutualExclusion, NodeInv, Confirming, ConfirmApprove, Runs
  <2> QED BY <2>1, <2>2, <2>3 DEF IInv
<1>10. ASSUME NEW r \in Reqs, GatewayLookup(r) PROVE IInv'
  <2>1. TypeOK'
    BY <1>10 DEF IInv, TypeOK, MutualExclusion, NodeInv, GatewayLookup
  <2>2. MutualExclusion'
    BY <1>10 DEF IInv, TypeOK, MutualExclusion, NodeInv, GatewayLookup
  <2>3. NodeInv'
    BY <1>10 DEF IInv, TypeOK, MutualExclusion, NodeInv, Confirming, GatewayLookup
  <2> QED BY <2>1, <2>2, <2>3 DEF IInv
<1>11. ASSUME NEW r \in Reqs, GatewayShortCircuit(r) PROVE IInv'
  <2>1. TypeOK'
    BY <1>11 DEF IInv, TypeOK, MutualExclusion, NodeInv, GatewayShortCircuit
  <2>2. MutualExclusion'
    BY <1>11 DEF IInv, TypeOK, MutualExclusion, NodeInv, GatewayShortCircuit
  <2>3. NodeInv'
    BY <1>11 DEF IInv, TypeOK, MutualExclusion, NodeInv, Confirming, GatewayShortCircuit
  <2> QED BY <2>1, <2>2, <2>3 DEF IInv
<1>12. ASSUME NEW r \in Reqs, GatewayInvoke(r) PROVE IInv'
  <2>1. TypeOK'
    BY <1>12 DEF IInv, TypeOK, MutualExclusion, NodeInv, GatewayInvoke
  <2>2. MutualExclusion'
    BY <1>12 DEF IInv, TypeOK, MutualExclusion, NodeInv, GatewayInvoke
  <2>3. NodeInv'
    BY <1>12 DEF IInv, TypeOK, MutualExclusion, NodeInv, Confirming, GatewayInvoke
  <2> QED BY <2>1, <2>2, <2>3 DEF IInv
<1>13. ASSUME NEW r \in Reqs, GatewayPut(r) PROVE IInv'
  <2>1. TypeOK'
    BY <1>13 DEF IInv, TypeOK, MutualExclusion, NodeInv, GatewayPut
  <2>2. MutualExclusion'
    BY <1>13 DEF IInv, TypeOK, MutualExclusion, NodeInv, GatewayPut
  <2>3. NodeInv'
    BY <1>13 DEF IInv, TypeOK, MutualExclusion, NodeInv, Confirming, GatewayPut
  <2> QED BY <2>1, <2>2, <2>3 DEF IInv
<1>14. ASSUME NEW r \in Reqs, ConfirmCommit(r) PROVE IInv'
  <2>1. TypeOK'
    BY <1>14 DEF IInv, TypeOK, MutualExclusion, NodeInv, ConfirmCommit, AnswerAwaited, RouteAfter
  <2>2. MutualExclusion'
    BY <1>14 DEF IInv, TypeOK, MutualExclusion, NodeInv, ConfirmCommit, AnswerAwaited, RouteAfter
  <2>3. NodeInv'
    BY <1>14 DEF IInv, TypeOK, MutualExclusion, NodeInv, Confirming, ConfirmCommit, AnswerAwaited, RouteAfter
  <2> QED BY <2>1, <2>2, <2>3 DEF IInv
<1>15. ASSUME NEW r \in Reqs, StreamEnds(r) PROVE IInv'
  <2>1. TypeOK'
    BY <1>15 DEF IInv, TypeOK, MutualExclusion, NodeInv, StreamEnds, Answer, Release
  <2>2. MutualExclusion'
    BY <1>15 DEF IInv, TypeOK, MutualExclusion, NodeInv, StreamEnds, Answer, Release
  <2>3. NodeInv'
    BY <1>15 DEF IInv, TypeOK, MutualExclusion, NodeInv, Confirming, StreamEnds, Answer, Release
  <2> QED BY <2>1, <2>2, <2>3 DEF IInv
<1>16. ASSUME NEW r \in Reqs, TurnFails(r) PROVE IInv'
  <2>1. TypeOK'
    BY <1>16 DEF IInv, TypeOK, MutualExclusion, NodeInv, TurnFails, Answer, Release
  <2>2. MutualExclusion'
    BY <1>16 DEF IInv, TypeOK, MutualExclusion, NodeInv, TurnFails, Answer, Release
  <2>3. NodeInv'
    BY <1>16 DEF IInv, TypeOK, MutualExclusion, NodeInv, Confirming, TurnFails, Answer, Release
  <2> QED BY <2>1, <2>2, <2>3 DEF IInv
<1>17. ASSUME NEW r \in Reqs, Disconnect(r) PROVE IInv'
  <2>1. TypeOK'
    BY <1>17 DEF IInv, TypeOK, MutualExclusion, NodeInv, Disconnect, Answer, Release, Open
  <2>2. MutualExclusion'
    BY <1>17 DEF IInv, TypeOK, MutualExclusion, NodeInv, Disconnect, Answer, Release, Open
  <2>3. NodeInv'
    BY <1>17 DEF IInv, TypeOK, MutualExclusion, NodeInv, Confirming, Disconnect, Answer, Release, Open
  <2> QED BY <2>1, <2>2, <2>3 DEF IInv
<1>18. ASSUME Crash PROVE IInv'
  <2>1. TypeOK'
    BY <1>18 DEF IInv, TypeOK, MutualExclusion, NodeInv, Crash, Release, Open, Discoveries
  <2>2. MutualExclusion'
    BY <1>18 DEF IInv, TypeOK, MutualExclusion, NodeInv, Crash, Release, Open
  <2>3. NodeInv'
    BY <1>18 DEF IInv, TypeOK, MutualExclusion, NodeInv, Confirming, Crash, Release, Open, Discoveries
  <2> QED BY <2>1, <2>2, <2>3 DEF IInv
<1>19. CASE UNCHANGED vars
  BY <1>19 DEF IInv, TypeOK, MutualExclusion, NodeInv, Confirming
<1>20. ASSUME NEW c \in Calls, RowExpires(c) PROVE IInv'
  <2>1. TypeOK'
    BY <1>20 DEF IInv, TypeOK, RowExpires
  <2>2. MutualExclusion'
    BY <1>20 DEF IInv, MutualExclusion, RowExpires
  <2>3. NodeInv'
    BY <1>20 DEF IInv, TypeOK, NodeInv, RowExpires
  <2> QED BY <2>1, <2>2, <2>3 DEF IInv
<1> QED
  BY <1>1, <1>2, <1>3, <1>4, <1>5, <1>6, <1>7, <1>8, <1>9, <1>10, <1>11, <1>12, <1>13, <1>14, <1>15, <1>16, <1>17, <1>18, <1>19, <1>20 DEF Next, Turn, Interruption, AllServed

THEOREM InductiveInvariant == Spec => []IInv
  BY InitEstablishes, StepPreserves, PTL DEF Spec

(* Type correctness of the session, for any requests, calls and faults.    *)
THEOREM TypeCorrect == Spec => []TypeOK
<1>1. IInv => TypeOK BY DEF IInv
<1> QED BY <1>1, InductiveInvariant, PTL

(* The lock brackets the graph run for any number of clients.              *)
THEOREM LockExcludes == Spec => []MutualExclusion
<1>1. IInv => MutualExclusion BY DEF IInv
<1> QED BY <1>1, InductiveInvariant, PTL

(* A result is final as long as its row is within the TTL: the lookup, the
   purge of a restart and the clock touch no such row, and the put and the
   invocation both happen while the lock holder has found none.            *)
THEOREM StoredResultsAreFinal == Spec => StoredResultIsFinal
<1> DEFINE Final == \A c \in Calls :
      store[c] \in Outcomes =>
        store'[c] \in {store[c], "expired"} /\ effects'[c] = effects[c]
<1>1. IInv /\ [Next]_vars => [Final]_vars
  <2> SUFFICES ASSUME IInv, Next PROVE Final
    OBVIOUS
  <2> USE DEF vars, reqVars, procVars, runVars, ckptVars, worldVars, ghosts, Outcomes
  <2>1. ASSUME NEW r \in Reqs, ToolsNode(r) PROVE Final
    BY <2>1 DEF IInv, TypeOK, NodeInv, ToolsNode, ExecuteAndAnswer, NotAllowed, Runs,
       NeedsConfirmation
  <2>2. ASSUME NEW r \in Reqs, GatewayInvoke(r) PROVE Final
    BY <2>2 DEF IInv, TypeOK, NodeInv, GatewayInvoke
  <2>3. ASSUME NEW r \in Reqs, GatewayPut(r) PROVE Final
    BY <2>3 DEF IInv, TypeOK, NodeInv, GatewayPut
  <2>4. ASSUME NEW r \in Reqs, GatewayLookup(r) PROVE Final
    BY <2>4 DEF IInv, TypeOK, GatewayLookup
  <2>5. ASSUME NEW c \in Calls, RowExpires(c) PROVE Final
    BY <2>5 DEF IInv, TypeOK, RowExpires
  <2>6. CASE Crash
    BY <2>6 DEF Crash
  <2>7. CASE UNCHANGED <<store, effects>>
    BY <2>7
  <2> QED
    BY <2>1, <2>2, <2>3, <2>4, <2>5, <2>6, <2>7 DEF Next, Turn, Interruption, AllServed,
       Refuse, Chat, StartTurn, AgentNode, FinalizeNode, ConfirmInterrupt, ConfirmReject,
       ConfirmApprove, GatewayShortCircuit, ConfirmCommit, StreamEnds, TurnFails, Disconnect
<1> QED BY <1>1, InductiveInvariant, PTL DEF Spec, StoredResultIsFinal

-----------------------------------------------------------------------------
(* Every performance of a write uses up an approval of its own             *)

(* Who has consumed an approval holds none any more, and inside the confirm
   node it is the approval of the awaited call.                            *)
ApprovalsInv ==
  \A r \in Reqs :
    /\ pc[r] \in {"idle", "waiting"} => approved[r] = NoCall
    /\ lock = r /\ resume # "none" => approved[r] = NoCall /\ runInput[r] = resume
    /\ lock = r /\ step \in Confirming =>
         approved[r] = awaitingConfirmation /\ runInput[r] = "approve"

(* Until the tool is invoked, the approval consumed for it is still unspent. *)
ConsentInv ==
  /\ \A c \in Calls : IsFiniteSet(Consents(c))
  /\ ConsentBeforeEffect
  /\ step \in {"lookup", "invoke"} =>
       effects[awaitingConfirmation] < Cardinality(Consents(awaitingConfirmation))

LEMMA ApprovalsStep == IInv /\ ApprovalsInv /\ [Next]_vars => ApprovalsInv'
<1> SUFFICES ASSUME IInv, ApprovalsInv, [Next]_vars PROVE ApprovalsInv'
  OBVIOUS
<1> USE SessionAssumption DEF vars, reqVars, procVars, runVars, ckptVars, worldVars, ghosts
<1>a. /\ pc \in [Reqs -> {"idle", "waiting", "running", "done"}]
      /\ runInput \in [Reqs -> {"none", "message", "approve", "reject"}]
      /\ approved \in [Reqs -> Calls \cup {NoCall}]
      /\ step # "ready" => lock # NoReq
      /\ \A r \in Reqs : pc[r] = "running" <=> lock = r
  BY DEF IInv, TypeOK, NodeInv, MutualExclusion
<1>1. ASSUME NEW r \in Reqs, NEW body \in Body, Chat(r, body) PROVE ApprovalsInv'
  <2>1. /\ pc[r] = "idle" /\ UNCHANGED <<procVars, approved, awaitingConfirmation>>
        /\ \A s \in Reqs \ {r} : pc'[s] = pc[s] /\ runInput'[s] = runInput[s]
    BY <1>1, <1>a DEF Chat, Arrives, Answer
  <2>2. approved[r] = NoCall /\ lock # r
    BY <1>a, <2>1 DEF ApprovalsInv
  <2> QED BY <2>1, <2>2 DEF ApprovalsInv
<1>2. ASSUME NEW r \in Reqs, StartTurn(r) PROVE ApprovalsInv'
  <2>1. /\ approved[r] = NoCall /\ lock' = r /\ step = "ready" /\ UNCHANGED <<step, approved, runInput>>
        /\ resume' \in {"none", runInput[r]}
        /\ \A s \in Reqs : pc'[s] = IF s = r THEN "running" ELSE pc[s]
    BY <1>2, <1>a DEF StartTurn, ApprovalsInv
  <2> QED BY <2>1 DEF ApprovalsInv, Confirming
<1>3. ASSUME NEW r \in Reqs, ConfirmApprove(r) PROVE ApprovalsInv'
  <2>1. /\ lock = r /\ resume = "approve" /\ resume' = "none"
        /\ UNCHANGED <<pc, runInput, lock, awaitingConfirmation>>
        /\ approved' = [approved EXCEPT ![r] = awaitingConfirmation]
    BY <1>3 DEF ConfirmApprove, Runs
  <2>2. pc[r] = "running" /\ runInput[r] = "approve"
    BY <1>a, <2>1 DEF ApprovalsInv
  <2> QED BY <1>a, <2>1, <2>2 DEF ApprovalsInv
<1>4. ASSUME NEW r \in Reqs, AgentNode(r) \/ ToolsNode(r) \/ ConfirmReject(r) PROVE ApprovalsInv'
  <2>1. resume' = "none" /\ step' \notin Confirming /\ UNCHANGED <<pc, approved>>
    BY <1>4 DEF AgentNode, ToolsNode, ConfirmReject, Confirming
  <2> QED BY <2>1 DEF ApprovalsInv
<1>5. ASSUME NEW r \in Reqs, FinalizeNode(r) \/ ConfirmInterrupt(r) \/ ConfirmCommit(r)
      PROVE  ApprovalsInv'
  <2>1. step' \notin Confirming /\ UNCHANGED <<pc, runInput, lock, resume, approved>>
    BY <1>5 DEF FinalizeNode, ConfirmInterrupt, ConfirmCommit, Confirming
  <2> QED BY <2>1 DEF ApprovalsInv
<1>6. ASSUME NEW r \in Reqs,
             GatewayLookup(r) \/ GatewayShortCircuit(r) \/ GatewayInvoke(r) \/ GatewayPut(r)
      PROVE  ApprovalsInv'
  <2>1. step \in Confirming /\ UNCHANGED <<pc, runInput, lock, resume, approved, awaitingConfirmation>>
    BY <1>6 DEF GatewayLookup, GatewayShortCircuit, GatewayInvoke, GatewayPut, Confirming
  <2> QED BY <2>1 DEF ApprovalsInv
<1>7. ASSUME \A r \in Reqs : pc'[r] \in {"idle", "waiting"} => pc[r] = pc'[r],
             \/ resume' = "none" /\ step' = "ready"
             \/ UNCHANGED <<lock, resume, step>>,
             UNCHANGED <<runInput, approved, awaitingConfirmation>>
      PROVE  ApprovalsInv'
  BY <1>7 DEF ApprovalsInv, Confirming
<1>8. ASSUME NEW r \in Reqs, Refuse(r) \/ StreamEnds(r) \/ TurnFails(r) \/ Disconnect(r)
      PROVE  ApprovalsInv'
  <2>1. \A s \in Reqs : pc'[s] \in {"idle", "waiting"} => pc[s] = pc'[s]
    BY <1>8, <1>a DEF Refuse, StreamEnds, TurnFails, Disconnect, Answer
  <2> QED BY <1>7, <1>8, <2>1 DEF Refuse, StreamEnds, TurnFails, Disconnect, Release
<1>9. CASE Crash
  BY <1>7, <1>9 DEF Crash, Release, Open
<1>10. CASE UNCHANGED vars \/ \E c \in Calls : RowExpires(c)
  BY <1>7, <1>10 DEF RowExpires
<1> QED
  BY <1>1, <1>2, <1>3, <1>4, <1>5, <1>6, <1>8, <1>9, <1>10
     DEF Next, Turn, Interruption, AllServed

LEMMA ConsentStep == IInv /\ ApprovalsInv /\ ConsentInv /\ [Next]_vars => ConsentInv'
<1> SUFFICES ASSUME IInv, ApprovalsInv, ConsentInv, [Next]_vars PROVE ConsentInv'
  OBVIOUS
<1> USE SessionAssumption DEF vars, reqVars, procVars, runVars, ckptVars, worldVars, ghosts
<1>a. /\ runInput \in [Reqs -> {"none", "message", "approve", "reject"}]
      /\ approved \in [Reqs -> Calls \cup {NoCall}]
      /\ effects \in [Calls -> Nat]
      /\ step # "ready" => awaitingConfirmation \in Writes
  BY DEF IInv, TypeOK, NodeInv
(* Steps that consume no approval and perform no write                     *)
<1>1. ASSUME \A c \in Calls : Consents(c)' = Consents(c),
             \A c \in Writes : effects'[c] = effects[c],
             \/ step' \notin {"lookup", "invoke"}
             \/ step \in {"lookup", "invoke"} /\ UNCHANGED <<effects, awaitingConfirmation>>
      PROVE  ConsentInv'
  BY <1>1, <1>a DEF ConsentInv, ConsentBeforeEffect
<1>2. ASSUME UNCHANGED <<runInput, approved>> PROVE \A c \in Calls : Consents(c)' = Consents(c)
  BY <1>2 DEF Consents
<1>3. ASSUME NEW r \in Reqs, NEW body \in Body, Chat(r, body) PROVE ConsentInv'
  <2>1. /\ approved[r] = NoCall /\ UNCHANGED <<effects, step, awaitingConfirmation, approved>>
        /\ \A s \in Reqs \ {r} : runInput'[s] = runInput[s]
    BY <1>3, <1>a DEF Chat, Arrives, Answer, ApprovalsInv
  <2>2. \A c \in Calls : Consents(c)' = Consents(c)
    BY <2>1 DEF Consents
  <2> QED BY <1>1, <2>1, <2>2
<1>4. ASSUME NEW r \in Reqs, ConfirmApprove(r) PROVE ConsentInv'
  <2> DEFINE await == awaitingConfirmation
  <2>1. /\ lock = r /\ resume = "approve" /\ nextNode = "confirm"
        /\ UNCHANGED <<effects, runInput, awaitingConfirmation>>
        /\ approved' = [approved EXCEPT ![r] = await]
    BY <1>4 DEF ConfirmApprove, Runs
  <2>2. runInput[r] = "approve" /\ approved[r] = NoCall /\ await \in Writes /\ await \in Calls
    BY <2>1 DEF ApprovalsInv, IInv, NodeInv
  <2>3. \A c \in Calls \ {await} : Consents(c)' = Consents(c)
    BY <1>a, <2>1, <2>2 DEF Consents
  <2>4. Consents(await)' = Consents(await) \cup {r} /\ r \notin Consents(await)
    BY <1>a, <2>1, <2>2 DEF Consents
  <2>5. IsFiniteSet(Consents(await)) /\ effects[await] <= Cardinality(Consents(await))
    BY <2>2 DEF ConsentInv, ConsentBeforeEffect
  <2>6. /\ IsFiniteSet(Consents(await)')
        /\ Cardinality(Consents(await)') = Cardinality(Consents(await)) + 1
        /\ Cardinality(Consents(await)) \in Nat
    BY <2>4, <2>5, FS_AddElement, FS_CardinalityType
  <2>7. effects'[await] < Cardinality(Consents(await)')
    BY <1>a, <2>1, <2>2, <2>5, <2>6
  <2>8. \A c \in Calls : IsFiniteSet(Consents(c)')
    <3> SUFFICES ASSUME NEW c \in Calls PROVE IsFiniteSet(Consents(c)')
      OBVIOUS
    <3>1. CASE c = await
      BY <2>1, <2>6, <3>1 DEF Consents
    <3>2. CASE c # await
      BY <2>3, <3>2 DEF ConsentInv
    <3> QED BY <3>1, <3>2
  <2>9. \A c \in Writes : effects'[c] <= Cardinality(Consents(c)')
    <3> SUFFICES ASSUME NEW c \in Writes PROVE effects'[c] <= Cardinality(Consents(c)')
      OBVIOUS
    <3>1. CASE c = await
      BY <1>a, <2>1, <2>2, <2>5, <2>6, <3>1
    <3>2. CASE c # await
      BY <2>1, <2>3, <3>2 DEF ConsentInv, ConsentBeforeEffect
    <3> QED BY <3>1, <3>2
  <2> QED BY <2>1, <2>7, <2>8, <2>9 DEF ConsentInv, ConsentBeforeEffect
<1>5. ASSUME NEW r \in Reqs, GatewayInvoke(r) PROVE ConsentInv'
  <2> DEFINE await == awaitingConfirmation
  <2>1. PICK n \in {0, 1} : effects' = [effects EXCEPT ![await] = @ + n]
    BY <1>5 DEF GatewayInvoke
  <2>2. step = "invoke" /\ step' = "put" /\ UNCHANGED <<runInput, approved>>
    BY <1>5 DEF GatewayInvoke
  <2>3. \A c \in Calls : Consents(c)' = Consents(c)
    BY <1>2, <2>2
  <2>4. /\ await \in Calls /\ IsFiniteSet(Consents(await))
        /\ effects[await] < Cardinality(Consents(await))
    BY <1>a, <2>2 DEF ConsentInv
  <2>5. Cardinality(Consents(await)) \in Nat
    BY <2>4, FS_CardinalityType
  <2>6. effects'[await] <= Cardinality(Consents(await))
    BY <1>a, <2>1, <2>4, <2>5
  <2>7. \A c \in Calls \ {await} : effects'[c] = effects[c]
    BY <1>a, <2>1
  <2> QED BY <2>2, <2>3, <2>6, <2>7 DEF ConsentInv, ConsentBeforeEffect
<1>6. ASSUME NEW r \in Reqs, ToolsNode(r) PROVE ConsentInv'
  <2>1. \A c \in Writes : effects'[c] = effects[c]
    BY <1>6, <1>a DEF ToolsNode, ExecuteAndAnswer, NotAllowed, NeedsConfirmation
  <2> QED BY <1>1, <1>2, <1>6, <2>1 DEF ToolsNode
<1>7. ASSUME NEW r \in Reqs,
             \/ StartTurn(r) \/ AgentNode(r) \/ FinalizeNode(r) \/ ConfirmInterrupt(r)
             \/ ConfirmReject(r) \/ ConfirmCommit(r) \/ GatewayShortCircuit(r) \/ GatewayPut(r)
      PROVE  ConsentInv'
  <2>1. UNCHANGED <<runInput, approved, effects>> /\ step' \notin {"lookup", "invoke"}
    BY <1>7 DEF StartTurn, AgentNode, FinalizeNode, ConfirmInterrupt, ConfirmReject,
       ConfirmCommit, GatewayShortCircuit, GatewayPut, IInv, NodeInv
  <2> QED BY <1>1, <1>2, <2>1
<1>8. ASSUME NEW r \in Reqs, GatewayLookup(r) PROVE ConsentInv'
  BY <1>1, <1>2, <1>8 DEF GatewayLookup
<1>9. ASSUME UNCHANGED <<runInput, approved, effects, awaitingConfirmation>>,
             step' = "ready" \/ UNCHANGED step
      PROVE  ConsentInv'
  BY <1>1, <1>2, <1>9
<1>10. ASSUME NEW r \in Reqs, Refuse(r) \/ StreamEnds(r) \/ TurnFails(r) \/ Disconnect(r)
       PROVE  ConsentInv'
  BY <1>9, <1>10 DEF Refuse, StreamEnds, TurnFails, Disconnect, Release
<1>11. CASE Crash \/ UNCHANGED vars \/ \E c \in Calls : RowExpires(c)
  BY <1>9, <1>11 DEF Crash, Release, RowExpires
<1> QED
  BY <1>3, <1>4, <1>5, <1>6, <1>7, <1>8, <1>10, <1>11
     DEF Next, Turn, Interruption, AllServed

(* A write is performed at most as often as it was approved: no crash, rerun,
   retry or race turns one approval into two performances, or the approval of
   one write into the performance of another.                              *)
THEOREM WritesNeedConsent == Spec => []ConsentBeforeEffect
<1>1. Init => ApprovalsInv /\ ConsentInv
  <2> SUFFICES ASSUME Init PROVE ApprovalsInv /\ ConsentInv
    OBVIOUS
  <2>1. \A c \in Calls : Consents(c) = {}
    BY SessionAssumption DEF Init, Consents
  <2>2. IsFiniteSet({}) /\ Cardinality({}) = 0
    BY FS_EmptySet
  <2>3. ApprovalsInv
    BY SessionAssumption DEF Init, ApprovalsInv, Confirming
  <2>4. ConsentBeforeEffect
    <3> SUFFICES ASSUME NEW c \in Writes PROVE effects[c] <= Cardinality(Consents(c))
      BY DEF ConsentBeforeEffect
    <3>1. effects[c] = 0 /\ Consents(c) = {}
      BY <2>1, SessionAssumption DEF Init
    <3> QED BY <2>2, <3>1
  <2>5. \A c \in Calls : IsFiniteSet(Consents(c))
    BY <2>1, <2>2
  <2> QED BY <2>3, <2>4, <2>5 DEF Init, ConsentInv
<1>2. ConsentInv => ConsentBeforeEffect
  BY DEF ConsentInv
<1> QED BY <1>1, <1>2, ApprovalsStep, ConsentStep, InductiveInvariant, PTL DEF Spec

-----------------------------------------------------------------------------
(* Each call waits in one place, unanswered                                *)

LEMMA PendingInit == Init => PendingIsUnanswered
  BY SessionAssumption DEF Init, PendingIsUnanswered, Pending

LEMMA PendingStep == IInv /\ PendingIsUnanswered /\ [Next]_vars => PendingIsUnanswered'
<1> SUFFICES ASSUME IInv, PendingIsUnanswered, [Next]_vars PROVE PendingIsUnanswered'
  OBVIOUS
<1> USE SessionAssumption DEF vars, reqVars, procVars, runVars, ckptVars, worldVars, ghosts
<1> DEFINE q == toolCallQueue
<1>a. q \in Seq(Calls) /\ history \in [Calls -> Answers \cup {"unused", "proposed", "rejected"}]
  BY DEF IInv, TypeOK
<1>1. ASSUME NEW r \in Reqs, StartTurn(r) PROVE PendingIsUnanswered'
  <2>1. CASE runInput[r] = "message"
    BY <1>1, <2>1 DEF StartTurn, PendingIsUnanswered, Pending
  <2>2. CASE runInput[r] # "message"
    BY <1>1, <2>2 DEF StartTurn, PendingIsUnanswered, Pending
  <2> QED BY <2>1, <2>2
<1>2. ASSUME NEW r \in Reqs, AgentNode(r) PROVE PendingIsUnanswered'
  <2>1. PICK batch \in Batches :
          /\ toolCallQueue' = batch
          /\ history' = [c \in Calls |->
                           IF \E i \in DOMAIN batch : batch[i] = c
                           THEN "proposed" ELSE history[c]]
    BY <1>2 DEF AgentNode
  <2>2. batch \in Seq(Calls) /\ \A i, j \in DOMAIN batch : batch[i] = batch[j] => i = j
    BY BatchType, BatchDistinct
  <2>3. awaitingConfirmation' = NoCall
    BY <1>2 DEF AgentNode
  <2>4. Pending' = {batch[i] : i \in DOMAIN batch}
    BY <2>1, <2>3 DEF Pending
  <2>5. \A c \in Pending' : history'[c] = "proposed"
    BY <2>1, <2>2, <2>4
  <2> QED BY <2>1, <2>2, <2>3, <2>5 DEF PendingIsUnanswered
<1>3. ASSUME NEW r \in Reqs, ToolsNode(r) PROVE PendingIsUnanswered'
  <2>1. q # <<>> /\ toolCallQueue' = Tail(q)
    BY <1>3 DEF ToolsNode, Runs, IInv, NodeInv
  <2>2. /\ DOMAIN Tail(q) = 1..(Len(q) - 1)
        /\ \A i \in DOMAIN Tail(q) : Tail(q)[i] = q[i + 1] /\ i + 1 \in DOMAIN q
        /\ Head(q) = q[1] /\ 1 \in DOMAIN q
    BY <1>a, <2>1
  <2>3. \A i \in DOMAIN Tail(q) : Tail(q)[i] # Head(q)
    BY <2>2 DEF PendingIsUnanswered
  <2>4. \A i, j \in DOMAIN Tail(q) : Tail(q)[i] = Tail(q)[j] => i = j
    BY <2>2 DEF PendingIsUnanswered
  <2>5. \A i \in DOMAIN Tail(q) : Tail(q)[i] \in Calls /\ history[Tail(q)[i]] = "proposed"
    BY <1>a, <2>2 DEF PendingIsUnanswered, Pending
  <2>6. CASE NeedsConfirmation(Head(q))
    <3>1. awaitingConfirmation' = Head(q) /\ UNCHANGED history
      BY <1>3, <2>6 DEF ToolsNode
    <3>2. history[Head(q)] = "proposed"
      BY <2>2 DEF PendingIsUnanswered, Pending
    <3> QED BY <2>1, <2>3, <2>4, <2>5, <3>1, <3>2 DEF PendingIsUnanswered, Pending
  <2>7. CASE ~NeedsConfirmation(Head(q))
    <3>1. awaitingConfirmation' = NoCall
      BY <1>3, <2>7 DEF ToolsNode
    <3>2. \A c \in Calls : c # Head(q) => history'[c] = history[c]
      BY <1>3, <1>a, <2>7 DEF ToolsNode, ExecuteAndAnswer
    <3>3. \A i \in DOMAIN Tail(q) : history'[Tail(q)[i]] = "proposed"
      BY <2>3, <2>5, <3>2
    <3> QED BY <2>1, <2>4, <2>5, <3>1, <3>3 DEF PendingIsUnanswered, Pending
  <2> QED BY <2>6, <2>7
<1>4. ASSUME NEW fate, AnswerAwaited(fate) PROVE PendingIsUnanswered'
  <2>1. /\ awaitingConfirmation' = NoCall /\ toolCallQueue' = q
        /\ \A c \in Calls : c # awaitingConfirmation => history'[c] = history[c]
    BY <1>4, <1>a DEF AnswerAwaited
  <2>2. \A i \in DOMAIN q : q[i] \in Calls /\ q[i] # awaitingConfirmation
                           /\ history[q[i]] = "proposed"
    BY <1>a DEF PendingIsUnanswered, Pending
  <2> QED BY <2>1, <2>2 DEF PendingIsUnanswered, Pending
<1>5. ASSUME NEW r \in Reqs, ConfirmReject(r) \/ ConfirmCommit(r) PROVE PendingIsUnanswered'
  BY <1>4, <1>5 DEF ConfirmReject, ConfirmCommit
<1>6. CASE UNCHANGED ckptVars
  BY <1>6 DEF PendingIsUnanswered, Pending
<1>7. ASSUME NEW r \in Reqs, FinalizeNode(r) PROVE PendingIsUnanswered'
  BY <1>7 DEF FinalizeNode, PendingIsUnanswered, Pending
<1> QED
  BY <1>1, <1>2, <1>3, <1>5, <1>6, <1>7 DEF Next, Turn, Interruption, AllServed,
     Refuse, Chat, ConfirmInterrupt, ConfirmApprove, GatewayLookup,
     GatewayShortCircuit, GatewayInvoke, GatewayPut, StreamEnds, TurnFails,
     Disconnect, Crash, RowExpires

(* No call is ever answered twice, for any interleaving and any fault.     *)
THEOREM PendingCallsUnanswered == Spec => []PendingIsUnanswered
  BY PendingInit, PendingStep, InductiveInvariant, PTL DEF Spec

-----------------------------------------------------------------------------
(* The session implements the gate, whatever interrupts it                 *)

NeverUnshown == Faults \cap {"limit", "store", "disconnect", "crash"} = {}

(* A write that may be decided has been shown to a client, unless a turn may
   end before it announces its pause.                                      *)
AskedInv ==
  /\ \A c \in asked : c \in Writes /\ history[c] # "unused"
  /\ \A i \in DOMAIN toolCallQueue : toolCallQueue[i] \notin asked
  /\ NeverUnshown =>
       (nextNode = "confirm" /\ (lock = NoReq \/ resume # "none" \/ step # "ready")
          => awaitingConfirmation \in asked)

LEMMA AskedStep == IInv /\ PendingIsUnanswered /\ AskedInv /\ [Next]_vars => AskedInv'
<1> SUFFICES ASSUME IInv, PendingIsUnanswered, AskedInv, [Next]_vars PROVE AskedInv'
  OBVIOUS
<1> USE SessionAssumption DEF vars, reqVars, procVars, runVars, ckptVars, worldVars, ghosts
<1> DEFINE q == toolCallQueue
<1>a. /\ history \in [Calls -> Answers \cup {"unused", "proposed", "rejected"}]
      /\ q \in Seq(Calls)
      /\ lock \in Reqs \cup {NoReq}
      /\ step # "ready" => lock # NoReq /\ nextNode = "confirm"
      /\ nextNode = "confirm" => /\ awaitingConfirmation \in Writes
                                 /\ history[awaitingConfirmation] = "proposed"
      /\ nextNode = "tools" => q # <<>>
      /\ \A i \in DOMAIN q : q[i] # awaitingConfirmation /\ q[i] \in Calls
  BY DEF IInv, TypeOK, NodeInv, PendingIsUnanswered, Pending
<1>1. ASSUME NEW r \in Reqs, StartTurn(r) PROVE AskedInv'
  BY <1>1, <1>a DEF StartTurn, AskedInv
<1>2. ASSUME NEW r \in Reqs, AgentNode(r) PROVE AskedInv'
  <2>1. PICK batch \in Batches :
          /\ q' = batch
          /\ history' = [c \in Calls |-> IF \E i \in DOMAIN batch : batch[i] = c
                                         THEN "proposed" ELSE history[c]]
    BY <1>2 DEF AgentNode
  <2>2. UNCHANGED asked /\ nextNode' # "confirm"
    BY <1>2 DEF AgentNode
  <2>3. \A c \in Calls : history[c] # "unused" => history'[c] # "unused"
    BY <2>1
  <2>4. \A i \in DOMAIN batch : batch[i] \notin asked
    BY BatchFresh DEF AskedInv
  <2> QED BY <2>1, <2>2, <2>3, <2>4 DEF AskedInv
<1>3. ASSUME NEW r \in Reqs, ToolsNode(r) PROVE AskedInv'
  <2>1. /\ UNCHANGED <<asked, lock, step>>
        /\ resume' = "none" /\ lock = r /\ step = "ready" /\ r # NoReq
        /\ q # <<>> /\ q' = Tail(q)
    BY <1>3, <1>a DEF ToolsNode, Runs
  <2>2. \A c \in Calls : history[c] # "unused" => history'[c] # "unused"
    BY <1>3, <1>a DEF ToolsNode, ExecuteAndAnswer, Outcomes
  <2>3. \A i \in DOMAIN Tail(q) : \E j \in DOMAIN q : Tail(q)[i] = q[j]
    BY <1>a, <2>1
  <2> QED BY <2>1, <2>2, <2>3 DEF AskedInv
<1>4. ASSUME NEW r \in Reqs, FinalizeNode(r) PROVE AskedInv'
  BY <1>4 DEF FinalizeNode, AskedInv
<1>5. ASSUME NEW r \in Reqs, ConfirmInterrupt(r) PROVE AskedInv'
  BY <1>5, <1>a DEF ConfirmInterrupt, Runs, AskedInv
<1>6. ASSUME NEW fate \in Answers \cup {"rejected"}, AnswerAwaited(fate), UNCHANGED asked
      PROVE  AskedInv'
  <2>1. \A c \in Calls : history'[c] = history[c] \/ history'[c] = fate
    BY <1>6, <1>a DEF AnswerAwaited
  <2>2. nextNode' # "confirm" /\ fate # "unused" /\ UNCHANGED q
    BY <1>6 DEF AnswerAwaited, RouteAfter, Outcomes, Answers
  <2> QED BY <1>6, <2>1, <2>2 DEF AskedInv
<1>7. ASSUME NEW r \in Reqs, ConfirmReject(r) PROVE AskedInv'
  BY <1>6, <1>7 DEF ConfirmReject
<1>8. ASSUME NEW r \in Reqs, ConfirmCommit(r) PROVE AskedInv'
  <2>1. result \in Answers
    BY <1>8 DEF ConfirmCommit, IInv, NodeInv, Answers
  <2> QED BY <1>6, <1>8, <2>1 DEF ConfirmCommit
<1>9. ASSUME NEW r \in Reqs,
             \/ ConfirmApprove(r) \/ GatewayLookup(r) \/ GatewayShortCircuit(r)
             \/ GatewayInvoke(r) \/ GatewayPut(r)
      PROVE  AskedInv'
  <2>1. /\ UNCHANGED <<asked, ckptVars>>
        /\ resume # "none" \/ step # "ready"
    BY <1>9 DEF ConfirmApprove, GatewayLookup, GatewayShortCircuit, GatewayInvoke,
       GatewayPut, Runs
  <2> QED BY <2>1 DEF AskedInv
<1>10. ASSUME NEW r \in Reqs, StreamEnds(r) PROVE AskedInv'
  BY <1>10, <1>a DEF StreamEnds, Release, AskedInv
<1>11. ASSUME NEW r \in Reqs, TurnFails(r) PROVE AskedInv'
  <2>1. UNCHANGED <<asked, ckptVars>>
    BY <1>11 DEF TurnFails
  <2>2. NeverUnshown => nextNode = "agent"
    BY <1>11 DEF TurnFails, CanFail, NeverUnshown
  <2> QED BY <2>1, <2>2 DEF AskedInv
<1>12. ASSUME Crash \/ \E r \in Reqs : Disconnect(r) PROVE AskedInv'
  <2>1. ~NeverUnshown /\ UNCHANGED <<asked, ckptVars>>
    BY <1>12 DEF Crash, Disconnect, NeverUnshown
  <2> QED BY <2>1 DEF AskedInv
<1>13. CASE UNCHANGED <<lock, step, resume, ckptVars, asked>>
  BY <1>13 DEF AskedInv
<1> QED
  BY <1>1, <1>2, <1>3, <1>4, <1>5, <1>7, <1>8, <1>9, <1>10, <1>11, <1>12, <1>13
     DEF Next, Turn, Interruption, AllServed, Refuse, Chat, RowExpires

(* What the step of one call means for the gate.                           *)
LEMMA OneLifeChanges ==
  ASSUME NEW c \in Calls, NEW v, Life'[c] = v, \A d \in Calls \ {c} : Life'[d] = Life[d]
  PROVE  Life' = [Life EXCEPT ![c] = v]
<1>1. Life = [d \in Calls |-> Life[d]] /\ Life' = [d \in Calls |-> Life'[d]]
  BY DEF Life
<1> DEFINE F == [Life EXCEPT ![c] = v]
<1>2. F = [d \in Calls |-> F[d]] /\ \A d \in Calls : F[d] = IF d = c THEN v ELSE Life[d]
  BY <1>1
<1> HIDE DEF F
<1>3. \A d \in Calls : F[d] = Life'[d]
  BY <1>2
<1> QED BY <1>1, <1>2, <1>3 DEF F

LEMMA NoLifeChanges ==
  ASSUME \A d \in Calls : Life'[d] = Life[d]
  PROVE  Life' = Life
BY DEF Life

(* Every step of the session is a step of the gate, or none.               *)
LEMMA GateStep ==
  IInv /\ PendingIsUnanswered /\ AskedInv /\ [Next]_vars
    => [Gate!GateNext]_(Gate!gateVars)
<1> DEFINE Step == [Gate!GateNext]_(Gate!gateVars)
<1> SUFFICES ASSUME IInv, PendingIsUnanswered, AskedInv, [Next]_vars PROVE Step
  OBVIOUS
<1> USE SessionAssumption DEF vars, reqVars, procVars, runVars, ckptVars, worldVars, ghosts
<1> DEFINE await == awaitingConfirmation
           trying == /\ step \notin {"ready", "interrupted"}
                     /\ step \in {"lookup", "invoke"} \/ result = "not_allowed"
           tried == step \notin {"ready", "interrupted"} /\ ~trying
           confirming == trying \/ tried
           rows == [c \in Calls |-> LiveRow(c)]
<1>a. /\ history \in [Calls -> Answers \cup {"unused", "proposed", "rejected"}]
      /\ effects \in [Calls -> Nat]
      /\ store \in [Calls -> Outcomes \cup {"none", "expired"}]
      /\ lock \in Reqs \cup {NoReq}
      /\ toolCallQueue \in Seq(Calls)
      /\ step \in {"ready", "interrupted", "lookup", "invoke", "put", "commit"}
  BY DEF IInv, TypeOK
<1>b. nextNode = "confirm" => await \in Writes /\ await \in Calls /\ history[await] = "proposed"
  BY DEF IInv, NodeInv, PendingIsUnanswered, Pending
<1>c. /\ step # "ready" => nextNode = "confirm" /\ lock # NoReq
      /\ ~(trying /\ tried) /\ ~(trying' /\ tried')
  BY DEF IInv, NodeInv
<1>d. \A c \in asked : c \in Writes /\ history[c] # "unused"
  BY DEF AskedInv
<1>e. \A d \in Calls : Life[d] =
        IF d = await /\ trying THEN "approved"
        ELSE IF d = await /\ tried THEN "tried"
        ELSE IF history[d] = "proposed" /\ d \in asked THEN "asked"
        ELSE history[d]
  BY DEF Life
<1>f. \A d \in Calls : Life'[d] =
        IF d = await' /\ trying' THEN "approved"
        ELSE IF d = await' /\ tried' THEN "tried"
        ELSE IF history'[d] = "proposed" /\ d \in asked' THEN "asked"
        ELSE history'[d]
  BY DEF Life
<1> HIDE DEF Step, await, trying, tried
<1>r. ASSUME UNCHANGED store PROVE UNCHANGED rows
  BY <1>r DEF LiveRow
<1> HIDE DEF rows
<1>s. ASSUME UNCHANGED <<effects, rows>>, \A d \in Calls : Life'[d] = Life[d] PROVE Step
  <2>1. Life' = Life
    BY <1>s, NoLifeChanges
  <2> QED BY <1>s, <2>1 DEF Step, rows, Gate!gateVars
<1>1. ASSUME NEW r \in Reqs, AgentNode(r) PROVE Step
  <2>1. PICK batch \in Batches :
          history' = [c \in Calls |-> IF \E i \in DOMAIN batch : batch[i] = c
                                      THEN "proposed" ELSE history[c]]
    BY <1>1 DEF AgentNode
  <2>2. UNCHANGED <<effects, store, asked>> /\ ~confirming /\ ~confirming'
    BY <1>1 DEF AgentNode, trying, tried
  <2> DEFINE S == {batch[i] : i \in DOMAIN batch}
  <2>3. S \in SUBSET Calls /\ \A c \in S : history[c] = "unused"
    BY BatchType, BatchFresh
  <2>4. \A d \in Calls : history'[d] = IF d \in S THEN "proposed" ELSE history[d]
    BY <2>1
  <2> HIDE DEF S
  <2>5. \A c \in S : Life[c] = "unused"
    BY <1>e, <2>2, <2>3
  <2>6. \A d \in Calls : Life'[d] = IF d \in S THEN "proposed" ELSE Life[d]
    BY <1>d, <1>e, <1>f, <2>2, <2>3, <2>4
  <2>7. Life' = [c \in Calls |-> IF c \in S THEN "proposed" ELSE Life[c]]
    <3>1. Life' = [c \in Calls |-> Life'[c]]
      BY DEF Life
    <3> QED BY <2>6, <3>1
  <2>8. Gate!Propose(S)
    BY <1>r, <2>2, <2>5, <2>7 DEF Gate!Propose, rows
  <2> QED BY <2>3, <2>8 DEF Step, Gate!GateNext
<1>2. ASSUME NEW r \in Reqs, ToolsNode(r) PROVE Step
  <2> DEFINE call == Head(toolCallQueue)
  <2>1. ~confirming /\ ~confirming' /\ UNCHANGED <<asked, store>> /\ toolCallQueue # <<>>
    BY <1>2 DEF ToolsNode, Runs, IInv, NodeInv, trying, tried
  <2>2. call \in Calls /\ history[call] = "proposed"
    <3>1. call = toolCallQueue[1] /\ 1 \in DOMAIN toolCallQueue
      BY <1>a, <2>1
    <3> QED BY <1>a, <3>1 DEF PendingIsUnanswered, Pending
  <2>3. call \notin asked
    <3>1. call = toolCallQueue[1] /\ 1 \in DOMAIN toolCallQueue
      BY <1>a, <2>1
    <3> QED BY <3>1 DEF AskedInv
  <2>4. CASE NeedsConfirmation(call)
    <3>1. UNCHANGED <<history, effects>>
      BY <1>2, <2>4 DEF ToolsNode
    <3> QED BY <1>e, <1>f, <1>r, <1>s, <2>1, <3>1
  <2>5. ASSUME NEW fate \in Answers, history' = [history EXCEPT ![call] = fate]
        PROVE  Gate!Becomes(call, {"proposed"}, fate)
    <3> HIDE DEF call
    <3>1. Life[call] = "proposed"
      BY <1>e, <2>1, <2>2, <2>3
    <3>2. Life'[call] = fate /\ \A d \in Calls \ {call} : Life'[d] = Life[d]
      BY <1>a, <1>e, <1>f, <2>1, <2>2, <2>3, <2>5
    <3>3. Life' = [Life EXCEPT ![call] = fate]
      BY <2>2, <3>2, OneLifeChanges
    <3> QED BY <3>1, <3>3 DEF Gate!Becomes
  <2>6. CASE ~NeedsConfirmation(call) /\ ~NotAllowed(call)
    <3>1. call \notin Writes
      BY <2>6 DEF NeedsConfirmation, NotAllowed
    <3>2. PICK res \in Outcomes :
            /\ history' = [history EXCEPT ![call] = res]
            /\ effects' = effects
      BY <1>2, <2>6, <3>1 DEF ToolsNode, ExecuteAndAnswer
    <3>3. Gate!Becomes(call, {"proposed"}, res)
      BY <2>5, <3>2 DEF Answers
    <3> HIDE DEF call
    <3>4. Gate!ExecuteRead(call)
      BY <1>r, <2>1, <3>1, <3>2, <3>3 DEF Gate!ExecuteRead, Gate!GateOutcomes, Outcomes, rows
    <3> QED BY <2>2, <3>4 DEF Step, Gate!GateNext
  <2>7. CASE NotAllowed(call)
    <3>1. /\ history' = [history EXCEPT ![call] = "not_allowed"]
          /\ UNCHANGED effects
      BY <1>2, <2>7 DEF ToolsNode, NeedsConfirmation, NotAllowed
    <3>2. "undiscovered" \in Faults /\ call \in Writes
      BY <2>7 DEF NotAllowed, IInv, NodeInv
    <3>3. Gate!Becomes(call, {"proposed"}, "not_allowed")
      BY <2>5, <3>1 DEF Answers
    <3> HIDE DEF call
    <3>4. Gate!Becomes(call, {"proposed", "approved"}, "not_allowed")
      BY <3>3 DEF Gate!Becomes
    <3>5. Gate!TurnAway(call)
      BY <1>r, <2>1, <3>1, <3>2, <3>4 DEF Gate!TurnAway, rows
    <3> QED BY <2>2, <3>5 DEF Step, Gate!GateNext
  <2> QED BY <2>4, <2>6, <2>7
<1>3. ASSUME NEW r \in Reqs, ConfirmInterrupt(r) PROVE Step
  <2>1. /\ asked' = asked \cup {await} /\ UNCHANGED <<effects, store, history>>
        /\ await' = await /\ ~confirming /\ ~confirming' /\ nextNode = "confirm"
    BY <1>3 DEF ConfirmInterrupt, Runs, await, trying, tried
  <2>2. \A d \in Calls \ {await} : Life'[d] = Life[d]
    BY <1>e, <1>f, <2>1
  <2>3. Life'[await] = "asked"
    BY <1>b, <1>f, <2>1
  <2>4. CASE await \in asked
    <3>1. Life[await] = "asked"
      BY <1>b, <1>e, <2>1, <2>4
    <3> QED BY <1>r, <1>s, <2>1, <2>2, <2>3, <3>1
  <2>5. CASE await \notin asked
    <3>1. Life[await] = "proposed"
      BY <1>b, <1>e, <2>1, <2>5
    <3>2. Life' = [Life EXCEPT ![await] = "asked"]
      BY <1>b, <2>1, <2>2, <2>3, OneLifeChanges
    <3>3. Gate!Ask(await)
      BY <1>b, <1>r, <2>1, <3>1, <3>2 DEF Gate!Ask, Gate!Becomes, rows
    <3> QED BY <1>b, <2>1, <3>3 DEF Step, Gate!GateNext
  <2> QED BY <2>4, <2>5
(* What may be decided, and where a call that is cut off goes back to      *)
<1>u. ASSUME await \in asked \/ ~NeverUnshown
      PROVE  (IF await \in asked THEN "asked" ELSE "proposed") \in Gate!Undecided
  BY <1>u DEF Gate!Undecided, NeverUnshown
<1>4. ASSUME NEW verdict \in {"approved", "rejected"}, nextNode = "confirm", resume # "none",
             ~confirming, UNCHANGED <<effects, store>>,
             Life'[await] = verdict, \A d \in Calls \ {await} : Life'[d] = Life[d]
      PROVE  Step
  <2>1. await \in asked \/ ~NeverUnshown
    BY <1>4 DEF AskedInv, await
  <2>2. Life[await] = IF await \in asked THEN "asked" ELSE "proposed"
    BY <1>4, <1>b, <1>e
  <2>3. Life' = [Life EXCEPT ![await] = verdict]
    BY <1>4, <1>b, OneLifeChanges
  <2>4. Gate!Becomes(await, Gate!Undecided, verdict)
    BY <1>u, <2>1, <2>2, <2>3 DEF Gate!Becomes
  <2>5. Gate!Decide(await, verdict)
    BY <1>4, <1>b, <1>r, <2>4 DEF Gate!Decide, rows
  <2> QED BY <1>4, <1>b, <2>5 DEF Step, Gate!GateNext
<1>5. ASSUME NEW r \in Reqs, ConfirmReject(r) PROVE Step
  <2>1. /\ nextNode = "confirm" /\ resume # "none" /\ ~confirming /\ ~confirming'
        /\ UNCHANGED <<effects, store, asked>>
        /\ history' = [history EXCEPT ![await] = "rejected"]
    BY <1>5 DEF ConfirmReject, AnswerAwaited, Runs, trying, tried, await
  <2>2. Life'[await] = "rejected" /\ \A d \in Calls \ {await} : Life'[d] = Life[d]
    BY <1>a, <1>b, <1>e, <1>f, <2>1
  <2> QED BY <1>4, <2>1, <2>2
<1>6. ASSUME NEW r \in Reqs, ConfirmApprove(r) PROVE Step
  <2>1. /\ nextNode = "confirm" /\ resume # "none" /\ ~confirming /\ trying' /\ ~tried'
        /\ UNCHANGED <<effects, store, asked, history>> /\ await' = await
    BY <1>6 DEF ConfirmApprove, Runs, trying, tried, await
  <2>2. Life'[await] = "approved" /\ \A d \in Calls \ {await} : Life'[d] = Life[d]
    BY <1>b, <1>e, <1>f, <2>1
  <2> QED BY <1>4, <2>1, <2>2
<1>7. ASSUME trying, tried', await' = await, UNCHANGED <<rows, history, asked>>,
             \/ UNCHANGED effects
             \/ store[await] = "none" /\ effects' = [effects EXCEPT ![await] = @ + 1]
      PROVE  Step
  <2>1. await \in Calls
    BY <1>7, <1>b, <1>c DEF trying
  <2>2. Life[await] = "approved"
    BY <1>7, <1>e, <2>1
  <2>3. Life'[await] = "tried" /\ \A d \in Calls \ {await} : Life'[d] = Life[d]
    BY <1>7, <1>c, <1>e, <1>f, <2>1
  <2>4. Life' = [Life EXCEPT ![await] = "tried"]
    BY <2>1, <2>3, OneLifeChanges
  <2>5. store[await] = "none" => LiveRow(await) = "none"
    BY DEF LiveRow, Outcomes
  <2>6. Gate!Try(await)
    BY <1>7, <2>1, <2>2, <2>4, <2>5 DEF Gate!Try, Gate!Becomes, rows
  <2> QED BY <2>1, <2>6 DEF Step, Gate!GateNext
<1>8. ASSUME NEW r \in Reqs, GatewayLookup(r) PROVE Step
  <2>1. UNCHANGED <<effects, history, asked>> /\ await' = await /\ trying
    BY <1>8 DEF GatewayLookup, await, trying
  <2>2. CASE store[await] \in Outcomes
    <3>1. UNCHANGED store /\ tried'
      BY <1>8, <2>2 DEF GatewayLookup, await, trying, tried, Outcomes
    <3> QED BY <1>7, <1>r, <2>1, <3>1
  <2>3. CASE store[await] \notin Outcomes
    <3>1. trying' /\ ~tried' /\ ~tried
      BY <1>8, <2>3 DEF GatewayLookup, await, trying, tried
    <3>2. store' = [store EXCEPT ![await] = "none"]
      BY <1>8, <2>3 DEF GatewayLookup, await
    <3>3. UNCHANGED rows
      BY <1>a, <2>3, <3>2 DEF rows, LiveRow, Outcomes
    <3> QED BY <1>e, <1>f, <1>s, <2>1, <3>1, <3>3
  <2> QED BY <2>2, <2>3
<1>9. ASSUME NEW r \in Reqs, GatewayShortCircuit(r) PROVE Step
  BY <1>7, <1>9, <1>r DEF GatewayShortCircuit, await, trying, tried
<1>10. ASSUME NEW r \in Reqs, GatewayInvoke(r) PROVE Step
  <2>1. /\ step = "invoke" /\ trying /\ tried' /\ await' = await
        /\ UNCHANGED <<store, rows, history, asked>>
        /\ \E n \in {0, 1} : effects' = [effects EXCEPT ![await] = @ + n]
    BY <1>10, <1>r DEF GatewayInvoke, await, trying, tried, Outcomes
  <2>2. await \in Calls /\ store[await] = "none"
    BY <1>b, <1>c, <2>1 DEF IInv, NodeInv, await
  <2>3. CASE effects' = [effects EXCEPT ![await] = @ + 0]
    <3>1. UNCHANGED effects
      BY <1>a, <2>2, <2>3
    <3> QED BY <1>7, <2>1, <3>1
  <2>4. CASE effects' = [effects EXCEPT ![await] = @ + 1]
    BY <1>7, <2>1, <2>2, <2>4
  <2> QED BY <2>1, <2>3, <2>4
<1>11. ASSUME NEW r \in Reqs, GatewayPut(r) PROVE Step
  <2>1. /\ step = "put" /\ tried /\ tried' /\ ~trying /\ ~trying' /\ await' = await
        /\ UNCHANGED <<effects, history, asked>>
        /\ store' = [store EXCEPT ![await] = result]
    <3>1. step = "put" /\ result \in Outcomes
      BY <1>11 DEF GatewayPut, IInv, NodeInv
    <3> QED BY <1>11, <3>1 DEF GatewayPut, await, trying, tried, Outcomes
  <2>2. await \in Calls /\ store[await] = "none" /\ result \in Outcomes
    BY <1>b, <1>c, <2>1 DEF IInv, NodeInv, await
  <2>3. Life[await] = "tried" /\ \A d \in Calls : Life'[d] = Life[d]
    BY <1>e, <1>f, <2>1, <2>2
  <2>4. Life' = Life
    BY <2>3, NoLifeChanges
  <2>5. rows[await] = "none" /\ rows' = [rows EXCEPT ![await] = result]
    BY <1>a, <2>1, <2>2 DEF rows, LiveRow, Outcomes
  <2>6. Gate!Keep(await)
    BY <2>1, <2>2, <2>3, <2>4, <2>5 DEF Gate!Keep, Gate!GateOutcomes, Outcomes, rows
  <2> QED BY <2>2, <2>6 DEF Step, Gate!GateNext
<1>12. ASSUME NEW r \in Reqs, ConfirmCommit(r) PROVE Step
  <2>1. /\ step = "commit" /\ ~confirming'
        /\ UNCHANGED <<effects, store, rows, asked>>
        /\ history' = [history EXCEPT ![await] = result]
        /\ \/ result \in Outcomes /\ store[await] \in {"none", "expired", result}
           \/ result = "not_allowed"
    BY <1>12, <1>r DEF ConfirmCommit, AnswerAwaited, IInv, NodeInv, await, trying, tried
  <2>2. await \in Calls /\ await \in Writes /\ result \in Answers
    BY <1>b, <1>c, <2>1 DEF Answers
  <2>3. Life[await] = IF result = "not_allowed" THEN "approved" ELSE "tried"
    BY <1>e, <2>1, <2>2 DEF trying, tried
  <2>4. Life'[await] = result /\ \A d \in Calls \ {await} : Life'[d] = Life[d]
    <3>1. history'[await] = result /\ result # "proposed"
      BY <1>a, <2>1, <2>2 DEF Answers, Outcomes
    <3>2. \A d \in Calls \ {await} : history'[d] = history[d]
      BY <1>a, <2>1
    <3> QED BY <1>e, <1>f, <2>1, <2>2, <3>1, <3>2
  <2>5. Life' = [Life EXCEPT ![await] = result]
    BY <2>2, <2>4, OneLifeChanges
  <2>6. CASE result \in Outcomes
    <3>1. Gate!Becomes(await, {"tried"}, result)
      BY <2>3, <2>5, <2>6 DEF Gate!Becomes, Outcomes
    <3>2. LiveRow(await) \in {"none", result}
      BY <2>1, <2>6 DEF LiveRow, Outcomes
    <3>3. Gate!Conclude(await)
      BY <2>1, <2>2, <2>6, <3>1, <3>2 DEF Gate!Conclude, Gate!GateOutcomes, Outcomes, rows
    <3> QED BY <2>2, <3>3 DEF Step, Gate!GateNext
  <2>7. CASE result = "not_allowed"
    <3>1. "undiscovered" \in Faults
      BY <2>7 DEF IInv, NodeInv
    <3>2. Gate!Becomes(await, {"proposed", "approved"}, "not_allowed")
      BY <2>3, <2>5, <2>7 DEF Gate!Becomes
    <3>3. Gate!TurnAway(await)
      BY <2>1, <2>2, <3>1, <3>2 DEF Gate!TurnAway, rows
    <3> QED BY <2>2, <3>3 DEF Step, Gate!GateNext
  <2> QED BY <2>2, <2>6, <2>7 DEF Answers
(* A turn that ends                                                        *)
<1>13. ASSUME ~confirming', UNCHANGED <<effects, rows, history, asked>>, await' = await,
              confirming => Faults \cap {"store", "disconnect", "crash"} # {}
       PROVE  Step
  <2>1. CASE ~confirming
    BY <1>13, <1>e, <1>f, <1>s, <2>1
  <2>2. CASE confirming
    <3>1. await \in Calls /\ history[await] = "proposed"
      BY <1>b, <1>c, <2>2 DEF trying, tried
    <3>2. await \in asked \/ ~NeverUnshown
      BY <1>c, <2>2 DEF AskedInv, await, trying, tried
    <3> DEFINE back == IF await \in asked THEN "asked" ELSE "proposed"
    <3>3. Life[await] \in {"approved", "tried"}
      BY <1>e, <2>2, <3>1
    <3>4. Life'[await] = back /\ \A d \in Calls \ {await} : Life'[d] = Life[d]
      BY <1>13, <1>e, <1>f, <3>1
    <3>5. back \in Gate!Undecided
      BY <1>u, <3>2
    <3> HIDE DEF back
    <3>6. Life' = [Life EXCEPT ![await] = back]
      BY <3>1, <3>4, OneLifeChanges
    <3>7. Gate!Becomes(await, {"approved", "tried"}, back)
      BY <3>3, <3>6 DEF Gate!Becomes
    <3>8. Gate!Cut(await)
      BY <1>13, <2>2, <3>5, <3>7 DEF Gate!Cut, rows
    <3> QED BY <3>1, <3>8 DEF Step, Gate!GateNext
  <2> QED BY <2>1, <2>2
<1>14. ASSUME NEW r \in Reqs, StreamEnds(r) PROVE Step
  <2>1. ~confirming
    BY <1>14, <1>c DEF StreamEnds, trying, tried
  <2> QED BY <1>13, <1>14, <1>r, <2>1 DEF StreamEnds, Release, await, trying, tried
<1>15. ASSUME NEW r \in Reqs, TurnFails(r) PROVE Step
  <2>1. confirming => "store" \in Faults
    BY <1>15 DEF TurnFails, CanFail, trying, tried
  <2> QED BY <1>13, <1>15, <1>r, <2>1 DEF TurnFails, Release, await, trying, tried
<1>16. CASE UNCHANGED <<effects, store, history, asked, step, result, awaitingConfirmation>>
  BY <1>16, <1>e, <1>f, <1>r, <1>s DEF await, trying, tried
<1>17. ASSUME NEW r \in Reqs, Disconnect(r) PROVE Step
  <2>1. CASE lock = r
    BY <1>13, <1>17, <1>r, <2>1 DEF Disconnect, Release, await, trying, tried
  <2>2. CASE lock # r
    BY <1>16, <1>17, <2>2 DEF Disconnect
  <2> QED BY <2>1, <2>2
<1>18. CASE Crash
  <2>1. UNCHANGED rows
    BY <1>a, <1>18 DEF Crash, rows, LiveRow, Outcomes
  <2> QED BY <1>13, <1>18, <2>1 DEF Crash, Release, await, trying, tried
<1>19. ASSUME NEW r \in Reqs, FinalizeNode(r) \/ StartTurn(r) PROVE Step
  <2>1. UNCHANGED <<effects, store, history, asked>> /\ ~confirming /\ ~confirming'
    BY <1>19, <1>c DEF FinalizeNode, StartTurn, Runs, trying, tried
  <2> QED BY <1>e, <1>f, <1>r, <1>s, <2>1
<1>20. ASSUME NEW c \in Calls, RowExpires(c) PROVE Step
  <2>1. /\ UNCHANGED <<effects, Life>> /\ "expiry" \in Faults
        /\ store' = [store EXCEPT ![c] = "expired"]
    BY <1>20 DEF RowExpires, Life
  <2>2. rows' = [d \in Calls |-> IF d \in {c} THEN "none" ELSE rows[d]]
    BY <1>a, <2>1 DEF rows, LiveRow, Outcomes
  <2>3. Gate!Forget({c})
    BY <2>1, <2>2 DEF Gate!Forget, rows
  <2> QED BY <2>3 DEF Step, Gate!GateNext
<1> QED
  BY <1>1, <1>2, <1>3, <1>5, <1>6, <1>8, <1>9, <1>10, <1>11, <1>12, <1>14, <1>15, <1>16,
     <1>17, <1>18, <1>19, <1>20
     DEF Next, Turn, Interruption, AllServed, Refuse, Chat

(* The session implements the abstract gate, for any clients, calls, overlaps
   and interruptions: the gate's constants say which faults may cost a second
   try, and which a decision nobody was asked for.                         *)
THEOREM SessionImplementsGate == Spec => ImplementsGate
<1>1. Init => AskedInv
  BY SessionAssumption DEF Init, AskedInv
<1>2. Init => Gate!GateInit
  <2> SUFFICES ASSUME Init PROVE Gate!GateInit
    OBVIOUS
  <2>1. Life = [c \in Calls |-> "unused"]
    BY SessionAssumption DEF Init, Life
  <2>2. Init => [c \in Calls |-> LiveRow(c)] = [c \in Calls |-> "none"]
    BY DEF Init, LiveRow, Outcomes
  <2> QED BY <2>1, <2>2 DEF Init, Gate!GateInit
<1>3. IInv /\ PendingIsUnanswered /\ AskedInv /\ [Next]_vars => AskedInv'
  BY AskedStep
<1>4. IInv /\ PendingIsUnanswered /\ AskedInv /\ [Next]_vars
        => [Gate!GateNext]_(Gate!gateVars)
  BY GateStep
<1> QED BY <1>1, <1>2, <1>3, <1>4, InductiveInvariant, PendingCallsUnanswered, PTL
       DEF Spec, ImplementsGate, Gate!GateSpec
-----------------------------------------------------------------------------
(* What the gate gives where nothing can cut a turn off inside it          *)

Uninterrupted == Faults \cap {"store", "disconnect", "crash"} = {}

(* A write was performed once if it was tried, and not before              *)
OnceInv ==
  /\ effects \in [Calls -> Nat]
  /\ \A c \in Writes : /\ effects[c] <= 1
                       /\ Life[c] \notin {"tried", "ok", "failed"} => effects[c] = 0

LEMMA OnceStep ==
  ASSUME Uninterrupted, OnceInv, [Gate!GateNext]_(Gate!gateVars)
  PROVE  OnceInv'
<1> USE SessionAssumption DEF OnceInv
<1>1. Life = [c \in Calls |-> Life[c]]
  BY DEF Life
<1>2. ASSUME NEW c \in Calls, NEW from, NEW to, Gate!Becomes(c, from, to)
      PROVE  Life[c] \in from /\ \A d \in Calls : Life'[d] = IF d = c THEN to ELSE Life[d]
  BY <1>1, <1>2 DEF Gate!Becomes
<1>3. ASSUME NEW c \in Calls, NEW from, NEW to, Gate!Becomes(c, from, to), effects' = effects,
             to \in {"tried", "ok", "failed"} \/ from \cap {"tried", "ok", "failed"} = {}
      PROVE  OnceInv'
  BY <1>2, <1>3
<1>4. ASSUME NEW S \in SUBSET Calls, Gate!Propose(S) PROVE OnceInv'
  <2>1. /\ \A c \in S : Life[c] = "unused"
        /\ \A c \in Calls : Life'[c] = IF c \in S THEN "proposed" ELSE Life[c]
        /\ effects' = effects
    BY <1>4 DEF Gate!Propose
  <2> QED BY <2>1
<1>5. ASSUME NEW c \in Calls, Gate!ExecuteRead(c) PROVE OnceInv'
  BY <1>3, <1>5 DEF Gate!ExecuteRead, Gate!GateOutcomes
<1>6. ASSUME NEW c \in Calls, Gate!Ask(c) PROVE OnceInv'
  BY <1>3, <1>6 DEF Gate!Ask
<1>7. ASSUME NEW c \in Calls, NEW verdict \in {"approved", "rejected"}, Gate!Decide(c, verdict)
      PROVE  OnceInv'
  BY <1>3, <1>7 DEF Gate!Decide, Gate!Undecided
<1>8. ASSUME NEW c \in Calls, Gate!Try(c) PROVE OnceInv'
  <2>1. Life[c] = "approved" /\ \A d \in Calls : Life'[d] = IF d = c THEN "tried" ELSE Life[d]
    BY <1>2, <1>8 DEF Gate!Try
  <2>2. effects' = effects \/ effects' = [effects EXCEPT ![c] = @ + 1]
    BY <1>8 DEF Gate!Try
  <2> QED BY <2>1, <2>2
<1>9. ASSUME NEW c \in Calls, Gate!Conclude(c) PROVE OnceInv'
  BY <1>3, <1>9 DEF Gate!Conclude, Gate!GateOutcomes
<1>10. ASSUME NEW c \in Calls, Gate!Cut(c) PROVE FALSE
  BY <1>10 DEF Gate!Cut, Uninterrupted
<1>11. ASSUME NEW c \in Calls, Gate!TurnAway(c) PROVE OnceInv'
  BY <1>3, <1>11 DEF Gate!TurnAway
<1>12. CASE UNCHANGED <<Life, effects>>
  BY <1>12
<1> QED
  BY <1>4, <1>5, <1>6, <1>7, <1>8, <1>9, <1>10, <1>11, <1>12
     DEF Gate!GateNext, Gate!gateVars, Gate!Keep, Gate!Forget

(* When no disconnect, crash or SQLite error cuts the confirm node short, a
   write is performed at most once, and never once it was rejected, even
   where rows expire: then the answered call, not its row, is what protects
   it.  The gate alone says so, and the session implements it.             *)
THEOREM WritesAtMostOnce ==
  ASSUME Uninterrupted
  PROVE  Spec => [](WriteAtMostOnce /\ RejectedNeverExecuted)
<1>1. Init => OnceInv
  BY SessionAssumption DEF Init, OnceInv
<1>2. ImplementsGate /\ OnceInv => []OnceInv
  BY OnceStep, PTL DEF ImplementsGate, Gate!GateSpec
<1>3. IInv /\ PendingIsUnanswered /\ OnceInv => WriteAtMostOnce /\ RejectedNeverExecuted
  <2> SUFFICES ASSUME IInv, PendingIsUnanswered, OnceInv
               PROVE  WriteAtMostOnce /\ RejectedNeverExecuted
    OBVIOUS
  <2>1. step # "ready" => history[awaitingConfirmation] = "proposed"
    BY SessionAssumption DEF IInv, NodeInv, PendingIsUnanswered, Pending
  <2>2. ASSUME NEW c \in Writes, history[c] = "rejected" PROVE effects[c] = 0
    <3>1. Life[c] = "rejected"
      BY <2>1, <2>2, SessionAssumption DEF Life
    <3> QED BY <3>1 DEF OnceInv
  <2> QED BY <2>2 DEF OnceInv, WriteAtMostOnce, RejectedNeverExecuted
<1> QED
  BY <1>1, <1>2, <1>3, SessionImplementsGate, InductiveInvariant, PendingCallsUnanswered, PTL
     DEF Spec

-----------------------------------------------------------------------------
(* One request at a time                                                   *)

OneAtATime == \A r, s \in Open : r = s

(* What lies where between the nodes: nothing is queued or awaited while the
   model is asked, or the thread rests.                                    *)
PlacesInv ==
  /\ nextNode # "confirm" => awaitingConfirmation = NoCall
  /\ nextNode \in {"agent", "finalize", "none"} => toolCallQueue = <<>>
  /\ step # "ready" => resume = "none"

(* What chat() decided is still right when the turn begins.                *)
SnapshotHolds ==
  \A r \in Reqs :
    /\ pc[r] = "waiting" /\ runInput[r] = "message" => nextNode = "none"
    /\ pc[r] = "waiting" /\ runInput[r] # "message" => seen[r] = awaitingConfirmation
    /\ lock = r /\ resume # "none" => seen[r] = awaitingConfirmation

SerialInv == OneAtATime /\ PlacesInv /\ SnapshotHolds /\ NoDanglingCalls

(* Whoever arrives when one request may be open finds none.                *)
LEMMA ArrivesAlone ==
  ASSUME MaxOpen = 1, OneAtATime, NEW r \in Reqs, Arrives(r)
  PROVE  Open = {}
<1>1. SUFFICES ASSUME Open # {} PROVE FALSE
  OBVIOUS
<1>2. PICK s \in Open : Open = {s}
  BY <1>1 DEF OneAtATime
<1>3. Cardinality(Open) = 1
  BY <1>2, FS_Singleton
<1> QED BY <1>3 DEF Arrives

LEMMA OneAtATimeStep ==
  ASSUME MaxOpen = 1
  PROVE  IInv /\ OneAtATime /\ [Next]_vars => OneAtATime'
<1> SUFFICES ASSUME IInv, OneAtATime, [Next]_vars PROVE OneAtATime'
  OBVIOUS
<1> USE DEF vars, reqVars, procVars, runVars, ckptVars, worldVars, ghosts
<1>a. pc \in [Reqs -> {"idle", "waiting", "running", "done"}]
  BY DEF IInv, TypeOK
<1>1. ASSUME NEW r \in Reqs, NEW body \in Body, Chat(r, body) PROVE OneAtATime'
  <2>1. Open = {}
    BY <1>1, ArrivesAlone DEF Chat
  <2>2. \A s \in Reqs \ {r} : pc'[s] = pc[s]
    BY <1>1, <1>a DEF Chat, Answer
  <2> QED BY <2>1, <2>2 DEF OneAtATime, Open
<1>2. ASSUME NEW r \in Reqs, StartTurn(r) PROVE OneAtATime'
  BY <1>2, <1>a DEF StartTurn, OneAtATime, Open
<1>3. ASSUME NEW r \in Reqs, NEW code, Answer(r, code) PROVE OneAtATime'
  BY <1>3, <1>a DEF Answer, OneAtATime, Open
<1>4. ASSUME NEW r \in Reqs, StreamEnds(r) PROVE OneAtATime'
  BY <1>4, <1>a DEF StreamEnds, Answer, OneAtATime, Open
<1>5. CASE Crash
  BY <1>5 DEF Crash, OneAtATime, Open
<1>6. CASE UNCHANGED pc
  BY <1>6 DEF OneAtATime, Open
<1> QED
  BY <1>1, <1>2, <1>3, <1>4, <1>5, <1>6
     DEF Next, Turn, Interruption, AllServed, Refuse, AgentNode, ToolsNode, FinalizeNode,
     ConfirmInterrupt, ConfirmReject, ConfirmApprove, GatewayLookup, GatewayShortCircuit,
     GatewayInvoke, GatewayPut, ConfirmCommit, TurnFails, Disconnect, RowExpires

LEMMA PlacesStep == IInv /\ PlacesInv /\ [Next]_vars => PlacesInv'
<1> SUFFICES ASSUME IInv, PlacesInv, [Next]_vars PROVE PlacesInv'
  OBVIOUS
<1> USE DEF vars, reqVars, procVars, runVars, ckptVars, worldVars, ghosts
<1>a. step # "ready" => nextNode = "confirm" /\ lock # NoReq
  BY DEF IInv, NodeInv
<1>1. ASSUME NEW r \in Reqs, StartTurn(r) PROVE PlacesInv'
  BY <1>1, <1>a DEF StartTurn, PlacesInv
<1>2. ASSUME NEW r \in Reqs, AgentNode(r) PROVE PlacesInv'
  BY <1>2 DEF AgentNode, PlacesInv
<1>3. ASSUME NEW r \in Reqs, ToolsNode(r) PROVE PlacesInv'
  <2>1. step' = "ready" /\ nextNode' \notin {"finalize", "none"}
        /\ (nextNode' # "confirm" => awaitingConfirmation' = NoCall)
        /\ (nextNode' = "agent" => toolCallQueue' = <<>>)
    BY <1>3 DEF ToolsNode, RouteAfter
  <2> QED BY <2>1 DEF PlacesInv
<1>4. ASSUME NEW r \in Reqs, FinalizeNode(r) PROVE PlacesInv'
  BY <1>4 DEF FinalizeNode, Runs, PlacesInv
<1>5. ASSUME NEW r \in Reqs, ConfirmReject(r) \/ ConfirmCommit(r) PROVE PlacesInv'
  BY <1>5 DEF ConfirmReject, ConfirmCommit, AnswerAwaited, RouteAfter, PlacesInv
<1>6. ASSUME NEW r \in Reqs,
             \/ ConfirmInterrupt(r) \/ ConfirmApprove(r) \/ GatewayLookup(r)
             \/ GatewayShortCircuit(r) \/ GatewayInvoke(r) \/ GatewayPut(r)
      PROVE  PlacesInv'
  BY <1>6 DEF ConfirmInterrupt, ConfirmApprove, GatewayLookup, GatewayShortCircuit,
     GatewayInvoke, GatewayPut, Runs, PlacesInv
<1>7. ASSUME Release, UNCHANGED ckptVars PROVE PlacesInv'
  BY <1>7 DEF Release, PlacesInv
<1>8. CASE UNCHANGED <<step, resume, ckptVars>>
  BY <1>8 DEF PlacesInv
<1> QED
  BY <1>1, <1>2, <1>3, <1>4, <1>5, <1>6, <1>7, <1>8
     DEF Next, Turn, Interruption, AllServed, Refuse, Chat, StreamEnds, TurnFails,
     Disconnect, Crash, RowExpires

LEMMA SnapshotStep ==
  ASSUME MaxOpen = 1
  PROVE  IInv /\ OneAtATime /\ PlacesInv /\ SnapshotHolds /\ [Next]_vars => SnapshotHolds'
<1> SUFFICES ASSUME IInv, OneAtATime, PlacesInv, SnapshotHolds, [Next]_vars
             PROVE  SnapshotHolds'
  OBVIOUS
<1> USE SessionAssumption DEF vars, reqVars, procVars, runVars, ckptVars, worldVars, ghosts
<1>a. /\ pc \in [Reqs -> {"idle", "waiting", "running", "done"}]
      /\ runInput \in [Reqs -> {"none", "message", "approve", "reject"}]
      /\ seen \in [Reqs -> Calls \cup {NoCall}]
  BY DEF IInv, TypeOK
<1>b. \A r \in Reqs : lock = r => pc[r] = "running"
  BY DEF IInv, MutualExclusion
<1>c. ASSUME NEW r \in Reqs, lock = r PROVE \A s \in Reqs : pc[s] # "waiting"
  BY <1>b, <1>c DEF OneAtATime, Open
<1>1. ASSUME NEW r \in Reqs, NEW body \in Body, Chat(r, body) PROVE SnapshotHolds'
  <2>1. Open = {}
    BY <1>1, ArrivesAlone DEF Chat
  <2>2. \A s \in Reqs : lock # s /\ pc[s] # "waiting"
    BY <2>1, <1>b DEF Open
  <2>3. UNCHANGED <<procVars, ckptVars>> /\ seen'[r] = awaitingConfirmation
    BY <1>1, <1>a DEF Chat
  <2>4. \A s \in Reqs : pc'[s] = "waiting" =>
          s = r /\ runInput'[r] = InputFor(body) /\ InputFor(body) # "absent"
    BY <1>1, <1>a, <2>2 DEF Chat, Answer
  <2>5. InputFor(body) = "message" => nextNode = "none"
    BY DEF InputFor, IsPaused, Body
  <2> QED BY <2>2, <2>3, <2>4, <2>5 DEF SnapshotHolds
<1>2. ASSUME NEW r \in Reqs, StartTurn(r) PROVE SnapshotHolds'
  <2>1. \A s \in Reqs : pc[s] = "waiting" => s = r
    BY <1>2 DEF StartTurn, OneAtATime, Open
  <2>2. /\ \A s \in Reqs : pc'[s] # "waiting"
        /\ lock' = r /\ UNCHANGED <<runInput, seen>>
        /\ resume' # "none" => runInput[r] # "message" /\ awaitingConfirmation' = awaitingConfirmation
    BY <1>2, <1>a, <2>1 DEF StartTurn
  <2>3. runInput[r] # "message" => seen[r] = awaitingConfirmation
    BY <1>2 DEF StartTurn, SnapshotHolds
  <2> QED BY <2>2, <2>3 DEF SnapshotHolds
<1>3. ASSUME NEW r \in Reqs, lock = r, lock' = r, resume' = "none", UNCHANGED pc
      PROVE  SnapshotHolds'
  BY <1>c, <1>3 DEF SnapshotHolds
<1>4. ASSUME NEW r \in Reqs, AgentNode(r) \/ ToolsNode(r) \/ ConfirmReject(r) PROVE SnapshotHolds'
  BY <1>3, <1>4 DEF AgentNode, ToolsNode, ConfirmReject, Runs
<1>5. ASSUME NEW r \in Reqs, FinalizeNode(r) PROVE SnapshotHolds'
  BY <1>c, <1>5 DEF FinalizeNode, Runs, SnapshotHolds
<1>6. ASSUME NEW r \in Reqs,
             \/ ConfirmInterrupt(r) \/ ConfirmApprove(r) \/ GatewayLookup(r)
             \/ GatewayShortCircuit(r) \/ GatewayInvoke(r) \/ GatewayPut(r) \/ ConfirmCommit(r)
      PROVE  SnapshotHolds'
  <2>1. lock = r /\ lock' = r /\ UNCHANGED pc
    BY <1>6 DEF ConfirmInterrupt, ConfirmApprove, GatewayLookup, GatewayShortCircuit,
       GatewayInvoke, GatewayPut, ConfirmCommit, Runs
  <2>2. resume' = "none"
    BY <1>6 DEF ConfirmInterrupt, ConfirmApprove, GatewayLookup, GatewayShortCircuit,
       GatewayInvoke, GatewayPut, ConfirmCommit, PlacesInv
  <2> QED BY <1>3, <2>1, <2>2
<1>7. ASSUME UNCHANGED <<runInput, seen, ckptVars>>,
             \A s \in Reqs : pc'[s] = "waiting" => pc[s] = "waiting",
             resume' = "none" \/ UNCHANGED <<lock, resume>>
      PROVE  SnapshotHolds'
  BY <1>7 DEF SnapshotHolds
<1>8. ASSUME NEW r \in Reqs,
             Refuse(r) \/ StreamEnds(r) \/ TurnFails(r) \/ Disconnect(r)
      PROVE  SnapshotHolds'
  <2>1. UNCHANGED <<runInput, seen, ckptVars>> /\ (resume' = "none" \/ UNCHANGED <<lock, resume>>)
    BY <1>8 DEF Refuse, StreamEnds, TurnFails, Disconnect, Release
  <2>2. \A s \in Reqs : pc'[s] = "waiting" => pc[s] = "waiting"
    BY <1>8, <1>a DEF Refuse, StreamEnds, TurnFails, Disconnect, Answer
  <2> QED BY <1>7, <2>1, <2>2
<1>9. CASE Crash
  BY <1>7, <1>9 DEF Crash, Release, Open
<1>10. CASE UNCHANGED <<reqVars, procVars, ckptVars>>
  BY <1>7, <1>10
<1> QED
  BY <1>1, <1>2, <1>4, <1>5, <1>6, <1>8, <1>9, <1>10
     DEF Next, Turn, Interruption, AllServed, RowExpires

LEMMA NoDanglingStep ==
  IInv /\ PlacesInv /\ SnapshotHolds /\ NoDanglingCalls /\ [Next]_vars => NoDanglingCalls'
<1> SUFFICES ASSUME IInv, PlacesInv, SnapshotHolds, NoDanglingCalls, [Next]_vars
             PROVE  NoDanglingCalls'
  OBVIOUS
<1> USE SessionAssumption DEF vars, reqVars, procVars, runVars, ckptVars, worldVars, ghosts
<1> DEFINE q == toolCallQueue
<1>a. /\ q \in Seq(Calls)
      /\ history \in [Calls -> Answers \cup {"unused", "proposed", "rejected"}]
  BY DEF IInv, TypeOK
<1>b. nextNode \in {"agent", "none"} => \A c \in Calls : history[c] # "proposed"
  BY DEF PlacesInv, NoDanglingCalls, Pending
<1>1. ASSUME NEW r \in Reqs, StartTurn(r) PROVE NoDanglingCalls'
  <2>1. CASE runInput[r] = "message"
    BY <1>1, <1>b, <2>1 DEF StartTurn, SnapshotHolds, NoDanglingCalls
  <2>2. CASE runInput[r] # "message"
    BY <1>1, <2>2 DEF StartTurn, NoDanglingCalls, Pending
  <2> QED BY <2>1, <2>2
<1>2. ASSUME NEW r \in Reqs, AgentNode(r) PROVE NoDanglingCalls'
  <2>1. PICK batch \in Batches :
          /\ toolCallQueue' = batch
          /\ history' = [c \in Calls |-> IF \E i \in DOMAIN batch : batch[i] = c
                                         THEN "proposed" ELSE history[c]]
    BY <1>2 DEF AgentNode
  <2>2. \A c \in Calls : history[c] # "proposed"
    BY <1>2, <1>b DEF AgentNode, Runs
  <2> QED BY <2>1, <2>2 DEF NoDanglingCalls, Pending
<1>3. ASSUME NEW r \in Reqs, ToolsNode(r) PROVE NoDanglingCalls'
  <2>1. q # <<>> /\ toolCallQueue' = Tail(q) /\ awaitingConfirmation = NoCall
    BY <1>3 DEF ToolsNode, Runs, IInv, NodeInv, PlacesInv
  <2>2. /\ Head(q) = q[1] /\ Head(q) \in Calls
        /\ \A i \in DOMAIN q : i # 1 => i - 1 \in DOMAIN Tail(q) /\ Tail(q)[i - 1] = q[i]
    BY <1>a, <2>1
  <2>3. \A c \in Calls : history[c] = "proposed" =>
          c = Head(q) \/ \E i \in DOMAIN Tail(q) : Tail(q)[i] = c
    <3> SUFFICES ASSUME NEW c \in Calls, history[c] = "proposed"
                 PROVE  c = Head(q) \/ \E i \in DOMAIN Tail(q) : Tail(q)[i] = c
      OBVIOUS
    <3>1. PICK i \in DOMAIN q : q[i] = c
      BY <2>1 DEF NoDanglingCalls, Pending
    <3> QED BY <2>2, <3>1
  <2>4. CASE NeedsConfirmation(Head(q))
    <3>1. awaitingConfirmation' = Head(q) /\ UNCHANGED history
      BY <1>3, <2>4 DEF ToolsNode
    <3> QED BY <2>1, <2>2, <2>3, <3>1 DEF NoDanglingCalls, Pending
  <2>5. CASE ~NeedsConfirmation(Head(q))
    <3>1. PICK res \in Answers : history' = [history EXCEPT ![Head(q)] = res]
      BY <1>3, <2>5 DEF ToolsNode, ExecuteAndAnswer, Answers
    <3>2. \A c \in Calls : history'[c] = "proposed" => c # Head(q) /\ history[c] = "proposed"
      BY <1>a, <2>2, <3>1 DEF Answers, Outcomes
    <3> QED BY <2>1, <2>3, <3>2 DEF NoDanglingCalls, Pending
  <2> QED BY <2>4, <2>5
<1>4. ASSUME NEW fate \in Answers \cup {"rejected"}, AnswerAwaited(fate) PROVE NoDanglingCalls'
  <2>1. toolCallQueue' = q /\ history' = [history EXCEPT ![awaitingConfirmation] = fate]
    BY <1>4 DEF AnswerAwaited
  <2>2. \A c \in Calls : history'[c] = "proposed" =>
          c # awaitingConfirmation /\ history[c] = "proposed"
    BY <1>a, <2>1 DEF Answers, Outcomes
  <2> QED BY <2>1, <2>2 DEF NoDanglingCalls, Pending
<1>5. ASSUME NEW r \in Reqs, ConfirmReject(r) PROVE NoDanglingCalls'
  BY <1>4, <1>5 DEF ConfirmReject
<1>6. ASSUME NEW r \in Reqs, ConfirmCommit(r) PROVE NoDanglingCalls'
  BY <1>4, <1>6 DEF ConfirmCommit, IInv, NodeInv, Answers
<1>7. CASE UNCHANGED <<toolCallQueue, awaitingConfirmation, history>>
  BY <1>7 DEF NoDanglingCalls, Pending
<1> QED
  BY <1>1, <1>2, <1>3, <1>5, <1>6, <1>7 DEF Next, Turn, Interruption, AllServed,
     Refuse, Chat, FinalizeNode, ConfirmInterrupt, ConfirmApprove, GatewayLookup,
     GatewayShortCircuit, GatewayInvoke, GatewayPut, StreamEnds, TurnFails, Disconnect, Crash,
     RowExpires

LEMMA SerialInvariant == ASSUME MaxOpen = 1 PROVE Spec => [](IInv /\ SerialInv)
<1>1. Init => SerialInv
  BY SessionAssumption DEF Init, SerialInv, OneAtATime, Open, PlacesInv, SnapshotHolds,
     NoDanglingCalls
<1>2. IInv /\ SerialInv /\ [Next]_vars => SerialInv'
  BY OneAtATimeStep, PlacesStep, SnapshotStep, NoDanglingStep DEF SerialInv
<1> QED BY <1>1, <1>2, InductiveInvariant, PTL DEF Spec

(* One request at a time: no tool call of the message list is ever forgotten,
   whatever fails, crashes or is restarted.                                *)
THEOREM NoCallIsForgotten == ASSUME MaxOpen = 1 PROVE Spec => []NoDanglingCalls
BY SerialInvariant, PTL DEF SerialInv

(* One request at a time: a call ceases to wait only when it is answered.  *)
THEOREM PausesEndByDecision == ASSUME MaxOpen = 1 PROVE Spec => PauseEndsByDecision
<1> DEFINE Answered == \A c \in Calls :
      awaitingConfirmation = c /\ awaitingConfirmation' # c => history'[c] # "proposed"
<1>1. IInv /\ SerialInv /\ [Next]_vars => [Answered]_vars
  <2> SUFFICES ASSUME IInv, SerialInv, Next PROVE Answered
    OBVIOUS
  <2> USE SessionAssumption DEF vars, reqVars, procVars, runVars, ckptVars, worldVars, ghosts
  <2>a. history \in [Calls -> Answers \cup {"unused", "proposed", "rejected"}]
    BY DEF IInv, TypeOK
  <2>1. CASE awaitingConfirmation = NoCall \/ awaitingConfirmation' = awaitingConfirmation
    BY <2>1
  <2>2. ASSUME NEW r \in Reqs, StartTurn(r) PROVE Answered
    BY <2>1, <2>2 DEF StartTurn, SerialInv, SnapshotHolds, PlacesInv
  <2>3. ASSUME NEW r \in Reqs, AgentNode(r) \/ ToolsNode(r) PROVE Answered
    BY <2>1, <2>3 DEF AgentNode, ToolsNode, Runs, SerialInv, PlacesInv
  <2>4. ASSUME NEW r \in Reqs, ConfirmReject(r) PROVE Answered
    BY <2>a, <2>4 DEF ConfirmReject, AnswerAwaited
  <2>5. ASSUME NEW r \in Reqs, ConfirmCommit(r) PROVE Answered
    BY <2>a, <2>5 DEF ConfirmCommit, AnswerAwaited, IInv, NodeInv, Outcomes
  <2> QED
    BY <2>1, <2>2, <2>3, <2>4, <2>5 DEF Next, Turn, Interruption, AllServed, Refuse, Chat,
       FinalizeNode, ConfirmInterrupt, ConfirmApprove, GatewayLookup, GatewayShortCircuit,
       GatewayInvoke, GatewayPut, StreamEnds, TurnFails, Disconnect, Crash, RowExpires
<1>2. Spec => [][Answered]_vars
  BY <1>1, SerialInvariant, PTL DEF Spec
<1> QED BY <1>2 DEF PauseEndsByDecision

-----------------------------------------------------------------------------
(* No turn goes on for ever                                                *)

Unproposed == {c \in Calls : history[c] = "unused"}

(* Steps left until the node at hand hands over                            *)
Rank ==
  CASE step = "interrupted" -> 1
    [] step = "lookup" -> 7
    [] step = "invoke" -> 6
    [] step = "put" -> 5
    [] step = "commit" -> 4
    [] step = "ready" /\ nextNode = "confirm" -> 8
    [] step = "ready" /\ nextNode = "agent" -> 3
    [] step = "ready" /\ nextNode = "finalize" -> 2
    [] step = "ready" /\ nextNode \in {"tools", "none"} -> 1

(* Every queued call costs the way through the confirm node, every call the
   model may still propose that and its place in a batch.                  *)
TurnWork ==
  IF lock = NoReq THEN 0
  ELSE 9 * Cardinality(Unproposed) + 8 * Len(toolCallQueue) + Rank

WorkGoesDown ==
  /\ lock # NoReq => TurnWork' <= TurnWork
  /\ \A r \in Reqs : Turn(r) => TurnWork' < TurnWork

LEMMA DistinctCount ==
  ASSUME NEW q \in Seq(Calls), \A i, j \in DOMAIN q : q[i] = q[j] => i = j
  PROVE  /\ IsFiniteSet({q[i] : i \in DOMAIN q})
         /\ Cardinality({q[i] : i \in DOMAIN q}) = Len(q)
<1> DEFINE S == {q[i] : i \in DOMAIN q}
<1>1. Len(q) \in Nat /\ DOMAIN q = 1..Len(q)
  OBVIOUS
<1>2. q \in [1..Len(q) -> S]
  BY <1>1
<1>3. q \in Bijection(1..Len(q), S)
  BY <1>1, <1>2 DEF Bijection, Injection, Surjection, IsInjective
<1>4. ExistsBijection(1..Len(q), S)
  BY <1>3 DEF ExistsBijection
<1>5. IsFiniteSet(1..Len(q)) /\ Cardinality(1..Len(q)) = Len(q)
  BY <1>1, FS_Interval, SMTT(30)
<1> HIDE DEF S
<1>6. IsFiniteSet(S) /\ Cardinality(S) = Len(q)
  BY <1>4, <1>5, FS_Bijection
<1> QED BY <1>6 DEF S

LEMMA UnproposedFinite ==
  ASSUME IsFiniteSet(Calls)
  PROVE  IsFiniteSet(Unproposed) /\ Cardinality(Unproposed) \in Nat
<1>1. Unproposed \in SUBSET Calls
  BY DEF Unproposed
<1>2. IsFiniteSet(Unproposed)
  BY <1>1, FS_Subset
<1> QED BY <1>2, FS_CardinalityType

LEMMA RankBounds == IInv => Rank \in 1..8
BY DEF IInv, TypeOK, Nodes, Rank

LEMMA WorkType ==
  ASSUME IInv, IsFiniteSet(Calls)
  PROVE  TurnWork \in Nat /\ (lock # NoReq => TurnWork > 0)
<1>1. Cardinality(Unproposed) \in Nat /\ Rank \in 1..8 /\ Len(toolCallQueue) \in Nat
  BY UnproposedFinite, RankBounds DEF IInv, TypeOK
<1> QED BY <1>1, SMTT(30) DEF TurnWork

(* What the model proposes is paid out of what it could still propose.     *)
LEMMA ProposalIsPaid ==
  ASSUME IInv, IsFiniteSet(Calls), NEW batch \in Batches,
         history' = [c \in Calls |-> IF \E i \in DOMAIN batch : batch[i] = c
                                     THEN "proposed" ELSE history[c]]
  PROVE  /\ Len(batch) \in Nat
         /\ Cardinality(Unproposed') = Cardinality(Unproposed) - Len(batch)
<1> DEFINE S == {batch[i] : i \in DOMAIN batch}
<1>1. batch \in Seq(Calls)
  BY BatchType
<1>2. IsFiniteSet(S) /\ Cardinality(S) = Len(batch) /\ Len(batch) \in Nat
  <2>1. \A i, j \in DOMAIN batch : batch[i] = batch[j] => i = j
    BY BatchDistinct
  <2>2. IsFiniteSet(S) /\ Cardinality(S) = Len(batch)
    BY <1>1, <2>1, DistinctCount
  <2> QED BY <1>1, <2>2
<1>3. S \subseteq Unproposed
  BY <1>1, BatchFresh DEF Unproposed
<1>4. Unproposed' = Unproposed \ S
  BY <1>3 DEF Unproposed
<1>5. Unproposed \cap S = S
  BY <1>3
<1>6. Cardinality(Unproposed \ S) = Cardinality(Unproposed) - Cardinality(Unproposed \cap S)
  BY UnproposedFinite, FS_Difference
<1> QED BY <1>2, <1>4, <1>5, <1>6

(* A step that proposes nothing leaves the rest of the calls to propose.   *)
LEMMA NothingProposed ==
  ASSUME \A c \in Calls : history'[c] = "unused" <=> history[c] = "unused"
  PROVE  Unproposed' = Unproposed
BY DEF Unproposed

LEMMA TurnStepWorks ==
  ASSUME IInv, PlacesInv, PendingIsUnanswered, IsFiniteSet(Calls), NEW r \in Reqs, Turn(r)
  PROVE  TurnWork' < TurnWork
<1> USE SessionAssumption
<1>t. /\ toolCallQueue \in Seq(Calls) /\ Len(toolCallQueue) \in Nat
      /\ history \in [Calls -> Answers \cup {"unused", "proposed", "rejected"}]
  BY DEF IInv, TypeOK
<1>u. Cardinality(Unproposed) \in Nat
  BY UnproposedFinite
<1>r. Rank \in 1..8
  BY RankBounds
<1>l. lock = r /\ lock # NoReq
  BY DEF Turn, AgentNode, ToolsNode, FinalizeNode, ConfirmInterrupt, ConfirmReject,
     ConfirmApprove, GatewayLookup, GatewayShortCircuit, GatewayInvoke, GatewayPut,
     ConfirmCommit, StreamEnds, Runs
<1>w. TurnWork = 9 * Cardinality(Unproposed) + 8 * Len(toolCallQueue) + Rank
  BY <1>l DEF TurnWork
<1>a. awaitingConfirmation \in Calls => history[awaitingConfirmation] = "proposed"
  BY DEF PendingIsUnanswered, Pending
(* Steps that keep the queue and what may be proposed                      *)
<1>s. ASSUME Unproposed' = Unproposed, toolCallQueue' = toolCallQueue, lock' = lock,
             Rank' \in Nat, Rank' < Rank
      PROVE  TurnWork' < TurnWork
  <2>1. TurnWork' = 9 * Cardinality(Unproposed) + 8 * Len(toolCallQueue) + Rank'
    BY <1>l, <1>s DEF TurnWork
  <2> QED BY <2>1, <1>w, <1>s, <1>t, <1>u, <1>r
<1>1. CASE AgentNode(r)
  <2>1. PICK batch \in Batches :
          /\ toolCallQueue' = batch
          /\ nextNode' = IF batch = <<>> THEN "finalize" ELSE "tools"
          /\ history' = [c \in Calls |->
                           IF \E i \in DOMAIN batch : batch[i] = c
                           THEN "proposed" ELSE history[c]]
    BY <1>1 DEF AgentNode
  <2>2. /\ Len(batch) \in Nat
        /\ Cardinality(Unproposed') = Cardinality(Unproposed) - Len(batch)
    BY <2>1, ProposalIsPaid
  <2>3. toolCallQueue = <<>> /\ Rank = 3
    BY <1>1 DEF AgentNode, Runs, PlacesInv, Rank
  <2>4. step' = "ready" /\ lock' = lock
    BY <1>1 DEF AgentNode
  <2>5. TurnWork' = 9 * (Cardinality(Unproposed) - Len(batch)) + 8 * Len(batch) + Rank'
    BY <2>1, <2>2, <2>4, <1>l DEF TurnWork
  <2>6. CASE batch = <<>>
    <3>1. Rank' = 2 /\ Len(batch) = 0
      BY <2>1, <2>4, <2>6 DEF Rank
    <3> QED BY <3>1, <2>3, <2>5, <1>w, <1>u
  <2>7. CASE batch # <<>>
    <3>1. Rank' = 1
      BY <2>1, <2>4, <2>7 DEF Rank
    <3>2. Len(batch) > 0
      BY <2>2, <2>7, BatchType
    <3> QED BY <3>1, <3>2, <2>2, <2>3, <2>5, <1>w, <1>u, SMTT(30)
  <2> QED BY <2>6, <2>7
<1>2. CASE ToolsNode(r)
  <2> DEFINE call == Head(toolCallQueue)
  <2>1. /\ toolCallQueue # <<>> /\ Rank = 1
    BY <1>2 DEF ToolsNode, Runs, IInv, NodeInv, Rank
  <2>2. /\ call \in Calls /\ history[call] = "proposed"
        /\ Len(toolCallQueue') = Len(toolCallQueue) - 1
    BY <1>2, <1>t, <2>1 DEF ToolsNode, PendingIsUnanswered, Pending
  <2>3. step' = "ready" /\ lock' = lock
    BY <1>2 DEF ToolsNode, Runs
  <2>4. /\ \A c \in Calls : history'[c] = "unused" <=> history[c] = "unused"
        /\ nextNode' \in {"confirm", "agent", "tools"}
    BY <1>2, <2>2, <1>t DEF ToolsNode, ExecuteAndAnswer, RouteAfter, Outcomes
  <2>5. Rank' \in 1..8
    BY <2>3, <2>4 DEF Rank
  <2>6. TurnWork' = 9 * Cardinality(Unproposed) + 8 * (Len(toolCallQueue) - 1) + Rank'
    BY <2>2, <2>3, <2>4, <1>l, NothingProposed DEF TurnWork
  <2> QED BY <2>1, <2>5, <2>6, <1>w, <1>t, <1>u
<1>3. CASE FinalizeNode(r)
  <2>1. Unproposed' = Unproposed /\ UNCHANGED <<toolCallQueue, lock, step>>
    BY <1>3 DEF FinalizeNode, Unproposed, procVars, runVars
  <2>2. Rank = 2 /\ Rank' = 1
    BY <1>3, <2>1 DEF FinalizeNode, Runs, Rank
  <2> QED BY <2>1, <2>2, <1>s
<1>4. CASE ConfirmReject(r)
  <2>1. /\ \A c \in Calls : history'[c] = "unused" <=> history[c] = "unused"
        /\ UNCHANGED <<toolCallQueue, lock, step>>
    BY <1>4, <1>a, <1>t DEF ConfirmReject, AnswerAwaited
  <2>2. Rank = 8 /\ Rank' \in {1, 3}
    BY <1>4, <2>1 DEF ConfirmReject, AnswerAwaited, RouteAfter, Runs, Rank
  <2> QED BY <2>1, <2>2, <1>s, NothingProposed
<1>5. CASE ConfirmCommit(r)
  <2>1. /\ \A c \in Calls : history'[c] = "unused" <=> history[c] = "unused"
        /\ UNCHANGED <<toolCallQueue, lock>> /\ step' = "ready"
    BY <1>5, <1>a, <1>t DEF ConfirmCommit, AnswerAwaited, IInv, NodeInv, Outcomes
  <2>2. Rank = 4 /\ Rank' \in {1, 3}
    BY <1>5, <2>1 DEF ConfirmCommit, AnswerAwaited, RouteAfter, Rank
  <2> QED BY <2>1, <2>2, <1>s, NothingProposed
<1>6. CASE \/ ConfirmInterrupt(r) \/ ConfirmApprove(r) \/ GatewayLookup(r)
           \/ GatewayShortCircuit(r) \/ GatewayInvoke(r) \/ GatewayPut(r)
  <2>1. Unproposed' = Unproposed /\ UNCHANGED <<toolCallQueue, lock, nextNode>>
    BY <1>6 DEF ConfirmInterrupt, ConfirmApprove, GatewayLookup, GatewayShortCircuit,
       GatewayInvoke, GatewayPut, Unproposed, ckptVars
  <2>2. Rank' \in Nat /\ Rank' < Rank
    BY <1>6, <2>1 DEF ConfirmInterrupt, ConfirmApprove, GatewayLookup, GatewayShortCircuit,
       GatewayInvoke, GatewayPut, Runs, Rank
  <2> QED BY <2>1, <2>2, <1>s
<1>7. CASE StreamEnds(r)
  <2>1. TurnWork' = 0
    BY <1>7 DEF StreamEnds, Release, TurnWork
  <2> QED BY <2>1, <1>w, <1>t, <1>u, <1>r
<1> QED
  BY <1>1, <1>2, <1>3, <1>4, <1>5, <1>6, <1>7 DEF Turn

(* No step of another actor adds to the work of the turn that holds the lock,
   except that it ends there.                                              *)
LEMMA WorkStep ==
  ASSUME IInv, PlacesInv, PendingIsUnanswered, IsFiniteSet(Calls), Next
  PROVE  WorkGoesDown
<1> USE SessionAssumption
<1>w. TurnWork \in Nat /\ (lock # NoReq => TurnWork > 0)
  BY WorkType
<1>x. TurnWork' \in Nat
  <2>1. IInv'
    BY StepPreserves
  <2>2. Unproposed' \in SUBSET Calls
    BY DEF Unproposed
  <2>3. Cardinality(Unproposed') \in Nat
    BY <2>2, FS_Subset, FS_CardinalityType
  <2>4. Rank' \in 1..8 /\ Len(toolCallQueue') \in Nat
    BY <2>1 DEF IInv, TypeOK, Nodes, Rank
  <2> QED BY <2>3, <2>4 DEF TurnWork
<1>1. ASSUME NEW r \in Reqs, Turn(r) PROVE TurnWork' < TurnWork /\ lock = r
  BY <1>1, TurnStepWorks DEF Turn, AgentNode, ToolsNode, FinalizeNode, ConfirmInterrupt,
     ConfirmReject, ConfirmApprove, GatewayLookup, GatewayShortCircuit, GatewayInvoke,
     GatewayPut, ConfirmCommit, StreamEnds, Runs
<1>2. CASE \E r \in Reqs : Turn(r)
  <2>1. TurnWork' < TurnWork /\ lock # NoReq
    BY <1>1, <1>2
  <2> QED BY <1>1, <2>1, <1>w, <1>x DEF WorkGoesDown
<1>3. CASE ~ \E r \in Reqs : Turn(r)
  <2>1. SUFFICES ASSUME lock # NoReq PROVE TurnWork' <= TurnWork
    BY <1>3 DEF WorkGoesDown
  <2>2. CASE TurnWork' = 0
    BY <2>1, <2>2, <1>w
  <2>3. CASE UNCHANGED <<runVars, ckptVars>>
    <3>1. TurnWork' = TurnWork
      BY <2>3 DEF runVars, ckptVars, TurnWork, Unproposed, Rank
    <3> QED BY <2>1, <3>1, <1>w
  <2>4. ASSUME NEW r \in Reqs, TurnFails(r) \/ Disconnect(r)
        PROVE  TurnWork' = 0 \/ UNCHANGED <<runVars, ckptVars>>
    BY <2>4 DEF TurnFails, Disconnect, Release, TurnWork
  <2>5. Crash => TurnWork' = 0
    BY DEF Crash, Release, TurnWork
  <2>6. \A r \in Reqs : ~StartTurn(r)
    BY <2>1 DEF StartTurn
  <2>7. \/ Interruption \/ AllServed
        \/ \E r \in Reqs : Refuse(r) \/ \E body \in Body : Chat(r, body)
        \/ \E c \in Calls : RowExpires(c)
    BY <1>3, <2>6 DEF Next
  <2>8. ASSUME \/ \E r \in Reqs : Refuse(r) \/ \E body \in Body : Chat(r, body)
               \/ \E c \in Calls : RowExpires(c)
        PROVE  UNCHANGED <<runVars, ckptVars>>
    BY <2>8 DEF Refuse, Chat, RowExpires, procVars
  <2> QED
    BY <2>2, <2>3, <2>4, <2>5, <2>7, <2>8
       DEF Interruption, AllServed, vars, procVars, runVars, ckptVars
<1> QED BY <1>2, <1>3

(* Each step of a turn takes from a measure that nobody adds to: whatever the
   model proposes, rejects or repeats, a turn ends after finitely many steps,
   or is interrupted.  EveryTurnEnds asks of fairness only that they are taken. *)
THEOREM TurnsAreFinite ==
  ASSUME IsFiniteSet(Calls)
  PROVE  Spec => [][WorkGoesDown]_vars
<1>1. IInv /\ PlacesInv /\ PendingIsUnanswered /\ [Next]_vars => [WorkGoesDown]_vars
  BY WorkStep
<1>2. Init => PlacesInv
  BY DEF Init, PlacesInv
<1> QED
  BY <1>1, <1>2, PlacesStep, InductiveInvariant, PendingCallsUnanswered, PTL DEF Spec

(* How long a turn can be: nine steps for every call the model may propose in
   it, a call that waits in the queue counted as one not yet proposed.     *)
THEOREM TurnsAreBounded ==
  ASSUME IsFiniteSet(Calls)
  PROVE  Spec => [](TurnWork <= 9 * Cardinality(Calls) + 8)
<1>1. IInv /\ PendingIsUnanswered => TurnWork <= 9 * Cardinality(Calls) + 8
  <2> SUFFICES ASSUME IInv, PendingIsUnanswered
               PROVE  TurnWork <= 9 * Cardinality(Calls) + 8
    OBVIOUS
  <2> DEFINE S == {toolCallQueue[i] : i \in DOMAIN toolCallQueue}
             T == Unproposed \cup S
  <2>1. toolCallQueue \in Seq(Calls) /\ Len(toolCallQueue) \in Nat
    BY DEF IInv, TypeOK
  <2>2. IsFiniteSet(S) /\ Cardinality(S) = Len(toolCallQueue)
    <3>1. \A i, j \in DOMAIN toolCallQueue : toolCallQueue[i] = toolCallQueue[j] => i = j
      BY DEF PendingIsUnanswered
    <3> QED BY <2>1, <3>1, DistinctCount
  <2>3. S \subseteq Calls /\ \A c \in S : history[c] = "proposed"
    BY <2>1 DEF PendingIsUnanswered, Pending
  <2>4. Unproposed \cap S = {} /\ T \in SUBSET Calls
    BY <2>3 DEF Unproposed
  <2>5. IsFiniteSet(Unproposed) /\ Cardinality(Unproposed) \in Nat
    BY UnproposedFinite
  <2> HIDE DEF S
  <2>6. Cardinality(T) = Cardinality(Unproposed) + Cardinality(S) - Cardinality({})
    BY <2>2, <2>4, <2>5, FS_Union
  <2>7. Cardinality({}) = 0
    BY FS_EmptySet
  <2>8. Cardinality(T) <= Cardinality(Calls) /\ Cardinality(Calls) \in Nat
    BY <2>4, FS_Subset, FS_CardinalityType
  <2>9. Rank \in 1..8
    BY RankBounds
  <2>10. Cardinality(Unproposed) + Len(toolCallQueue) <= Cardinality(Calls)
    BY <2>1, <2>2, <2>5, <2>6, <2>7, <2>8
  <2>11. CASE lock = NoReq
    BY <2>8, <2>11 DEF TurnWork
  <2>12. CASE lock # NoReq
    <3>1. TurnWork = 9 * Cardinality(Unproposed) + 8 * Len(toolCallQueue) + Rank
      BY <2>12 DEF TurnWork
    <3>2. \A u, l, n \in Nat, k \in 1..8 : u + l <= n => 9 * u + 8 * l + k <= 9 * n + 8
      OBVIOUS
    <3> QED BY <3>1, <3>2, <2>1, <2>5, <2>8, <2>9, <2>10
  <2> QED BY <2>11, <2>12
<1> QED BY <1>1, InductiveInvariant, PendingCallsUnanswered, PTL
-----------------------------------------------------------------------------
(* The confirm node as the caller of a keyed call                          *)

(* Only the holder of the lock moves, and only inside the confirm node.    *)
LEMMA OneCallMoves ==
  ASSUME NEW r \in Reqs, lock = r, lock' \in {r, NoReq},
         \A u \in Reqs \ {r} : approved'[u] = approved[u],
         NEW to, NEW res, Where(r)' = to, HeldBy(r)' = res
  PROVE  /\ [u \in Reqs |-> Where(u)]' = [[u \in Reqs |-> Where(u)] EXCEPT ![r] = to]
         /\ [u \in Reqs |-> HeldBy(u)]' = [[u \in Reqs |-> HeldBy(u)] EXCEPT ![r] = res]
         /\ HeldBy(r) = res => [u \in Reqs |-> HeldBy(u)]' = [u \in Reqs |-> HeldBy(u)]
<1>1. ASSUME NEW u \in Reqs \ {r} PROVE Where(u)' = Where(u) /\ HeldBy(u)' = HeldBy(u)
  <2>1. lock # u /\ lock' # u /\ approved'[u] = approved[u]
    BY SessionAssumption
  <2>2. Where(u)' = Where(u) /\ Where(u) \in {"over", "idle"}
    BY <2>1 DEF Where
  <2> QED BY <2>2 DEF HeldBy
<1> QED BY <1>1

LEMMA NoCallMoves ==
  ASSUME step \notin Confirming, step' \notin Confirming, approved' = approved
  PROVE  /\ [u \in Reqs |-> Where(u)]' = [u \in Reqs |-> Where(u)]
         /\ [u \in Reqs |-> HeldBy(u)]' = [u \in Reqs |-> HeldBy(u)]
<1>1. ASSUME NEW u \in Reqs PROVE Where(u)' = Where(u) /\ HeldBy(u)' = HeldBy(u)
  <2>1. Where(u)' = Where(u) /\ Where(u) \in {"over", "idle"}
    BY DEF Where, Confirming
  <2> QED BY <2>1 DEF HeldBy
<1> QED BY <1>1

LEMMA KeyedStep ==
  ASSUME IInv, ApprovalsInv, [Next]_vars
  PROVE  [Promise!KeyedNext]_(Promise!keyedVars)
<1> DEFINE Step == [Promise!KeyedNext]_(Promise!keyedVars)
           at == [u \in Reqs |-> Where(u)]
           got == [u \in Reqs |-> HeldBy(u)]
           kept == [c \in Writes |-> LiveRow(c)]
           performed == [c \in Writes |-> effects[c]]
           await == awaitingConfirmation
<1>t. /\ step \in {"ready", "interrupted", "lookup", "invoke", "put", "commit"}
      /\ lock \in Reqs \cup {NoReq} /\ NoReq \notin Reqs /\ NoCall \notin Calls
      /\ approved \in [Reqs -> Calls \cup {NoCall}] /\ Writes \subseteq Calls
      /\ store \in [Calls -> Outcomes \cup {"none", "expired"}] /\ effects \in [Calls -> Nat]
  BY SessionAssumption DEF IInv, TypeOK
<1>c. ASSUME NEW r \in Reqs, lock = r, step \in Confirming
      PROVE  approved[r] = await /\ await \in Writes /\ await # NoCall
  BY <1>c, <1>t DEF IInv, NodeInv, ApprovalsInv, Confirming
<1>w. ASSUME NEW r \in Reqs, lock = r, step \in Confirming
      PROVE  /\ Where(r) = IF step = "commit" THEN "answered" ELSE step
             /\ HeldBy(r) = IF step \in {"put", "commit"} THEN result ELSE "none"
  <2>1. Where(r) = IF step = "commit" THEN "answered" ELSE step
    BY <1>w DEF Where, Confirming
  <2> QED BY <1>w, <2>1 DEF HeldBy, Confirming
<1>p. ASSUME NEW r \in Reqs, lock' = r, step' \in Confirming
      PROVE  /\ Where(r)' = IF step' = "commit" THEN "answered" ELSE step'
             /\ HeldBy(r)' = IF step' \in {"put", "commit"} THEN result' ELSE "none"
  <2>1. Where(r)' = IF step' = "commit" THEN "answered" ELSE step'
    BY <1>p DEF Where, Confirming
  <2> QED BY <1>p, <2>1 DEF HeldBy, Confirming
<1>k. ASSUME store' = store PROVE kept' = kept
  BY <1>k DEF LiveRow
<1> HIDE DEF kept
<1>s. ASSUME step \notin Confirming, step' \notin Confirming, approved' = approved,
             kept' = kept, \A c \in Writes : effects'[c] = effects[c]
      PROVE  Step
  BY <1>s, NoCallMoves DEF kept, Promise!keyedVars
<1>e. ASSUME NEW r \in Reqs, lock = r, Release \/ (step = "commit" /\ lock' = lock /\ step' = "ready"),
             approved' = approved, kept' = kept, effects' = effects
      PROVE  Step
  <2>0. step' = "ready" /\ lock' \in {r, NoReq}
    BY <1>e DEF Release
  <2>1. CASE step \notin Confirming
    BY <1>e, <1>s, <2>0, <2>1 DEF Confirming
  <2>2. CASE step \in Confirming
    <3>1. approved[r] = await /\ await \in Writes /\ await # NoCall
      BY <1>c, <1>e, <2>2
    <3>2. Where(r)' = "over"
      BY <1>e, <2>0, <3>1 DEF Where
    <3>3. HeldBy(r)' = "none"
      BY <3>2 DEF HeldBy
    <3>4. /\ at' = [at EXCEPT ![r] = "over"] /\ got' = [got EXCEPT ![r] = "none"]
          /\ approved' = approved /\ kept' = kept /\ performed' = performed
      BY <1>e, <2>0, <3>2, <3>3, OneCallMoves
    <3>5. CASE step = "commit"
      <4>1. Promise!Leave(r)
        BY <1>e, <1>w, <2>2, <3>4, <3>5 DEF kept, Promise!Leave, Promise!Moves, Promise!Holds
      <4> QED BY <4>1 DEF Promise!KeyedNext
    <3>6. CASE step # "commit"
      <4>1. at[r] \in {"lookup", "invoke", "put"}
        BY <1>e, <1>w, <2>2, <3>6 DEF Confirming
      <4>2. \E n \in {0, 1} : performed' = [performed EXCEPT ![approved[r]] = @ + n]
        <5>1. performed' = [performed EXCEPT ![approved[r]] = @ + 0]
          BY <1>t, <3>1, <3>4
        <5> QED BY <5>1
      <4>3. Promise!Abandon(r)
        BY <3>4, <4>1, <4>2 DEF kept, Promise!Abandon, Promise!InProgress, Promise!Moves, Promise!Holds,
           Promise!MayPerform
      <4> QED BY <4>3 DEF Promise!KeyedNext
    <3> QED BY <3>5, <3>6
  <2> QED BY <2>1, <2>2
<1>1. ASSUME NEW r \in Reqs,
             AgentNode(r) \/ FinalizeNode(r) \/ ConfirmInterrupt(r) \/ ConfirmReject(r) \/ StartTurn(r)
      PROVE  Step
  <2>1. lock = NoReq => step = "ready"
    BY DEF IInv, NodeInv
  <2>2. step = "ready" /\ step' \in {"ready", "interrupted"}
    BY <1>1, <2>1 DEF AgentNode, FinalizeNode, ConfirmInterrupt, ConfirmReject, StartTurn, Runs,
       procVars, runVars, IInv, NodeInv
  <2>3. approved' = approved /\ kept' = kept /\ effects' = effects
    BY <1>1, <1>k DEF AgentNode, FinalizeNode, ConfirmInterrupt, ConfirmReject, StartTurn, worldVars, ghosts
  <2> QED BY <1>s, <2>2, <2>3 DEF Confirming
<1>2. ASSUME NEW r \in Reqs, ToolsNode(r) PROVE Step
  <2>1. step = "ready" /\ step' = step /\ kept' = kept /\ approved' = approved
    BY <1>2, <1>k DEF ToolsNode, ghosts
  <2>2. effects' = effects
    BY <1>2 DEF ToolsNode, ExecuteAndAnswer, NeedsConfirmation, NotAllowed
  <2> QED BY <1>s, <2>1, <2>2 DEF Confirming
<1>3. ASSUME NEW r \in Reqs, ConfirmApprove(r) PROVE Step
  <2>1. /\ lock = r /\ lock' = r /\ step = "ready" /\ await \in Writes
        /\ approved' = [approved EXCEPT ![r] = await] /\ approved[r] = NoCall
        /\ kept' = kept /\ effects' = effects
    BY <1>3, <1>k DEF ConfirmApprove, Runs, worldVars, IInv, NodeInv, ApprovalsInv
  <2>2. Where(r) = "idle" /\ HeldBy(r) = "none"
    BY <2>1 DEF Where, HeldBy
  <2>3. CASE registered
    <3>1. step' = "lookup"
      BY <1>3, <2>3 DEF ConfirmApprove
    <3>2. Where(r)' = "lookup" /\ HeldBy(r)' = "none"
      BY <1>p, <2>1, <3>1 DEF Confirming
    <3>3. at' = [at EXCEPT ![r] = "lookup"] /\ got' = got
      BY <1>t, <2>1, <2>2, <3>2, OneCallMoves
    <3>4. Promise!Begin(r, await)
      BY <2>1, <2>2, <3>3 DEF kept, Promise!Begin, Promise!Moves
    <3> QED BY <2>1, <3>4 DEF Promise!KeyedNext
  <2>4. CASE ~registered
    <3>1. step' = "commit" /\ result' = "not_allowed" /\ "undiscovered" \in Faults
      BY <1>3, <2>4 DEF ConfirmApprove, IInv, NodeInv
    <3>2. Where(r)' = "answered" /\ HeldBy(r)' = "not_allowed"
      BY <1>p, <2>1, <3>1 DEF Confirming
    <3>3. at' = [at EXCEPT ![r] = "answered"] /\ got' = [got EXCEPT ![r] = "not_allowed"]
      BY <1>t, <2>1, <3>2, OneCallMoves
    <3>4. Promise!Deny(r, await)
      BY <2>1, <2>2, <3>1, <3>3 DEF kept, Promise!Deny, Promise!Moves, Promise!Holds
    <3> QED BY <2>1, <3>4 DEF Promise!KeyedNext
  <2> QED BY <2>3, <2>4
<1>4. ASSUME NEW r \in Reqs, GatewayLookup(r) PROVE Step
  <2>1. /\ lock = r /\ lock' = r /\ step = "lookup"
        /\ approved' = approved /\ effects' = effects
    BY <1>4 DEF GatewayLookup, ghosts
  <2>2. approved[r] = await /\ await \in Writes /\ Where(r) = "lookup" /\ HeldBy(r) = "none"
    BY <1>c, <1>w, <2>1 DEF Confirming
  <2>3. CASE store[await] \in Outcomes
    <3>1. step' = "commit" /\ result' = store[await] /\ kept' = kept
      BY <1>4, <1>k, <2>3 DEF GatewayLookup
    <3>2. Where(r)' = "answered" /\ HeldBy(r)' = store[await]
      BY <1>p, <2>1, <3>1 DEF Confirming
    <3>3. at' = [at EXCEPT ![r] = "answered"] /\ got' = [got EXCEPT ![r] = store[await]]
      BY <2>1, <3>2, OneCallMoves
    <3>4. kept[await] = store[await] /\ kept[await] # "none"
      BY <2>2, <2>3 DEF kept, LiveRow, Outcomes
    <3>5. Promise!Replay(r)
      BY <2>1, <2>2, <3>1, <3>3, <3>4 DEF kept, Promise!Replay, Promise!Moves, Promise!Holds
    <3> QED BY <3>5 DEF Promise!KeyedNext
  <2>4. CASE store[await] \notin Outcomes
    <3>1. step' = "invoke" /\ store' = [store EXCEPT ![await] = "none"]
      BY <1>4, <2>4 DEF GatewayLookup
    <3>2. kept' = kept /\ kept[await] = "none"
      BY <1>t, <2>2, <2>4, <3>1 DEF kept, LiveRow, Outcomes
    <3>3. Where(r)' = "invoke" /\ HeldBy(r)' = "none"
      BY <1>p, <2>1, <3>1 DEF Confirming
    <3>4. at' = [at EXCEPT ![r] = "invoke"] /\ got' = got
      BY <2>1, <2>2, <3>3, OneCallMoves
    <3>5. Promise!Miss(r)
      BY <2>1, <2>2, <3>2, <3>4 DEF kept, Promise!Miss, Promise!Moves
    <3> QED BY <3>5 DEF Promise!KeyedNext
  <2> QED BY <2>3, <2>4
<1>5. ASSUME NEW r \in Reqs, GatewayShortCircuit(r) PROVE Step
  <2>1. /\ lock = r /\ lock' = r /\ step = "invoke" /\ step' = "commit" /\ result' = "failed"
        /\ approved' = approved /\ kept' = kept /\ effects' = effects
    BY <1>5, <1>k DEF GatewayShortCircuit, worldVars, ghosts
  <2>2. /\ Where(r) = "invoke" /\ Where(r)' = "answered" /\ HeldBy(r)' = "failed"
    BY <1>w, <1>p, <2>1 DEF Confirming
  <2>3. at' = [at EXCEPT ![r] = "answered"] /\ got' = [got EXCEPT ![r] = "failed"]
    BY <2>1, <2>2, OneCallMoves
  <2>4. Promise!Refuse(r)
    BY <2>1, <2>2, <2>3 DEF kept, Promise!Refuse, Promise!Moves, Promise!Holds
  <2> QED BY <2>4 DEF Promise!KeyedNext
<1>6. ASSUME NEW r \in Reqs, GatewayInvoke(r) PROVE Step
  <2>1. PICK res \in Outcomes, n \in {0, 1} :
          result' = res /\ effects' = [effects EXCEPT ![await] = @ + n]
    BY <1>6 DEF GatewayInvoke
  <2>2. /\ lock = r /\ lock' = r /\ step = "invoke" /\ step' = "put"
        /\ approved' = approved /\ kept' = kept
    BY <1>6, <1>k DEF GatewayInvoke, ghosts
  <2>3. /\ approved[r] = await /\ await \in Writes
        /\ Where(r) = "invoke" /\ Where(r)' = "put" /\ HeldBy(r)' = res
    BY <1>c, <1>w, <1>p, <2>1, <2>2 DEF Confirming
  <2>4. performed' = [performed EXCEPT ![approved[r]] = @ + n]
    BY <1>t, <2>1, <2>3
  <2>5. at' = [at EXCEPT ![r] = "put"] /\ got' = [got EXCEPT ![r] = res]
    BY <2>2, <2>3, OneCallMoves
  <2>6. Promise!Perform(r)
    BY <2>2, <2>3, <2>4, <2>5
       DEF kept, Promise!Perform, Promise!Moves, Promise!Holds, Promise!MayPerform
  <2> QED BY <2>6 DEF Promise!KeyedNext
<1>7. ASSUME NEW r \in Reqs, GatewayPut(r) PROVE Step
  <2>1. /\ lock = r /\ lock' = r /\ step = "put" /\ step' = "commit" /\ result' = result
        /\ approved' = approved /\ effects' = effects /\ store' = [store EXCEPT ![await] = result]
    BY <1>7 DEF GatewayPut, ghosts
  <2>2. /\ approved[r] = await /\ await \in Writes /\ HeldBy(r) = result
        /\ Where(r) = "put" /\ Where(r)' = "answered" /\ HeldBy(r)' = result
        /\ result \in Outcomes
    BY <1>c, <1>w, <1>p, <2>1 DEF Confirming, IInv, NodeInv
  <2>3. kept' = [kept EXCEPT ![approved[r]] = got[r]]
    BY <1>t, <2>1, <2>2 DEF kept, LiveRow
  <2>4. at' = [at EXCEPT ![r] = "answered"] /\ got' = got
    BY <2>1, <2>2, OneCallMoves
  <2>5. Promise!Keep(r)
    BY <2>1, <2>2, <2>3, <2>4 DEF kept, Promise!Keep, Promise!Moves
  <2> QED BY <2>5 DEF Promise!KeyedNext
<1>8. ASSUME NEW r \in Reqs, ConfirmCommit(r) PROVE Step
  BY <1>8, <1>e, <1>k DEF ConfirmCommit, worldVars, ghosts
<1>9. ASSUME NEW r \in Reqs, StreamEnds(r) \/ TurnFails(r) PROVE Step
  BY <1>9, <1>e, <1>k DEF StreamEnds, TurnFails, worldVars, ghosts
<1>q. ASSUME UNCHANGED <<lock, step, result, approved>> PROVE UNCHANGED <<at, got>>
  <2>1. \A u \in Reqs : Where(u)' = Where(u) /\ HeldBy(u)' = HeldBy(u)
    BY <1>q DEF Where, HeldBy
  <2> QED BY <2>1
<1>u. ASSUME UNCHANGED <<lock, step, result, approved, store, effects>> PROVE Step
  BY <1>k, <1>q, <1>u DEF kept, Promise!keyedVars
<1>10. ASSUME NEW r \in Reqs, Disconnect(r) PROVE Step
  <2>1. CASE lock = r
    BY <1>10, <1>e, <1>k, <2>1 DEF Disconnect, worldVars, ghosts
  <2>2. CASE lock # r
    BY <1>10, <1>u, <2>2 DEF Disconnect, runVars, worldVars, ghosts
  <2> QED BY <2>1, <2>2
<1>11. CASE Crash
  <2>1. approved' = approved /\ kept' = kept /\ effects' = effects /\ Release
    BY <1>11, <1>t DEF Crash, kept, LiveRow, Outcomes, ghosts
  <2>2. CASE lock = NoReq
    <3>1. step = "ready" /\ step' = "ready"
      BY <2>1, <2>2 DEF Release, IInv, NodeInv
    <3> QED BY <1>s, <2>1, <3>1 DEF Confirming
  <2>3. CASE lock # NoReq
    BY <1>e, <1>t, <2>1, <2>3
  <2> QED BY <2>2, <2>3
<1>12. ASSUME UNCHANGED vars \/ \E r \in Reqs : Refuse(r) \/ \E body \in Body : Chat(r, body)
       PROVE  Step
  BY <1>12, <1>u DEF vars, reqVars, procVars, runVars, ckptVars, worldVars, ghosts, Refuse, Chat
<1>13. ASSUME NEW c \in Calls, RowExpires(c) PROVE Step
  <2>1. /\ UNCHANGED <<at, got, approved, effects>> /\ "expiry" \in Faults
        /\ store' = [store EXCEPT ![c] = "expired"]
    BY <1>13, <1>q DEF RowExpires, reqVars, procVars, runVars, ghosts
  <2>2. kept' = [k \in Writes |-> IF k \in {c} \cap Writes THEN "none" ELSE kept[k]]
    BY <1>t, <2>1 DEF kept, LiveRow, Outcomes
  <2>3. Promise!Forget({c} \cap Writes)
    BY <2>1, <2>2 DEF kept, Promise!Forget
  <2> QED BY <2>3 DEF Promise!KeyedNext
<1> QED
  BY <1>1, <1>2, <1>3, <1>4, <1>5, <1>6, <1>7, <1>8, <1>9, <1>10, <1>11, <1>12, <1>13
     DEF Next, Turn, Interruption, AllServed

(* The confirm node's step through the gateway is a keyed call, whatever
   overlaps, fails, disconnects, crashes, expires or is not discovered after
   a restart: GatewayClient implements the same KeyedCall, so nothing the
   session relies on is stronger than what the gateway gives.              *)
THEOREM SessionMakesKeyedCalls == Spec => ImplementsKeyedCall
<1>1. Init => Promise!KeyedInit /\ ApprovalsInv
  <2> SUFFICES ASSUME Init PROVE Promise!KeyedInit /\ ApprovalsInv
    OBVIOUS
  <2>1. \A r \in Reqs : Where(r) = "idle" /\ HeldBy(r) = "none"
    BY DEF Init, Where, HeldBy
  <2>2. Promise!KeyedInit
    BY <2>1, SessionAssumption DEF Init, LiveRow, Outcomes, Promise!KeyedInit
  <2> QED BY <2>2, SessionAssumption DEF Init, ApprovalsInv, Confirming
<1> QED
  BY <1>1, ApprovalsStep, KeyedStep, InductiveInvariant, PTL
     DEF Spec, ImplementsKeyedCall, Promise!KeyedSpec
=============================================================================
