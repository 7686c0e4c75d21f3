---------------------------- MODULE ChatSession ----------------------------
(***************************************************************************)
(* One conversation of the service: POST /chat requests that share one     *)
(* LangGraph thread_id, the per-thread asyncio.Lock, the agent graph with  *)
(* its human-in-the-loop confirm node, the persisted checkpoint, and the   *)
(* part of the MCP gateway that a confirmed write goes through (lookup in  *)
(* the idempotency store, invocation, put).                                *)
(*                                                                         *)
(* An action is what the event loop runs between two awaits that matter:   *)
(* the checkpoint snapshot, the lock, each superstep of the graph, and     *)
(* inside the confirm node each await of GatewayClient.call.  A superstep  *)
(* commits when its node returns, so a fault during a node leaves the      *)
(* checkpoint as the previous superstep left it.                           *)
(***************************************************************************)
EXTENDS Naturals, Sequences, FiniteSets

CONSTANTS
  Reqs,       \* POST /chat requests, each sent at most once
  NoReq,      \* the lock is free
  Calls,      \* tool_call ids the model may ever produce (uuid, never reused)
  Writes,     \* those that name a side_effecting tool (write.write_file)
  NoCall,     \* awaiting_confirmation is None
  MaxBatch,   \* bound: tool calls in one model answer
  MaxOpen,    \* bound: requests in flight at once (1 = the shipped frontend)
  Faults      \* what may go wrong, see FaultKinds

(* "undiscovered": a start of the process may not find the write server;
   "expiry": a row of the idempotency store may outlive its TTL.  The others
   end a turn, see Interruption.                                           *)
FaultKinds ==
  {"model", "limit", "store", "disconnect", "crash", "undiscovered", "expiry"}

ASSUME SessionAssumption ==
  /\ NoReq \notin Reqs
  /\ NoCall \notin Calls
  /\ Writes \subseteq Calls
  /\ MaxBatch \in Nat /\ MaxOpen \in Nat
  /\ Faults \subseteq FaultKinds

VARIABLES
  (* per request *)
  pc,          \* where the handler of the request is
  runInput,    \* what chat() decided to feed the graph
  seen,        \* ghost: the call that awaited confirmation in its snapshot
  reply,       \* what the client got last
  (* in the process *)
  registered,  \* is the write server's tool in the registry?
  lock,        \* holder of lock_for_thread
  step,        \* where the running node is; "ready" between supersteps
  resume,      \* the Command(resume) value interrupt() would return
  result,      \* the ToolResult the confirm node holds
  (* on disk *)
  nextNode,    \* checkpoint: snapshot.next
  toolCallQueue, awaitingConfirmation,  \* checkpoint: AgentState
  history,     \* checkpoint: messages, seen as the fate of each tool call
  store,       \* idempotency_keys table, keyed by the tool call id
  effects,     \* how often the tool server really performed the write
  (* ghosts *)
  asked,       \* calls whose confirm_required event was emitted
  approved     \* the call for which a request's approval was consumed

reqVars  == <<pc, runInput, seen, reply>>
runVars  == <<lock, step, resume, result>>
procVars == <<registered, runVars>>
ckptVars == <<nextNode, toolCallQueue, awaitingConfirmation, history>>
worldVars == <<store, effects>>
ghosts   == <<asked, approved>>
vars     == <<reqVars, procVars, ckptVars, worldVars, ghosts>>

Nodes    == {"agent", "tools", "confirm", "finalize"}
Outcomes == {"ok", "failed"}
Answers  == Outcomes \cup {"not_allowed"}

Body == [message : BOOLEAN, confirm : {"absent", "approve", "reject"}]

TypeOK ==
  /\ pc \in [Reqs -> {"idle", "waiting", "running", "done"}]
  /\ runInput \in [Reqs -> {"none", "message", "approve", "reject"}]
  /\ seen \in [Reqs -> Calls \cup {NoCall}]
  /\ reply \in [Reqs -> {"none", "refused", "need_confirm", "need_message",
                         "confirm_required", "final", "error", "gone"}]
  /\ registered \in BOOLEAN
  /\ lock \in Reqs \cup {NoReq}
  /\ step \in {"ready", "interrupted", "lookup", "invoke", "put", "commit"}
  /\ resume \in {"none", "approve", "reject"}
  /\ result \in Answers \cup {"none"}
  /\ nextNode \in Nodes \cup {"none"}
  /\ toolCallQueue \in Seq(Calls)
  /\ awaitingConfirmation \in Calls \cup {NoCall}
  /\ history \in [Calls -> Answers \cup {"unused", "proposed", "rejected"}]
  /\ store \in [Calls -> Outcomes \cup {"none", "expired"}]
  /\ effects \in [Calls -> Nat]
  /\ asked \subseteq Calls
  /\ approved \in [Reqs -> Calls \cup {NoCall}]

(* discover_all runs once, when the process starts                         *)
Discoveries == IF "undiscovered" \in Faults THEN BOOLEAN ELSE {TRUE}

Init ==
  /\ registered \in Discoveries
  /\ pc = [r \in Reqs |-> "idle"]
  /\ runInput = [r \in Reqs |-> "none"]
  /\ seen = [r \in Reqs |-> NoCall]
  /\ reply = [r \in Reqs |-> "none"]
  /\ lock = NoReq /\ step = "ready" /\ resume = "none" /\ result = "none"
  /\ nextNode = "none"
  /\ toolCallQueue = <<>> /\ awaitingConfirmation = NoCall
  /\ history = [c \in Calls |-> "unused"]
  /\ store = [c \in Calls |-> "none"]
  /\ effects = [c \in Calls |-> 0]
  /\ asked = {} /\ approved = [r \in Reqs |-> NoCall]

-----------------------------------------------------------------------------
(* POST /chat up to the response headers                                   *)

Open == {r \in Reqs : pc[r] \in {"waiting", "running"}}

Arrives(r) == pc[r] = "idle" /\ Cardinality(Open) < MaxOpen

Answer(r, code) ==
  /\ pc' = [pc EXCEPT ![r] = "done"]
  /\ reply' = [reply EXCEPT ![r] = code]

(* 401, 402, 404 or 429: turned away before the checkpoint is looked at    *)
Refuse(r) ==
  /\ Arrives(r)
  /\ Answer(r, "refused")
  /\ UNCHANGED <<runInput, seen, procVars, ckptVars, worldVars, ghosts>>

IsPaused == nextNode # "none"

InputFor_messageFirst(body) ==
  IF body.message THEN "message" ELSE IF IsPaused THEN body.confirm ELSE "absent"

(* A paused thread takes the confirm field, an idle one the message; the
   other field of the body is ignored.                                     *)
InputFor(body) ==
  IF IsPaused THEN body.confirm
  ELSE IF body.message THEN "message" ELSE "absent"

Chat_noBadRequest(r, body) ==
  /\ Arrives(r)
  /\ seen' = [seen EXCEPT ![r] = awaitingConfirmation]
  /\ pc' = [pc EXCEPT ![r] = "waiting"]
  /\ runInput' = [runInput EXCEPT ![r] = InputFor(body)]
  /\ UNCHANGED <<reply, procVars, ckptVars, worldVars, ghosts>>

(* aget_state, the two 400s and the choice of run_input: all before the
   lock is requested                                                       *)
Chat(r, body) ==
  /\ Arrives(r)
  /\ seen' = [seen EXCEPT ![r] = awaitingConfirmation]
  /\ IF InputFor(body) = "absent"
     THEN /\ Answer(r, IF IsPaused THEN "need_confirm" ELSE "need_message")
          /\ UNCHANGED runInput
     ELSE /\ pc' = [pc EXCEPT ![r] = "waiting"]
          /\ runInput' = [runInput EXCEPT ![r] = InputFor(body)]
          /\ UNCHANGED reply
  /\ UNCHANGED <<procVars, ckptVars, worldVars, ghosts>>

-----------------------------------------------------------------------------
(* event_stream: take the lock and hand the input to graph.astream         *)

(* A message restarts the thread at the agent node and overwrites the queue
   and the awaited call; a resume value leaves the checkpoint as it is.    *)
StartTurn(r) ==
  /\ pc[r] = "waiting"
  /\ lock = NoReq
  /\ lock' = r
  /\ pc' = [pc EXCEPT ![r] = "running"]
  /\ IF runInput[r] = "message"
     THEN /\ nextNode' = "agent"
          /\ toolCallQueue' = <<>>
          /\ awaitingConfirmation' = NoCall
          /\ resume' = "none"
     ELSE /\ resume' = runInput[r]
          /\ UNCHANGED <<nextNode, toolCallQueue, awaitingConfirmation>>
  /\ UNCHANGED <<runInput, seen, reply, registered, step, result, history,
                 worldVars, ghosts>>

Runs(r, node) == lock = r /\ nextNode = node

RouteAfter(queue) == IF queue = <<>> THEN "agent" ELSE "tools"

(* What the model may propose: distinct fresh ids                          *)
Batches ==
  LET fresh == {c \in Calls : history[c] = "unused"}
  IN  UNION {{b \in [1..n -> fresh] :
                \A i, j \in 1..n : b[i] = b[j] => i = j} : n \in 0..MaxBatch}

AgentNode(r) ==
  /\ Runs(r, "agent") /\ step = "ready"
  /\ \E batch \in Batches :
       /\ toolCallQueue' = batch
       /\ nextNode' = IF batch = <<>> THEN "finalize" ELSE "tools"
       /\ history' = [c \in Calls |->
                        IF \E i \in DOMAIN batch : batch[i] = c
                        THEN "proposed" ELSE history[c]]
  /\ awaitingConfirmation' = NoCall
  /\ resume' = "none"
  /\ UNCHANGED <<reqVars, registered, lock, step, result, worldVars, ghosts>>

NotAllowed(c) == c \in Writes /\ ~registered

NeedsConfirmation_policyMissing(c) == FALSE

NeedsConfirmation(c) == c \in Writes /\ registered

(* What the gateway's call makes of a tool call that may run: performed and
   answered.  Only a write leaves a mark outside.                          *)
ExecuteAndAnswer(call) ==
  \E res \in Outcomes :
    /\ history' = [history EXCEPT ![call] = res]
    /\ effects' = IF call \in Writes /\ res = "ok"
                  THEN [effects EXCEPT ![call] = @ + 1] ELSE effects

(* Pops one call.  A tool that is not registered is answered NOT_ALLOWED, a
   registered write comes back as CONFIRMATION_REQUIRED, any other call is
   executed and answered.                                                  *)
ToolsNode(r) ==
  /\ Runs(r, "tools") /\ step = "ready"
  /\ toolCallQueue' = Tail(toolCallQueue)
  /\ LET call == Head(toolCallQueue)
     IN  IF NeedsConfirmation(call)
         THEN /\ awaitingConfirmation' = call
              /\ nextNode' = "confirm"
              /\ UNCHANGED <<history, effects>>
         ELSE /\ awaitingConfirmation' = NoCall
              /\ nextNode' = RouteAfter(toolCallQueue')
              /\ IF NotAllowed(call)
                 THEN /\ history' = [history EXCEPT ![call] = "not_allowed"]
                      /\ UNCHANGED effects
                 ELSE ExecuteAndAnswer(call)
  /\ resume' = "none"
  /\ UNCHANGED <<reqVars, registered, lock, step, result, store, ghosts>>

FinalizeNode(r) ==
  /\ Runs(r, "finalize") /\ step = "ready"
  /\ nextNode' = "none"
  /\ UNCHANGED <<reqVars, procVars, toolCallQueue, awaitingConfirmation,
                 history, worldVars, ghosts>>

-----------------------------------------------------------------------------
(* The confirm node                                                        *)

(* interrupt() without a value: confirm_required goes to the client and the
   run ends with next still at "confirm".                                  *)
ConfirmInterrupt(r) ==
  /\ Runs(r, "confirm") /\ step = "ready" /\ resume = "none"
  /\ step' = "interrupted"
  /\ asked' = asked \cup {awaitingConfirmation}
  /\ reply' = [reply EXCEPT ![r] = "confirm_required"]
  /\ UNCHANGED <<pc, runInput, seen, registered, lock, resume, result,
                 ckptVars, worldVars, approved>>

AnswerAwaited_keptWaiting(fate) ==
  /\ history' = [history EXCEPT ![awaitingConfirmation] = fate]
  /\ nextNode' = RouteAfter(toolCallQueue)
  /\ UNCHANGED <<toolCallQueue, awaitingConfirmation>>

(* The ToolMessage of the awaited call and the end of the superstep        *)
AnswerAwaited(fate) ==
  /\ history' = [history EXCEPT ![awaitingConfirmation] = fate]
  /\ awaitingConfirmation' = NoCall
  /\ nextNode' = RouteAfter(toolCallQueue)
  /\ UNCHANGED toolCallQueue

ConfirmReject(r) ==
  /\ Runs(r, "confirm") /\ step = "ready" /\ resume = "reject"
  /\ AnswerAwaited("rejected")
  /\ resume' = "none"
  /\ UNCHANGED <<reqVars, registered, lock, step, result, worldVars, ghosts>>

(* GatewayClient.call(confirmed=True) looks the tool up first: a process
   that did not discover the write server says NOT_ALLOWED before it asks
   the idempotency store, whatever is stored.                              *)
ConfirmApprove(r) ==
  /\ Runs(r, "confirm") /\ step = "ready" /\ resume = "approve"
  /\ IF registered
     THEN step' = "lookup" /\ UNCHANGED result
     ELSE step' = "commit" /\ result' = "not_allowed"
  /\ resume' = "none"
  /\ approved' = [approved EXCEPT ![r] = awaitingConfirmation]
  /\ UNCHANGED <<reqVars, registered, lock, ckptVars, worldVars, asked>>

GatewayLookup_noReplay(r) ==
  /\ lock = r /\ step = "lookup"
  /\ step' = "invoke"
  /\ UNCHANGED <<reqVars, registered, lock, resume, result, ckptVars, worldVars,
                 ghosts>>

(* idempotency.get: a stored result is replayed; a row past its TTL is
   deleted and counts as a miss.                                           *)
GatewayLookup(r) ==
  /\ lock = r /\ step = "lookup"
  /\ IF store[awaitingConfirmation] \in Outcomes
     THEN step' = "commit" /\ result' = store[awaitingConfirmation] /\ UNCHANGED store
     ELSE /\ step' = "invoke"
          /\ store' = [store EXCEPT ![awaitingConfirmation] = "none"]
          /\ UNCHANGED result
  /\ UNCHANGED <<reqVars, registered, lock, resume, ckptVars, effects, ghosts>>

(* CIRCUIT_OPEN is returned at once and never stored                       *)
GatewayShortCircuit(r) ==
  /\ lock = r /\ step = "invoke"
  /\ step' = "commit"
  /\ result' = "failed"
  /\ UNCHANGED <<reqVars, registered, lock, resume, ckptVars, worldVars, ghosts>>

(* The invocation under wait_for.  A timeout or a lost answer may follow a
   performed write (failed, 1); the server's own refusal, an {"ok": false}
   payload, is a gateway success (ok, 0).                                  *)
GatewayInvoke(r) ==
  /\ lock = r /\ step = "invoke"
  /\ step' = "put"
  /\ \E res \in Outcomes, n \in {0, 1} :
       /\ result' = res
       /\ effects' = [effects EXCEPT ![awaitingConfirmation] = @ + n]
  /\ UNCHANGED <<reqVars, registered, lock, resume, ckptVars, store, ghosts>>

GatewayPut(r) ==
  /\ lock = r /\ step = "put"
  /\ step' = "commit"
  /\ store' = [store EXCEPT ![awaitingConfirmation] = result]
  /\ UNCHANGED <<reqVars, registered, lock, resume, result, ckptVars, effects,
                 ghosts>>

ConfirmCommit(r) ==
  /\ lock = r /\ step = "commit"
  /\ AnswerAwaited(result)
  /\ step' = "ready" /\ result' = "none"
  /\ UNCHANGED <<reqVars, registered, lock, resume, worldVars, ghosts>>

-----------------------------------------------------------------------------
(* The end of a stream                                                     *)

Release_lockKept ==
  /\ UNCHANGED lock
  /\ step' = "ready" /\ resume' = "none" /\ result' = "none"

(* Leaving "async with lock" drops everything the run held in memory       *)
Release ==
  /\ lock' = NoReq
  /\ step' = "ready" /\ resume' = "none" /\ result' = "none"

StreamEnds(r) ==
  /\ lock = r
  /\ step = "interrupted" \/ nextNode = "none"
  /\ IF step = "interrupted"
     THEN pc' = [pc EXCEPT ![r] = "done"] /\ UNCHANGED reply
     ELSE Answer(r, "final")
  /\ Release
  /\ UNCHANGED <<runInput, seen, registered, ckptVars, worldVars, ghosts>>

(* Exceptions a run can meet: the model call raises; the recursion limit
   strikes between supersteps; SQLite raises, in the idempotency store, in
   the tracer when it persists the span of a node, or in the checkpointer.
   What the tool invocation itself raises is a failed result.              *)
CanFail ==
  /\ nextNode # "none"
  /\ \/ "model" \in Faults /\ step = "ready" /\ nextNode = "agent"
     \/ "limit" \in Faults /\ step = "ready"
     \/ "store" \in Faults /\ step \notin {"invoke", "interrupted"}

(* Caught in stream_graph_turn: an error event ends the stream             *)
TurnFails(r) ==
  /\ lock = r
  /\ CanFail
  /\ Answer(r, "error")
  /\ Release
  /\ UNCHANGED <<runInput, seen, registered, ckptVars, worldVars, ghosts>>

(* The client goes away: CancelledError unwinds the generator              *)
Disconnect(r) ==
  /\ "disconnect" \in Faults
  /\ r \in Open
  /\ Answer(r, "gone")
  /\ IF lock = r THEN Release ELSE UNCHANGED runVars
  /\ UNCHANGED <<runInput, seen, registered, ckptVars, worldVars, ghosts>>

(* A row gets older than the TTL.  Any row may do so at any time: the model
   has no clock, so rows may also expire in another order than they came.  *)
RowExpires(c) ==
  /\ "expiry" \in Faults
  /\ store[c] \in Outcomes
  /\ store' = [store EXCEPT ![c] = "expired"]
  /\ UNCHANGED <<reqVars, procVars, ckptVars, effects, ghosts>>

(* The process ends and is started again: only the files survive.  The
   lifespan discovers the servers anew and purges the expired rows.        *)
Crash ==
  /\ "crash" \in Faults
  /\ pc' = [r \in Reqs |-> IF r \in Open THEN "done" ELSE pc[r]]
  /\ reply' = [r \in Reqs |-> IF r \in Open THEN "gone" ELSE reply[r]]
  /\ Release
  /\ registered' \in Discoveries
  /\ store' = [c \in Calls |-> IF store[c] = "expired" THEN "none" ELSE store[c]]
  /\ UNCHANGED <<runInput, seen, ckptVars, effects, ghosts>>

(* Every request has been answered: the only state the system may rest in  *)
AllServed == (\A r \in Reqs : pc[r] = "done") /\ UNCHANGED vars

Turn(r) ==
  \/ AgentNode(r) \/ ToolsNode(r) \/ FinalizeNode(r)
  \/ ConfirmInterrupt(r) \/ ConfirmReject(r) \/ ConfirmApprove(r)
  \/ GatewayLookup(r) \/ GatewayShortCircuit(r) \/ GatewayInvoke(r)
  \/ GatewayPut(r) \/ ConfirmCommit(r)
  \/ StreamEnds(r)

Interruption == Crash \/ \E r \in Reqs : TurnFails(r) \/ Disconnect(r)

Next ==
  \/ \E r \in Reqs :
       \/ Refuse(r)
       \/ \E body \in Body : Chat(r, body)
       \/ StartTurn(r)
       \/ Turn(r)
  \/ Interruption
  \/ \E c \in Calls : RowExpires(c)
  \/ AllServed

Spec == Init /\ [][Next]_vars

(* The event loop keeps running a handler that can run, and asyncio.Lock
   wakes its waiters in order.  Clients and faults owe nothing.            *)
FairSpec == Spec /\ \A r \in Reqs : WF_vars(StartTurn(r)) /\ WF_vars(Turn(r))

-----------------------------------------------------------------------------
(* Properties                                                              *)

(* The lock of manager.lock_for_thread brackets the graph run: whoever is
   inside the graph holds it, so no two requests run on one checkpoint.    *)
MutualExclusion == \A r \in Reqs : pc[r] = "running" <=> lock = r

(* The requests whose approval the confirm node consumed for this call     *)
Consents(c) == {r \in Reqs : runInput[r] = "approve" /\ approved[r] = c}

(* tools_node calls the gateway with confirmed=False, confirm_node once per
   approval: a write is performed at most as often as requests approved that
   very call, whatever crashes, reruns of the node, retries and races there
   were.  No approval is used twice, and none for another call.            *)
ConsentBeforeEffect ==
  \A c \in Writes : effects[c] <= Cardinality(Consents(c))

Pending == {toolCallQueue[i] : i \in DOMAIN toolCallQueue}
             \cup ({awaitingConfirmation} \cap Calls)

(* A call that is queued or waits for the user is still unanswered and sits
   in one place only, so no call gets two ToolMessages: the pop in
   tools_node and the reset in confirm_node survive every interruption.    *)
PendingIsUnanswered ==
  /\ \A c \in Pending : history[c] = "proposed"
  /\ \A i, j \in DOMAIN toolCallQueue :
       toolCallQueue[i] = toolCallQueue[j] => i = j
  /\ \A i \in DOMAIN toolCallQueue : toolCallQueue[i] # awaitingConfirmation

(* Every tool_call of the message list is answered or still pending: the
   next model call never sees a tool_call without its ToolMessage.         *)
NoDanglingCalls == \A c \in Calls : history[c] = "proposed" => c \in Pending

Deciding(r) ==
  lock = r /\ nextNode = "confirm" /\ step = "ready" /\ resume # "none"


(* "The graph pauses at confirm until an API call approves or rejects": a
   call leaves awaiting_confirmation only together with its answer.        *)
PauseEndsByDecision ==
  [][\A c \in Calls :
       awaitingConfirmation = c /\ awaitingConfirmation' # c
         => history'[c] # "proposed"]_vars

(* Once the idempotency store holds a result for a call, then until the row
   is past its TTL neither the result nor the outside world changes for it
   again: a retry is a replay.  After that the row is gone, with the next
   lookup or the next start, and an approval may perform the write again.  *)
StoredResultIsFinal ==
  [][\A c \in Calls :
       store[c] \in Outcomes =>
         store'[c] \in {store[c], "expired"} /\ effects'[c] = effects[c]]_vars

(* "The second call with the same key gets the first result back and does
   not repeat the side effect": a write is performed at most once, however
   often its confirm node runs.                                            *)
WriteAtMostOnce == \A c \in Writes : effects[c] <= 1

(* What the user rejected was never executed.                              *)
RejectedNeverExecuted ==
  \A c \in Writes : history[c] = "rejected" => effects[c] = 0

(* A client is told to send confirm only when a write really awaits it.    *)
ConfirmDemandedForAWrite ==
  \A r \in Reqs : reply[r] = "need_confirm" => seen[r] \in Writes

(* The gate as HitlGate promises it, read off the checkpoint, the emitted
   confirmations and the position of the confirm node                      *)
Life ==
  [c \in Calls |->
     IF c # awaitingConfirmation \/ step \in {"ready", "interrupted"}
     THEN IF history[c] = "proposed" /\ c \in asked THEN "asked" ELSE history[c]
     ELSE IF step \in {"lookup", "invoke"} \/ result = "not_allowed" THEN "approved"
     ELSE "tried"]

(* What the idempotency store would still replay                           *)
LiveRow(c) == IF store[c] \in Outcomes THEN store[c] ELSE "none"

Gate == INSTANCE HitlGate WITH
  life <- Life, performed <- effects, record <- [c \in Calls |-> LiveRow(c)],
  CanBeCut <- Faults \cap {"store", "disconnect", "crash"} # {},
  CanGoUnshown <- Faults \cap {"limit", "store", "disconnect", "crash"} # {},
  CanBeUnavailable <- "undiscovered" \in Faults,
  CanForget <- "expiry" \in Faults

(* The session implements the gate: each write is decided after it was shown
   to a client, tried once per approval, never again while its result is on
   record, and answered with that result.  Model failures cost nothing of it;
   the gate's own constants say what the other faults do.                  *)
ImplementsGate == Gate!GateSpec

(* The keyed call the confirm node makes, one for each approval consumed;
   the gateway returns with the superstep's end still ahead.               *)
Where(r) ==
  IF lock = r /\ step \in {"lookup", "invoke", "put"} THEN step
  ELSE IF lock = r /\ step = "commit" THEN "answered"
  ELSE IF approved[r] # NoCall THEN "over"
  ELSE "idle"

HeldBy(r) == IF Where(r) \in {"put", "answered"} THEN result ELSE "none"

Promise == INSTANCE KeyedCall WITH
  Callers <- Reqs, Keys <- Writes, NoKey <- NoCall,
  Results <- Outcomes, Refusals <- {"failed"},
  Denials <- IF "undiscovered" \in Faults THEN {"not_allowed"} ELSE {},
  CanForget <- "expiry" \in Faults,
  at <- [r \in Reqs |-> Where(r)],
  key <- approved,
  got <- [r \in Reqs |-> HeldBy(r)],
  kept <- [c \in Writes |-> LiveRow(c)],
  performed <- [c \in Writes |-> effects[c]]

(* The gateway steps of this module are the keyed calls GatewayClient makes,
   one for each approval.                                                  *)
ImplementsKeyedCall == Promise!KeyedSpec

(* Every accepted request ends its stream: the lock is passed on, the queue
   drains, no handler waits for a lock that nobody will free.              *)
EveryTurnEnds == \A r \in Reqs : pc[r] \in {"waiting", "running"} ~> pc[r] = "done"
=============================================================================
