------------------------------ MODULE BadCases ------------------------------
(***************************************************************************)
(* The bad case store: failing turns record themselves before they tell    *)
(* the client, failing cases of the offline evaluation, in a process of    *)
(* its own, before they are reported.  An operator lists the unresolved    *)
(* cases and marks them by id some time later, and every start of the      *)
(* service purges what is resolved and old.  The table outlives them all.  *)
(***************************************************************************)
EXTENDS Naturals

CONSTANTS
  Turns,      \* turns that may fail, of clients and of the evaluation
  EvalCases,  \* those of the evaluation
  CaseIds,    \* bound: ids the table may give out
  Retention,  \* older_than_days, in ticks
  NoCase      \* no row

Case == [turn : Turns, resolved : BOOLEAN, age : 0..(Retention + 1)]

ASSUME BadCasesAssumption ==
  /\ Retention \in Nat
  /\ EvalCases \subseteq Turns
  /\ CaseIds \subseteq Nat \ {0}
  /\ NoCase \notin Case

VARIABLES
  turn,     \* how far the failure of each turn has come
  cases,    \* the table: the row under each id
  lastId,   \* sqlite_sequence: the greatest id ever given out
  listing,  \* what the operator read last, as <<id, turn>>
  marked    \* history: turns whose case the operator has resolved

caseVars == <<turn, cases, lastId, listing, marked>>

CasesTypeOK ==
  /\ turn \in [Turns -> {"running", "failing", "recorded", "told", "dropped"}]
  /\ cases \in [CaseIds -> Case \union {NoCase}]
  /\ lastId \in {0} \union CaseIds
  /\ listing \subseteq CaseIds \X Turns
  /\ marked \subseteq Turns

CasesInit ==
  /\ turn = [t \in Turns |-> "running"]
  /\ cases = [i \in CaseIds |-> NoCase]
  /\ lastId = 0
  /\ listing = {}
  /\ marked = {}

(* The graph raises in the middle of a stream.                             *)
TurnFails(t) ==
  /\ turn[t] = "running"
  /\ turn' = [turn EXCEPT ![t] = "failing"]
  /\ UNCHANGED <<cases, lastId, listing, marked>>

Used == {i \in CaseIds : cases[i] # NoCase}

NewId_reused == IF Used = {} THEN 1 ELSE 1 + CHOOSE i \in Used : \A j \in Used : j <= i

(* AUTOINCREMENT: ids of deleted rows are not given out again.             *)
NewId == lastId + 1

(* record, whose row is committed before _on_error returns.                *)
RecordCase(t) ==
  /\ turn[t] = "failing"
  /\ NewId \in CaseIds
  /\ cases' = [cases EXCEPT ![NewId] = [turn |-> t, resolved |-> FALSE, age |-> 0]]
  /\ lastId' = NewId
  /\ turn' = [turn EXCEPT ![t] = "recorded"]
  /\ UNCHANGED <<listing, marked>>

(* record raises inside the except branch, or the client goes away while it
   runs: the stream ends without an error event.  In run_all it ends the
   evaluation.                                                             *)
DropFailure(t) ==
  /\ turn[t] \in {"failing", "recorded"}
  /\ turn' = [turn EXCEPT ![t] = "dropped"]
  /\ UNCHANGED <<cases, lastId, listing, marked>>

TellError(t) ==
  /\ turn[t] = "recorded"
  /\ t \notin EvalCases
  /\ turn' = [turn EXCEPT ![t] = "told"]
  /\ UNCHANGED <<cases, lastId, listing, marked>>

ReportCase(t) ==
  /\ turn[t] = "recorded"
  /\ t \in EvalCases
  /\ turn' = [turn EXCEPT ![t] = "told"]
  /\ UNCHANGED <<cases, lastId, listing, marked>>

(* list_unresolved, behind GET /bad-cases                                  *)
ListUnresolved ==
  /\ listing' = {<<i, cases[i].turn>> : i \in {j \in Used : ~cases[j].resolved}}
  /\ UNCHANGED <<turn, cases, lastId, marked>>

(* mark_resolved of a case on the list, which may be old by now.           *)
MarkResolved(i, t) ==
  /\ <<i, t>> \in listing
  /\ cases' = IF cases[i] = NoCase THEN cases ELSE [cases EXCEPT ![i].resolved = TRUE]
  /\ marked' = marked \union {t}
  /\ UNCHANGED <<turn, lastId, listing>>

(* recorded_at counts, not when the case was resolved.                     *)
Purgeable(i) == cases[i] # NoCase /\ cases[i].resolved /\ cases[i].age > Retention

(* The service dies and starts again: streams are gone, purge_resolved runs
   before the first request.                                               *)
RestartAndPurge ==
  /\ turn' = [t \in Turns |->
                IF t \notin EvalCases /\ turn[t] \in {"failing", "recorded"}
                THEN "dropped" ELSE turn[t]]
  /\ cases' = [i \in CaseIds |-> IF Purgeable(i) THEN NoCase ELSE cases[i]]
  /\ UNCHANGED <<lastId, listing, marked>>

CasesTick ==
  /\ cases' = [i \in CaseIds |->
                 IF cases[i] # NoCase /\ cases[i].age <= Retention
                 THEN [cases[i] EXCEPT !.age = @ + 1] ELSE cases[i]]
  /\ UNCHANGED <<turn, lastId, listing, marked>>

CasesNext ==
  \/ \E t \in Turns : TurnFails(t) \/ RecordCase(t) \/ DropFailure(t)
                     \/ TellError(t) \/ ReportCase(t)
  \/ ListUnresolved
  \/ \E i \in CaseIds, t \in Turns : MarkResolved(i, t)
  \/ RestartAndPurge
  \/ CasesTick

CasesSpec == CasesInit /\ [][CasesNext]_caseVars

-----------------------------------------------------------------------------
(* A failure a client or a report told of stays on the list of open cases
   until an operator who read that very case resolves it, across restarts and
   purges and however late the operator acts on the list; no case is resolved
   unread.                                                                 *)
FailureIsOnRecord ==
  \A t \in Turns :
    LET rows == {i \in Used : cases[i].turn = t} IN
    /\ turn[t] = "told" /\ t \notin marked =>
         \E i \in rows : ~cases[i].resolved
    /\ \A i \in rows : cases[i].resolved => t \in marked
=============================================================================
