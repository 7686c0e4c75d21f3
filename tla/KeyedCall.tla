----------------------------- MODULE KeyedCall -----------------------------
(***************************************************************************)
(* What a caller can count on who asks the gateway for a write under an    *)
(* idempotency key, without breakers, timeouts, rows or clocks: a denial   *)
(* before anything else, if such a call is not let in at all; the kept     *)
(* result of the key if there is one; otherwise a refusal, or one attempt  *)
(* whose result is kept and handed on.  A call may be abandoned at any     *)
(* point: the attempt may have been made all the same, and its result may  *)
(* or may not have been kept.                                              *)
(*                                                                         *)
(* GatewayClient implements this for any number of overlapping calls, and  *)
(* what the confirm node of ChatSession does in place of a gateway is an   *)
(* implementation of the same.                                             *)
(***************************************************************************)
EXTENDS Naturals

CONSTANTS
  Callers, Keys, NoKey,
  Results,      \* what an attempt may come back with
  Denials,      \* what a call that is not let in is answered
  Refusals,     \* what a call may be answered without an attempt
  CanForget     \* are kept results given up after some time?

VARIABLES
  at,         \* where each call is
  key,        \* what it was called with
  got,        \* the result it holds, "none" while it holds none
  kept,       \* the result kept for each key, "none" while there is none
  performed   \* how often the write behind each key was performed

keyedVars == <<at, key, got, kept, performed>>

KeyedInit ==
  /\ at = [p \in Callers |-> "idle"]
  /\ key = [p \in Callers |-> NoKey]
  /\ got = [p \in Callers |-> "none"]
  /\ kept = [k \in Keys |-> "none"]
  /\ performed = [k \in Keys |-> 0]

Moves(p, from, to) == at[p] = from /\ at' = [at EXCEPT ![p] = to]

InProgress(p) == at[p] \in {"lookup", "invoke", "put"}

Holds(p, res) == got' = [got EXCEPT ![p] = res]

Begin(p, k) ==
  /\ Moves(p, "idle", "lookup")
  /\ key' = [key EXCEPT ![p] = k]
  /\ UNCHANGED <<got, kept, performed>>

Deny(p, k) ==
  /\ Moves(p, "idle", "answered")
  /\ key' = [key EXCEPT ![p] = k]
  /\ \E res \in Denials : Holds(p, res)
  /\ UNCHANGED <<kept, performed>>

Replay(p) ==
  /\ Moves(p, "lookup", "answered")
  /\ kept[key[p]] # "none"
  /\ Holds(p, kept[key[p]])
  /\ UNCHANGED <<key, kept, performed>>

Miss(p) ==
  /\ Moves(p, "lookup", "invoke")
  /\ kept[key[p]] = "none"
  /\ UNCHANGED <<key, got, kept, performed>>

Refuse(p) ==
  /\ Moves(p, "invoke", "answered")
  /\ \E res \in Refusals : Holds(p, res)
  /\ UNCHANGED <<key, kept, performed>>

MayPerform(p) ==
  \E n \in {0, 1} : performed' = [performed EXCEPT ![key[p]] = @ + n]

Perform(p) ==
  /\ Moves(p, "invoke", "put")
  /\ \E res \in Results : Holds(p, res)
  /\ MayPerform(p)
  /\ UNCHANGED <<key, kept>>

Keep(p) ==
  /\ Moves(p, "put", "answered")
  /\ kept' = [kept EXCEPT ![key[p]] = got[p]]
  /\ UNCHANGED <<key, got, performed>>

Leave(p) ==
  /\ Moves(p, "answered", "over")
  /\ Holds(p, "none")
  /\ UNCHANGED <<key, kept, performed>>

Abandon(p) ==
  /\ InProgress(p) /\ Moves(p, at[p], "over")
  /\ Holds(p, "none")
  /\ IF at[p] = "invoke" THEN MayPerform(p) ELSE UNCHANGED performed
  /\ \/ UNCHANGED kept
     \/ at[p] = "put" /\ kept' = [kept EXCEPT ![key[p]] = got[p]]
     \/ CanForget /\ at[p] = "invoke" /\ kept' = [kept EXCEPT ![key[p]] = "none"]
  /\ UNCHANGED key

(* The process ends, and every call in progress with it.                   *)
Stop ==
  /\ at' = [p \in Callers |-> IF InProgress(p) THEN "over" ELSE at[p]]
  /\ got' = [p \in Callers |-> IF InProgress(p) THEN "none" ELSE got[p]]
  /\ UNCHANGED <<key, kept, performed>>

Forget(S) ==
  /\ CanForget
  /\ kept' = [k \in Keys |-> IF k \in S THEN "none" ELSE kept[k]]
  /\ UNCHANGED <<at, key, got, performed>>

KeyedNext ==
  \/ Stop
  \/ \E S \in SUBSET Keys : Forget(S)
  \/ \E p \in Callers :
       \/ \E k \in Keys : Begin(p, k) \/ Deny(p, k)
       \/ Replay(p) \/ Miss(p) \/ Refuse(p) \/ Perform(p) \/ Keep(p)
       \/ Leave(p) \/ Abandon(p)

KeyedSpec == KeyedInit /\ [][KeyedNext]_keyedVars
=============================================================================
