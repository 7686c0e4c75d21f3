------------------------------ MODULE HitlGate ------------------------------
(***************************************************************************)
(* What the human-in-the-loop gate promises about every tool call the      *)
(* model proposes, without requests, locks, checkpoints or messages: a     *)
(* call without side effects is executed and answered; a write waits, is   *)
(* shown to a client, is then either rejected, or approved, tried once for *)
(* that approval and answered.  As long as a result is on record for a     *)
(* write it is the answer, and the end of its effects.  A proposal may be  *)
(* left hanging.                                                           *)
(*                                                                         *)
(* The constants say what faults cost: a call cut off inside the gate      *)
(* needs a new decision, and may have been performed all the same; a pause *)
(* cut off before the client was told can be decided by somebody who never *)
(* saw it; a write whose server is not there is turned away, unasked or    *)
(* after its approval, even if a result is on record; a record forgotten   *)
(* protects its write no longer.  Where no call can be cut off a write is  *)
(* performed at most once, and never after a rejection.                    *)
(***************************************************************************)
EXTENDS Naturals

CONSTANTS
  Calls, Writes,
  CanBeCut,        \* a turn may end between the approval and the answer
  CanGoUnshown,    \* a turn may end between the pause and its announcement
  CanBeUnavailable, \* the server of the writes may be missing
  CanForget        \* a record may be given up after some time

VARIABLES
  life,       \* where each call is in its life
  performed,  \* how often it had its effect
  record      \* the result kept for it, "none" while there is none

gateVars == <<life, performed, record>>

GateOutcomes == {"ok", "failed"}

GateInit ==
  /\ life = [c \in Calls |-> "unused"]
  /\ performed = [c \in Calls |-> 0]
  /\ record = [c \in Calls |-> "none"]

Becomes(c, from, to) == life[c] \in from /\ life' = [life EXCEPT ![c] = to]

Propose(S) ==
  /\ \A c \in S : life[c] = "unused"
  /\ life' = [c \in Calls |-> IF c \in S THEN "proposed" ELSE life[c]]
  /\ UNCHANGED <<performed, record>>

ExecuteRead(c) ==
  /\ c \notin Writes
  /\ \E fate \in GateOutcomes : Becomes(c, {"proposed"}, fate)
  /\ UNCHANGED <<performed, record>>

Ask(c) ==
  /\ c \in Writes
  /\ Becomes(c, {"proposed"}, "asked")
  /\ UNCHANGED <<performed, record>>

Undecided == IF CanGoUnshown THEN {"proposed", "asked"} ELSE {"asked"}

Decide(c, verdict) ==
  /\ c \in Writes
  /\ Becomes(c, Undecided, verdict)
  /\ UNCHANGED <<performed, record>>

(* One approval, one try; with a result on record the tool is left alone.  *)
Try(c) ==
  /\ Becomes(c, {"approved"}, "tried")
  /\ \/ UNCHANGED performed
     \/ record[c] = "none" /\ performed' = [performed EXCEPT ![c] = @ + 1]
  /\ UNCHANGED record

Keep(c) ==
  /\ life[c] = "tried" /\ record[c] = "none"
  /\ \E res \in GateOutcomes : record' = [record EXCEPT ![c] = res]
  /\ UNCHANGED <<life, performed>>

Conclude(c) ==
  /\ \E fate \in GateOutcomes :
       /\ Becomes(c, {"tried"}, fate)
       /\ record[c] \in {"none", fate}
  /\ UNCHANGED <<performed, record>>

TurnAway(c) ==
  /\ CanBeUnavailable
  /\ c \in Writes
  /\ Becomes(c, {"proposed", "approved"}, "not_allowed")
  /\ UNCHANGED <<performed, record>>

Cut(c) ==
  /\ CanBeCut
  /\ \E back \in Undecided : Becomes(c, {"approved", "tried"}, back)
  /\ UNCHANGED <<performed, record>>

Forget(S) ==
  /\ CanForget
  /\ record' = [c \in Calls |-> IF c \in S THEN "none" ELSE record[c]]
  /\ UNCHANGED <<life, performed>>

GateNext ==
  \/ \E S \in SUBSET Calls : Propose(S) \/ Forget(S)
  \/ \E c \in Calls :
       \/ ExecuteRead(c)
       \/ Ask(c)
       \/ \E verdict \in {"approved", "rejected"} : Decide(c, verdict)
       \/ Try(c) \/ Keep(c) \/ Conclude(c)
       \/ TurnAway(c) \/ Cut(c)

GateSpec == GateInit /\ [][GateNext]_gateVars
=============================================================================
