---------------------------- MODULE WriteServer -----------------------------
(***************************************************************************)
(* write_file of the Write MCP server: calls in one or several server      *)
(* processes over one workspace directory.  The body under the lock has no *)
(* await, so calls of one process exclude each other; calls of different   *)
(* processes interleave, and a process may end between any two file system *)
(* calls of its body.  A file's content is the call that wrote it.         *)
(***************************************************************************)
EXTENDS Naturals

CONSTANTS
  WriteCalls,
  Processes,
  ServedBy,   \* the process that handles a call
  Paths,      \* the workspace paths calls name
  Outside,    \* a path that resolves to a place outside the workspace
  NewNote,    \* no path given: a file name of the call's own
  NoFile,     \* no such file
  Old         \* a file that was there before

Names == Paths \union WriteCalls   \* the generated name of a call is the call
Requests == [path : Paths \union {Outside, NewNote}, overwrite : BOOLEAN]

ASSUME WriteServerAssumption ==
  /\ ServedBy \in [WriteCalls -> Processes]
  /\ Paths \intersect WriteCalls = {}
  /\ {Outside, NewNote} \intersect (Paths \union WriteCalls) = {}
  /\ Outside # NewNote
  /\ {NoFile, Old} \intersect WriteCalls = {}
  /\ NoFile # Old

VARIABLES
  request,   \* what each call was asked to write, and where
  stage,     \* how far it is, or how it ended
  tmp,       \* its temporary file
  files,     \* the workspace: the content under each name
  placed     \* history: what the call itself put under its target

writeVars == <<request, stage, tmp, files, placed>>

Writing == {"writing", "replacing"}
Busy == Writing \union {"replaced"}   \* the body under the lock
Ended == {"ok", "skipped", "validation", "provider", "raised", "killed"}
Contents == {"none", "part", "whole"}

WriteTypeOK ==
  /\ request \in [WriteCalls -> Requests]
  /\ stage \in [WriteCalls -> {"idle", "waiting"} \union Busy \union Ended]
  /\ tmp \in [WriteCalls -> Contents]
  /\ files \in [Names -> WriteCalls \union {NoFile, Old}]
  /\ placed \in [WriteCalls -> Contents]

WriteInit ==
  /\ request \in [WriteCalls -> Requests]
  /\ stage = [c \in WriteCalls |-> "idle"]
  /\ tmp = [c \in WriteCalls |-> "none"]
  /\ files \in {f \in [Names -> {NoFile, Old}] : \A c \in WriteCalls : f[c] = NoFile}
  /\ placed = [c \in WriteCalls |-> "none"]

(* _resolve_safe_path, for the calls it lets through                       *)
Target(c) == IF request[c].path = NewNote THEN c ELSE request[c].path

WriteFile(c) ==
  /\ stage[c] = "idle"
  /\ stage' = [stage EXCEPT ![c] =
                 IF request[c].path = Outside THEN "validation" ELSE "waiting"]
  /\ UNCHANGED <<request, tmp, files, placed>>

(* another call of the same process is in the body                         *)
Locked(c) == \E d \in WriteCalls : ServedBy[d] = ServedBy[c] /\ stage[d] \in Busy

EnterLocked_neverSkips(c) ==
  /\ stage[c] = "waiting"
  /\ ~Locked(c)
  /\ stage' = [stage EXCEPT ![c] = "writing"]
  /\ UNCHANGED <<request, tmp, files, placed>>

EnterLocked(c) ==
  /\ stage[c] = "waiting"
  /\ ~Locked(c)
  /\ stage' = [stage EXCEPT ![c] =
                 IF files[Target(c)] # NoFile /\ ~request[c].overwrite
                 THEN "skipped" ELSE "writing"]
  /\ UNCHANGED <<request, tmp, files, placed>>

(* write_text fills a temporary file of the call's own: created, then done. *)
WriteText(c) ==
  /\ stage[c] = "writing"
  /\ \/ tmp[c] = "none" /\ tmp' = [tmp EXCEPT ![c] = "part"] /\ UNCHANGED stage
     \/ /\ tmp[c] = "part"
        /\ tmp' = [tmp EXCEPT ![c] = "whole"]
        /\ stage' = [stage EXCEPT ![c] = "replacing"]
  /\ UNCHANGED <<request, files, placed>>

(* os.replace is atomic.                                                   *)
ReplaceFile(c) ==
  /\ stage[c] = "replacing"
  /\ files' = [files EXCEPT ![Target(c)] = c]
  /\ placed' = [placed EXCEPT ![c] = tmp[c]]
  /\ tmp' = [tmp EXCEPT ![c] = "none"]
  /\ stage' = [stage EXCEPT ![c] = "replaced"]
  /\ UNCHANGED request

Reply(c) ==
  /\ stage[c] = "replaced"
  /\ stage' = [stage EXCEPT ![c] = "ok"]
  /\ UNCHANGED <<request, tmp, files, placed>>

WriteFails_keepsTmp(c) ==
  /\ stage[c] \in Writing
  /\ stage' = [stage EXCEPT ![c] = "provider"]
  /\ UNCHANGED <<request, tmp, files, placed>>

(* An OSError of either call; the temporary file goes.                     *)
WriteFails(c) ==
  /\ stage[c] \in Writing
  /\ tmp' = [tmp EXCEPT ![c] = "none"]
  /\ stage' = [stage EXCEPT ![c] = "provider"]
  /\ UNCHANGED <<request, files, placed>>

(* An error that is no OSError (a path or text that does not encode), or one
   that exists() or unlink() raises, leaves the tool as an exception, the
   temporary file where it was.                                            *)
WriteRaises(c) ==
  /\ stage[c] \in {"idle", "waiting"} \union Writing
  /\ stage' = [stage EXCEPT ![c] = "raised"]
  /\ UNCHANGED <<request, tmp, files, placed>>

(* The stdio process ends under its calls: a session closed by the gateway's
   timeout, or a crash.                                                    *)
EndProcess(p) ==
  /\ \E c \in WriteCalls : ServedBy[c] = p /\ stage[c] \in Busy
  /\ stage' = [c \in WriteCalls |->
                 IF ServedBy[c] = p /\ stage[c] \in Busy \union {"waiting"}
                 THEN "killed" ELSE stage[c]]
  /\ UNCHANGED <<request, tmp, files, placed>>

WriteStep(c) ==
  \/ WriteFile(c) \/ EnterLocked(c) \/ WriteText(c)
  \/ ReplaceFile(c) \/ Reply(c) \/ WriteFails(c) \/ WriteRaises(c)

WriteNext ==
  \/ \E c \in WriteCalls : WriteStep(c)
  \/ \E p \in Processes : EndProcess(p)

WriteSpec == WriteInit /\ [][WriteNext]_writeVars

-----------------------------------------------------------------------------
(* A file that is there is replaced only by a call that asked for it; failing
   that, the file was put there by a call of another server process, after
   this call looked.  Files that were there before are never lost unasked.  *)
OverwritesAreAskedFor ==
  [][\A c \in WriteCalls : stage[c] = "replacing" /\ stage'[c] = "replaced" =>
       LET before == files[Target(c)] IN
       \/ before = NoFile
       \/ request[c].overwrite
       \/ before \in WriteCalls /\ ServedBy[before] # ServedBy[c]]_writeVars

(* What a call reports is what it did to the disk.  ok: the whole text was
   put in place at once; skipped_existing or an error: nothing of it was, not
   even a temporary file, which only an exception or the end of the process
   leaves behind.  A call that got no answer may have written.  After ok or
   skipped_existing the target exists.                                     *)
ReportsMatchDisk ==
  \A c \in WriteCalls :
    /\ stage[c] \in {"replaced", "ok"} => placed[c] = "whole"
    /\ stage[c] \in {"skipped", "validation", "provider", "raised"} => placed[c] = "none"
    /\ placed[c] # "part"
    /\ tmp[c] # "none" => stage[c] \in Writing \union {"raised", "killed"}
    /\ stage[c] \in {"ok", "skipped"} => files[Target(c)] # NoFile
=============================================================================
