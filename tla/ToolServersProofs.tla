------------------------- MODULE ToolServersProofs --------------------------
(***************************************************************************)
(* Theorems about the MCP servers, for any calls, processes, paths, cities *)
(* and time limits, and about the table of policies they ship with.        *)
(***************************************************************************)
EXTENDS WriteServer, MapServer, WeatherServer, ServerSpecs, TLAPS

-----------------------------------------------------------------------------
(* The table of policies                                                   *)

(* No tool the service ships with is both side-effecting and retryable, nor
   is one without an entry: what the gateway's proof assumes of the write
   tools holds of default_server_specs().                                  *)
THEOREM ShippedWritesAreNotRetryable ==
  \A server \in DefaultServers : \A tool :
    /\ PolicyFor(server, tool) \in ToolPolicy
    /\ ~ (PolicyFor(server, tool).side_effecting /\ PolicyFor(server, tool).retryable)
<1> SUFFICES ASSUME NEW server \in DefaultServers, NEW tool
             PROVE  /\ PolicyFor(server, tool) \in ToolPolicy
                    /\ ~ (PolicyFor(server, tool).side_effecting /\ PolicyFor(server, tool).retryable)
  OBVIOUS
<1>1. /\ DefaultPolicy \in ToolPolicy
      /\ ~ DefaultPolicy.side_effecting
  BY DEF DefaultPolicy, ToolPolicy
<1>2. \A seconds \in Nat : /\ Read(seconds) \in ToolPolicy
                           /\ ~ Read(seconds).side_effecting
                           /\ WriteOnce(seconds) \in ToolPolicy
                           /\ ~ WriteOnce(seconds).retryable
  BY DEF Read, WriteOnce, ToolPolicy
<1>3. ASSUME tool \in DOMAIN ToolPolicies[server]
      PROVE  ToolPolicies[server][tool] \in {Read(30), Read(5), Read(10), WriteOnce(15)}
  BY <1>3 DEF ToolPolicies, DefaultServers
<1>4. CASE tool \in DOMAIN ToolPolicies[server]
  BY <1>2, <1>3, <1>4 DEF PolicyFor
<1>5. CASE tool \notin DOMAIN ToolPolicies[server]
  BY <1>1, <1>5 DEF PolicyFor
<1> QED BY <1>4, <1>5

-----------------------------------------------------------------------------
(* The write server                                                        *)

USE WriteServerAssumption DEF Names, Requests, Writing, Busy, Ended, Contents

(* What each stage says about a call's files; and that one process is in one
   body at a time.                                                         *)
WriteStages ==
  \A c \in WriteCalls :
    /\ stage[c] \in {"idle", "waiting", "skipped", "validation", "provider"} =>
         tmp[c] = "none" /\ placed[c] = "none"
    /\ stage[c] = "writing" => tmp[c] # "whole" /\ placed[c] = "none"
    /\ stage[c] = "replacing" => tmp[c] = "whole" /\ placed[c] = "none"
    /\ stage[c] \in {"replaced", "ok"} => tmp[c] = "none" /\ placed[c] = "whole"
    /\ stage[c] = "raised" => placed[c] = "none"
    /\ placed[c] # "part"
    /\ stage[c] \in {"replaced", "ok", "skipped"} => files[Target(c)] # NoFile
    /\ stage[c] \in {"waiting", "ok", "skipped"} \union Busy => request[c].path # Outside

OneBody ==
  \A c, d \in WriteCalls :
    stage[c] \in Busy /\ stage[d] \in Busy /\ ServedBy[c] = ServedBy[d] => c = d

(* A call about to replace a file it may not saw none there, or another
   process put it there since.                                             *)
NothingLost ==
  \A c \in WriteCalls :
    stage[c] \in Writing /\ ~request[c].overwrite =>
      \/ files[Target(c)] = NoFile
      \/ files[Target(c)] \in WriteCalls /\ ServedBy[files[Target(c)]] # ServedBy[c]

WriteInv == WriteTypeOK /\ WriteStages /\ OneBody /\ NothingLost

LEMMA TargetInNames ==
  ASSUME WriteTypeOK, NEW c \in WriteCalls, request[c].path # Outside
  PROVE  Target(c) \in Names
BY DEF WriteTypeOK, Target

LEMMA TargetIsFixed ==
  ASSUME request' = request, NEW c \in WriteCalls
  PROVE  Target(c)' = Target(c)
BY DEF Target

LEMMA WriteInitially == WriteInit => WriteInv
BY DEF WriteInit, WriteInv, WriteTypeOK, WriteStages, OneBody, NothingLost

LEMMA WriteStepSafe ==
  ASSUME WriteInv, NEW c \in WriteCalls, WriteStep(c)
  PROVE  WriteInv'
<1> USE DEF WriteInv
<1>1. ASSUME NEW d \in WriteCalls PROVE Target(d)' = Target(d)
  BY TargetIsFixed DEF WriteStep, WriteFile, EnterLocked, WriteText, ReplaceFile, Reply,
     WriteFails, WriteRaises
<1>2. CASE WriteFile(c)
  BY <1>1, <1>2 DEF WriteFile, WriteTypeOK, WriteStages, OneBody, NothingLost
<1>3. CASE EnterLocked(c)
  <2>1. WriteTypeOK' /\ WriteStages'
    BY <1>1, <1>3 DEF EnterLocked, WriteTypeOK, WriteStages
  <2>2. OneBody'
    BY <1>3 DEF EnterLocked, Locked, OneBody, WriteTypeOK
  <2>3. NothingLost'
    BY <1>1, <1>3 DEF EnterLocked, NothingLost, WriteTypeOK
  <2> QED BY <2>1, <2>2, <2>3
<1>4. CASE WriteText(c)
  <2>1. stage' \in {stage, [stage EXCEPT ![c] = "replacing"]} /\ stage[c] = "writing"
    BY <1>4 DEF WriteText
  <2>2. WriteTypeOK'
    BY <1>4 DEF WriteText, WriteTypeOK
  <2>3. WriteStages'
    BY <1>1, <1>4, <2>1 DEF WriteText, WriteTypeOK, WriteStages
  <2>4. OneBody'
    BY <2>1 DEF OneBody, WriteTypeOK
  <2>5. NothingLost'
    BY <1>1, <1>4, <2>1 DEF WriteText, NothingLost, WriteTypeOK
  <2> QED BY <2>2, <2>3, <2>4, <2>5
<1>5. CASE ReplaceFile(c)
  <2>1. Target(c) \in Names
    BY <1>5, TargetInNames DEF ReplaceFile, WriteStages
  <2>2. WriteTypeOK'
    BY <1>5, <2>1 DEF ReplaceFile, WriteTypeOK
  <2>3. \A d \in WriteCalls : files'[Target(d)] = files[Target(d)] \/ files'[Target(d)] = c
    BY <1>5 DEF ReplaceFile, WriteTypeOK
  <2>4. files'[Target(c)] = c
    BY <1>5, <2>1 DEF ReplaceFile, WriteTypeOK
  <2>5. WriteStages'
    BY <1>1, <1>5, <2>3, <2>4 DEF ReplaceFile, WriteTypeOK, WriteStages
  <2>6. OneBody'
    BY <1>5 DEF ReplaceFile, OneBody, WriteTypeOK
  <2>7. NothingLost'
    BY <1>1, <1>5, <2>3 DEF ReplaceFile, OneBody, NothingLost, WriteTypeOK
  <2> QED BY <2>2, <2>5, <2>6, <2>7
<1>6. CASE Reply(c)
  BY <1>1, <1>6 DEF Reply, WriteTypeOK, WriteStages, OneBody, NothingLost
<1>7. CASE WriteFails(c)
  BY <1>1, <1>7 DEF WriteFails, WriteTypeOK, WriteStages, OneBody, NothingLost
<1>8. CASE WriteRaises(c)
  BY <1>1, <1>8 DEF WriteRaises, WriteTypeOK, WriteStages, OneBody, NothingLost
<1> QED BY <1>2, <1>3, <1>4, <1>5, <1>6, <1>7, <1>8 DEF WriteStep

LEMMA EndProcessSafe ==
  ASSUME WriteInv, NEW p \in Processes, EndProcess(p)
  PROVE  WriteInv'
<1>1. ASSUME NEW d \in WriteCalls PROVE Target(d)' = Target(d)
  BY TargetIsFixed DEF EndProcess
<1>2. \A d \in WriteCalls : \/ stage'[d] = stage[d]
                            \/ stage'[d] = "killed" /\ stage[d] \in Busy \union {"waiting"}
  BY DEF EndProcess
<1>3. WriteTypeOK'
  BY <1>2 DEF EndProcess, WriteInv, WriteTypeOK
<1>4. WriteStages'
  BY <1>1, <1>2 DEF EndProcess, WriteInv, WriteStages
<1>5. OneBody' /\ NothingLost'
  BY <1>1, <1>2 DEF EndProcess, WriteInv, OneBody, NothingLost
<1> QED BY <1>3, <1>4, <1>5 DEF WriteInv

LEMMA WriteInvariant == WriteSpec => []WriteInv
<1>1. WriteInv /\ [WriteNext]_writeVars => WriteInv'
  <2> SUFFICES ASSUME WriteInv, [WriteNext]_writeVars PROVE WriteInv'
    OBVIOUS
  <2>1. CASE \E c \in WriteCalls : WriteStep(c)
    BY <2>1, WriteStepSafe
  <2>2. CASE \E p \in Processes : EndProcess(p)
    BY <2>2, EndProcessSafe
  <2>3. CASE UNCHANGED writeVars
    BY <2>3 DEF writeVars, WriteInv, WriteTypeOK, WriteStages, OneBody, NothingLost, Target
  <2> QED BY <2>1, <2>2, <2>3 DEF WriteNext
<1> QED BY <1>1, WriteInitially, PTL DEF WriteSpec

(* What write_file reports is what it did to the disk, in any number of
   processes that fail or end anywhere.                                    *)
THEOREM WriteReportsAreTrue == WriteSpec => []ReportsMatchDisk
<1>1. WriteInv => ReportsMatchDisk
  BY DEF WriteInv, WriteTypeOK, WriteStages, ReportsMatchDisk
<1> QED BY <1>1, WriteInvariant, PTL

(* No file is replaced unasked but one that another process wrote after this
   call had looked.                                                        *)
THEOREM OverwritesWereAskedFor == WriteSpec => OverwritesAreAskedFor
<1>1. WriteInv /\ [WriteNext]_writeVars =>
        (\A c \in WriteCalls : stage[c] = "replacing" /\ stage'[c] = "replaced" =>
           LET before == files[Target(c)] IN
           \/ before = NoFile
           \/ request[c].overwrite
           \/ before \in WriteCalls /\ ServedBy[before] # ServedBy[c])
  BY DEF WriteInv, NothingLost
<1> QED BY <1>1, WriteInvariant, PTL DEF WriteSpec, OverwritesAreAskedFor

-----------------------------------------------------------------------------
(* The map server                                                          *)

USE MapServerAssumption DEF Holding, MapAnswers, MapEnded

(* One call holds the throttle lock; no request that was answered is more
   recent than the last one on record; and who sleeps, sleeps long enough.  *)
OneHolder == \A c, d \in MapCalls : lookup[c] \in Holding /\ lookup[d] \in Holding => c = d
AnswersCount == \A c \in MapCalls : lookup[c] \in MapAnswers => sinceSent[c] >= sinceLast
SleepsSuffice == \A c \in MapCalls : lookup[c] = "sleeping" => rest[c] + sinceLast >= MinInterval

MapInv == MapTypeOK /\ OneHolder /\ AnswersCount /\ SleepsSuffice

LEMMA OlderInRange ==
  ASSUME NEW cap \in Nat, NEW age \in 0..cap
  PROVE  Older(age, cap) \in 0..cap
BY DEF Older

LEMMA MapStepSafe ==
  ASSUME MapInv, NEW c \in MapCalls, MapStep(c)
  PROVE  MapInv'
<1> USE DEF MapInv
<1>1. CASE Geocode(c)
  BY <1>1 DEF Geocode, MapTypeOK, OneHolder, AnswersCount, SleepsSuffice
<1>2. CASE Throttle(c)
  <2>1. MinInterval - sinceLast \in 0..MinInterval
    BY DEF MapTypeOK
  <2>2. MapTypeOK'
    BY <1>2, <2>1 DEF Throttle, MapTypeOK
  <2>3. OneHolder'
    BY <1>2 DEF Throttle, Free, OneHolder, MapTypeOK
  <2>4. AnswersCount'
    BY <1>2 DEF Throttle, AnswersCount, MapTypeOK
  <2>5. SleepsSuffice'
    BY <1>2 DEF Throttle, Free, SleepsSuffice, MapTypeOK
  <2> QED BY <2>2, <2>3, <2>4, <2>5
<1>3. CASE Wake(c)
  BY <1>3 DEF Wake, MapTypeOK, OneHolder, AnswersCount, SleepsSuffice
<1>4. CASE Answered(c)
  <2>1. lookup[c] = "asking"
    BY <1>4 DEF Answered
  <2>2. MapTypeOK'
    BY <1>4 DEF Answered, MapTypeOK
  <2>3. OneHolder'
    BY <1>4 DEF Answered, OneHolder, MapTypeOK
  <2>4. AnswersCount'
    BY <1>4 DEF Answered, AnswersCount, MapTypeOK
  <2>5. \A d \in MapCalls : lookup'[d] # "sleeping"
    BY <1>4, <2>1 DEF Answered, OneHolder, MapTypeOK
  <2>6. SleepsSuffice'
    BY <2>5 DEF SleepsSuffice
  <2> QED BY <2>2, <2>3, <2>4, <2>6
<1>5. CASE Unanswered(c)
  BY <1>5 DEF Unanswered, MapTypeOK, OneHolder, AnswersCount, SleepsSuffice
<1>6. CASE Cancel(c)
  BY <1>6 DEF Cancel, MapTypeOK, OneHolder, AnswersCount, SleepsSuffice
<1> QED BY <1>1, <1>2, <1>3, <1>4, <1>5, <1>6 DEF MapStep

LEMMA MapTickSafe == ASSUME MapInv, MapTick PROVE MapInv'
<1> USE DEF MapInv
<1>1. MapTypeOK'
  <2>1. sinceLast' \in 0..MinInterval
    BY OlderInRange DEF MapTick, MapTypeOK
  <2>2. rest' \in [MapCalls -> 0..MinInterval]
    BY DEF MapTick, MapTypeOK
  <2>3. asked' \in [MapCalls -> 0..MapTimeout]
    BY OlderInRange DEF MapTick, MapTypeOK
  <2>4. sinceSent' \in [MapCalls -> 0..MinInterval]
    BY OlderInRange DEF MapTick, MapTypeOK
  <2> QED BY <2>1, <2>2, <2>3, <2>4 DEF MapTick, MapTypeOK
<1>2. OneHolder'
  BY DEF MapTick, OneHolder
<1>3. AnswersCount'
  BY DEF MapTick, AnswersCount, MapTypeOK, Older
<1>4. SleepsSuffice'
  BY DEF MapTick, SleepsSuffice, MapTypeOK, Older
<1> QED BY <1>1, <1>2, <1>3, <1>4

LEMMA MapInvariant == MapSpec => []MapInv
<1>1. MapInit => MapInv
  BY DEF MapInit, MapInv, MapTypeOK, OneHolder, AnswersCount, SleepsSuffice
<1>2. MapInv /\ [MapNext]_mapVars => MapInv'
  <2> SUFFICES ASSUME MapInv, [MapNext]_mapVars PROVE MapInv'
    OBVIOUS
  <2>1. CASE MapTick
    BY <2>1, MapTickSafe
  <2>2. CASE \E c \in MapCalls : MapStep(c)
    BY <2>2, MapStepSafe
  <2>3. CASE UNCHANGED mapVars
    BY <2>3 DEF mapVars, MapInv, MapTypeOK, OneHolder, AnswersCount, SleepsSuffice
  <2> QED BY <2>1, <2>2, <2>3 DEF MapNext
<1> QED BY <1>1, <1>2, PTL DEF MapSpec

(* Every request keeps its distance from those that were answered, for any
   number of callers, any interval and any pattern of cancellations.       *)
THEOREM RequestsKeepTheirDistance == MapSpec => AnsweredRequestsAreSpaced
<1>1. ASSUME MapInv, [MapNext]_mapVars, NEW c \in MapCalls,
             lookup[c] # "asking", lookup'[c] = "asking"
      PROVE  \A d \in MapCalls :
               /\ lookup[d] # "asking"
               /\ lookup[d] \in MapAnswers => sinceSent[d] = MinInterval
  <2>1. Throttle(c) \/ Wake(c)
    <3>1. ASSUME NEW d \in MapCalls, MapStep(d), d # c PROVE FALSE
      BY <1>1, <3>1 DEF MapInv, MapTypeOK, MapStep, Geocode, Throttle, Wake, Answered,
         Unanswered, Cancel
    <3>2. ASSUME MapStep(c) PROVE Throttle(c) \/ Wake(c)
      BY <1>1, <3>2 DEF MapInv, MapTypeOK, MapStep, Geocode, Throttle, Wake, Answered,
         Unanswered, Cancel
    <3> QED BY <1>1, <3>1, <3>2 DEF MapNext, MapTick, mapVars
  <2>2. sinceLast = MinInterval
    BY <1>1, <2>1 DEF Throttle, Wake, MapInv, MapTypeOK, SleepsSuffice
  <2>3. \A d \in MapCalls : lookup[d] # "asking"
    BY <1>1, <2>1 DEF Throttle, Wake, Free, MapInv, OneHolder
  <2> QED BY <1>1, <2>2, <2>3 DEF MapInv, MapTypeOK, AnswersCount
<1>2. MapInv /\ [MapNext]_mapVars =>
        (\A c \in MapCalls : lookup[c] # "asking" /\ lookup'[c] = "asking" =>
           \A d \in MapCalls :
             /\ lookup[d] # "asking"
             /\ lookup[d] \in MapAnswers => sinceSent[d] = MinInterval)
  BY <1>1
<1> QED BY <1>2, MapInvariant, PTL DEF MapSpec, AnsweredRequestsAreSpaced

-----------------------------------------------------------------------------
(* The weather server                                                      *)

USE WeatherAssumption DEF QueryEnded

(* A round of the gateway: an attempt and the longest sleep after it         *)
Round == WeatherTimeout + LongestPause

(* What a query has used: so much for each round that is over, and what the
   attempt under way has used or the sleep under way has left.             *)
Paid(q) ==
  /\ query[q] = "idle" => tries[q] = 0 /\ spent[q] = 0 /\ requests[q] = 0
  /\ query[q] = "asking" =>
       /\ tries[q] > 0
       /\ spent[q] <= (tries[q] - 1) * Round + clock[q]
       /\ requests[q] <= (tries[q] - 1) * MaxAttempts + inner[q]
  /\ query[q] # "asking" => requests[q] <= tries[q] * MaxAttempts
  /\ query[q] = "backoff" =>
       tries[q] < GatewayAttempts /\ spent[q] + nap[q] <= tries[q] * Round
  /\ query[q] \in QueryEnded => spent[q] = 0 \/ spent[q] + LongestPause <= tries[q] * Round
  /\ query[q] = "failed" => tries[q] = GatewayAttempts

AllPaid == \A q \in Queries : Paid(q)

WeatherInv == WeatherTypeOK /\ AllPaid

LEMMA OneMore == ASSUME NEW n \in Nat, NEW m \in Nat PROVE (n + 1) * m = n * m + m /\ n * m \in Nat
OBVIOUS

LEMMA AtMost ==
  ASSUME NEW n \in Nat, NEW k \in Nat, NEW m \in Nat, n <= k
  PROVE  n * m <= k * m
OBVIOUS

LEMMA RoundIsNat == Round \in Nat /\ LongestPause \in Nat /\ WeatherTimeout \in Nat
BY DEF Round

(* An attempt ends, in whatever way but with the next one still to come.   *)
LEMMA AttemptIsPaid ==
  ASSUME WeatherInv, NEW q \in Queries, query[q] = "asking"
  PROVE  /\ spent[q] + LongestPause <= tries[q] * Round
         /\ requests[q] <= tries[q] * MaxAttempts
<1>1. /\ tries[q] - 1 \in Nat /\ tries[q] = (tries[q] - 1) + 1
      /\ clock[q] \in Nat /\ inner[q] \in Nat
      /\ clock[q] <= WeatherTimeout /\ inner[q] <= MaxAttempts
      /\ spent[q] \in Nat /\ requests[q] \in Nat
  BY DEF WeatherInv, WeatherTypeOK, AllPaid, Paid
<1> DEFINE n == tries[q] - 1
           a == tries[q] * Round
           b == n * Round
           c == tries[q] * MaxAttempts
           d == n * MaxAttempts
<1>2. a = b + Round /\ b \in Nat
  <2>1. n \in Nat /\ tries[q] = n + 1
    BY <1>1
  <2> HIDE DEF n
  <2> QED BY <2>1, RoundIsNat, OneMore
<1>3. c = d + MaxAttempts /\ d \in Nat
  <2>1. n \in Nat /\ tries[q] = n + 1
    BY <1>1
  <2> HIDE DEF n
  <2> QED BY <2>1, OneMore
<1>4. spent[q] <= b + clock[q] /\ requests[q] <= d + inner[q]
  BY DEF WeatherInv, AllPaid, Paid
<1> HIDE DEF a, b, c, d
<1>5. spent[q] + LongestPause <= a /\ requests[q] <= c
  BY <1>1, <1>2, <1>3, <1>4, RoundIsNat DEF Round
<1> QED BY <1>5 DEF a, c

LEMMA EndedAttemptPays ==
  ASSUME WeatherInv, NEW q \in Queries, query[q] = "asking",
         query'[q] \in QueryEnded \union {"backoff"},
         query'[q] = "backoff" => tries[q] < GatewayAttempts,
         query'[q] = "failed" => tries[q] = GatewayAttempts,
         nap'[q] \in 0..LongestPause,
         tries'[q] = tries[q], spent'[q] = spent[q], requests'[q] = requests[q]
  PROVE  Paid(q)'
<1> DEFINE a == tries[q] * Round
<1>1. spent[q] + LongestPause <= a /\ requests[q] <= tries[q] * MaxAttempts
  BY AttemptIsPaid
<1>2. spent[q] + nap'[q] <= a
  <2>1. /\ spent[q] \in Nat /\ nap'[q] \in Nat /\ nap'[q] <= LongestPause
        /\ tries[q] \in Nat
    BY DEF WeatherInv, WeatherTypeOK
  <2>2. a \in Nat
    BY <2>1, RoundIsNat, OneMore
  <2> HIDE DEF a
  <2> QED BY <1>1, <2>1, <2>2, RoundIsNat
<1> QED BY <1>1, <1>2 DEF Paid, Round

(* Before an attempt all that was used is paid by the rounds before it.    *)
LEMMA RoundsArePaid ==
  ASSUME WeatherInv, NEW q \in Queries,
         query[q] = "idle" \/ (query[q] = "backoff" /\ nap[q] = 0)
  PROVE  /\ spent[q] <= tries[q] * Round /\ requests[q] <= tries[q] * MaxAttempts
         /\ tries[q] \in Nat /\ tries[q] < GatewayAttempts
         /\ tries[q] * Round \in Nat /\ tries[q] * MaxAttempts \in Nat
<1>1. /\ tries[q] \in Nat /\ tries[q] < GatewayAttempts /\ spent[q] \in Nat
      /\ requests[q] \in Nat
  BY DEF WeatherInv, WeatherTypeOK, AllPaid, Paid
<1> DEFINE a == tries[q] * Round
           b == tries[q] * MaxAttempts
<1>2. a \in Nat /\ b \in Nat
  BY <1>1, RoundIsNat, OneMore
<1>3. /\ spent[q] = 0 \/ spent[q] + 0 <= a
      /\ requests[q] <= b
  BY DEF WeatherInv, AllPaid, Paid
<1> HIDE DEF a, b
<1>4. spent[q] <= a /\ requests[q] <= b
  BY <1>1, <1>2, <1>3, RoundIsNat
<1> QED BY <1>1, <1>2, <1>4 DEF a, b

LEMMA QueryStepPays ==
  ASSUME WeatherInv, NEW q \in Queries, QueryStep(q)
  PROVE  AllPaid'
<1> USE DEF WeatherInv
<1>1. Paid(q)'
  <2>1. CASE Attempt(q)
    <3>1. /\ tries'[q] = tries[q] + 1 /\ clock'[q] = 0
          /\ spent'[q] = spent[q] /\ spent[q] \in Nat /\ requests[q] \in Nat
          /\ query[q] = "idle" \/ (query[q] = "backoff" /\ nap[q] = 0)
      BY <2>1 DEF Attempt, WeatherTypeOK
    <3>2. \/ query'[q] = "cached" /\ requests'[q] = requests[q]
          \/ query'[q] = "asking" /\ requests'[q] = requests[q] + 1 /\ inner'[q] = 1
      BY <2>1 DEF Attempt, WeatherTypeOK
    <3> DEFINE n == tries[q]
               a == n * Round
               b == n * MaxAttempts
               a1 == (n + 1) * Round
               b1 == (n + 1) * MaxAttempts
    <3>3. /\ spent[q] <= a /\ requests[q] <= b /\ n \in Nat /\ n < GatewayAttempts
          /\ a \in Nat /\ b \in Nat
      BY <3>1, RoundsArePaid
    <3>4. a1 = a + Round /\ b1 = b + MaxAttempts
      <4> HIDE DEF n
      <4> QED BY <3>3, RoundIsNat, OneMore
    <3>5. CASE query'[q] = "cached"
      <4>1. spent'[q] + LongestPause <= a1 /\ requests'[q] <= b1
        <5> HIDE DEF a, b, a1, b1
        <5> QED BY <3>1, <3>2, <3>3, <3>4, <3>5, RoundIsNat DEF Round
      <4> QED BY <3>1, <3>5, <4>1 DEF Paid
    <3>6. CASE query'[q] = "asking"
      <4>1. spent'[q] <= a + clock'[q] /\ requests'[q] <= b + inner'[q]
        <5> HIDE DEF a, b, a1, b1
        <5> QED BY <3>1, <3>2, <3>3, <3>6
      <4>2. tries'[q] - 1 = n /\ tries'[q] > 0
        BY <3>1, <3>3
      <4>3. /\ spent'[q] <= (tries'[q] - 1) * Round + clock'[q]
            /\ requests'[q] <= (tries'[q] - 1) * MaxAttempts + inner'[q]
        BY <4>1, <4>2
      <4> HIDE DEF n, a, b, a1, b1
      <4> QED BY <3>6, <4>2, <4>3 DEF Paid, Round
    <3> QED BY <3>2, <3>5, <3>6
  <2>2. CASE Unconfigured(q)
    <3>1. query[q] = "idle" /\ query'[q] = "error"
          /\ tries'[q] = tries[q] /\ spent'[q] = spent[q] /\ requests'[q] = requests[q]
      BY <2>2 DEF Unconfigured, WeatherTypeOK
    <3>2. Paid(q)
      BY DEF AllPaid
    <3> QED BY <3>1, <3>2 DEF Paid
  <2>3. CASE Answers(q) \/ Rejects(q)
    <3>1. /\ query[q] = "asking" /\ query'[q] \in {"ok", "error"}
          /\ tries' = tries /\ spent' = spent /\ requests' = requests /\ nap' = nap
      BY <2>3 DEF Answers, Rejects, WeatherTypeOK
    <3>2. nap[q] \in 0..LongestPause
      BY DEF WeatherTypeOK
    <3> QED BY <3>1, <3>2, EndedAttemptPays
  <2>4. CASE AttemptFails(q)
    <3>1. tries[q] <= GatewayAttempts /\ tries[q] \in Nat
      BY DEF WeatherTypeOK
    <3>2. /\ query[q] = "asking" /\ query'[q] = AfterFailure(q)
          /\ tries' = tries /\ spent' = spent /\ requests' = requests
          /\ nap'[q] \in 0..LongestPause
      BY <2>4 DEF AttemptFails, NapAfter, WeatherTypeOK
    <3>3. \/ query'[q] = "backoff" /\ tries[q] < GatewayAttempts
          \/ query'[q] = "failed" /\ tries[q] = GatewayAttempts
      BY <3>1, <3>2 DEF AfterFailure
    <3> QED BY <3>2, <3>3, EndedAttemptPays
  <2>5. CASE Fails(q) /\ inner[q] >= MaxAttempts
    <3>1. /\ query[q] = "asking" /\ query'[q] = "error"
          /\ tries' = tries /\ spent' = spent /\ requests' = requests
          /\ nap'[q] \in 0..LongestPause
      BY <2>5 DEF Fails, WeatherTypeOK
    <3> QED BY <3>1, EndedAttemptPays
  <2>6. CASE Fails(q) /\ inner[q] < MaxAttempts
    <3>1. /\ query'[q] = "asking" /\ query[q] = "asking"
          /\ tries' = tries /\ clock' = clock /\ spent' = spent
          /\ inner'[q] = inner[q] + 1 /\ requests'[q] = requests[q] + 1
          /\ inner[q] \in Nat /\ requests[q] \in Nat
      BY <2>6 DEF Fails, WeatherTypeOK
    <3>2. tries[q] - 1 \in Nat
      BY <3>1 DEF AllPaid, Paid, WeatherTypeOK
    <3> DEFINE b == (tries[q] - 1) * MaxAttempts
    <3>3. b \in Nat
      BY <3>2, OneMore
    <3>4. requests[q] <= b + inner[q]
      BY <3>1 DEF AllPaid, Paid
    <3>5. requests'[q] <= b + inner'[q]
      <4> HIDE DEF b
      <4> QED BY <3>1, <3>3, <3>4
    <3> QED BY <3>1, <3>5 DEF AllPaid, Paid
  <2> QED BY <2>1, <2>2, <2>3, <2>4, <2>5, <2>6 DEF QueryStep, WeatherTypeOK
<1>2. ASSUME NEW o \in Queries, o # q PROVE Paid(o)'
  <2>1. /\ query'[o] = query[o] /\ tries'[o] = tries[o] /\ spent'[o] = spent[o]
        /\ clock'[o] = clock[o] /\ inner'[o] = inner[o] /\ requests'[o] = requests[o]
        /\ nap'[o] = nap[o]
    BY <1>2 DEF QueryStep, Attempt, Unconfigured, Answers, Rejects, Fails, AttemptFails,
       WeatherTypeOK
  <2> QED BY <2>1 DEF AllPaid, Paid
<1> QED BY <1>1, <1>2 DEF AllPaid

LEMMA QueryStepTypes ==
  ASSUME WeatherInv, NEW q \in Queries, QueryStep(q)
  PROVE  WeatherTypeOK'
<1> USE DEF WeatherInv
<1>1. CASE Attempt(q)
  <2>1. tries[q] + 1 \in 0..GatewayAttempts
    BY <1>1, RoundsArePaid DEF Attempt, WeatherTypeOK
  <2>2. /\ tries' \in [Queries -> 0..GatewayAttempts]
        /\ clock' \in [Queries -> 0..WeatherTimeout]
        /\ process' \in [Queries -> WeatherProcesses]
    BY <1>1, <2>1 DEF Attempt, WeatherTypeOK
  <2>3. query' \in [Queries -> {"idle", "asking", "backoff"} \union QueryEnded]
    <3>1. query' \in {[query EXCEPT ![q] = "cached"], [query EXCEPT ![q] = "asking"]}
      BY <1>1 DEF Attempt
    <3> QED BY <3>1 DEF WeatherTypeOK
  <2>4. inner' \in [Queries -> 0..MaxAttempts]
    <3>1. inner' \in {inner, [inner EXCEPT ![q] = 1]}
      BY <1>1 DEF Attempt
    <3> QED BY <3>1 DEF WeatherTypeOK
  <2>5. requests' \in [Queries -> Nat]
    <3>1. requests' \in {requests, [requests EXCEPT ![q] = requests[q] + 1]}
      BY <1>1 DEF Attempt
    <3>2. requests[q] + 1 \in Nat
      BY DEF WeatherTypeOK
    <3> QED BY <3>1, <3>2 DEF WeatherTypeOK
  <2>6. backoff' \in [Queries -> 0..LongestPause]
    <3>1. backoff[q] \in 0..LongestPause
      BY DEF WeatherTypeOK
    <3>2. Doubled(q) \in 0..LongestPause
      BY <3>1 DEF Doubled
    <3>3. backoff' \in {backoff, [backoff EXCEPT ![q] = Doubled(q)]}
      BY <1>1 DEF Attempt
    <3> QED BY <3>2, <3>3 DEF WeatherTypeOK
  <2>7. cache' = cache /\ nap' = nap /\ spent' = spent
    BY <1>1 DEF Attempt
  <2> QED BY <2>2, <2>3, <2>4, <2>5, <2>6, <2>7 DEF WeatherTypeOK
<1>2. CASE Unconfigured(q) \/ Rejects(q)
  BY <1>2 DEF Unconfigured, Rejects, WeatherTypeOK
<1>3. CASE Answers(q)
  <2>1. process[q] \in WeatherProcesses /\ CityOf[q] \in Cities
    BY DEF WeatherTypeOK
  <2> QED BY <1>3, <2>1 DEF Answers, WeatherTypeOK
<1>4. CASE Fails(q)
  <2>1. inner[q] < MaxAttempts => inner[q] + 1 \in 0..MaxAttempts
    BY DEF WeatherTypeOK
  <2>2. inner' \in [Queries -> 0..MaxAttempts]
    BY <1>4, <2>1 DEF Fails, WeatherTypeOK
  <2>3. requests' \in [Queries -> Nat]
    <3>1. requests' \in {requests, [requests EXCEPT ![q] = requests[q] + 1]}
      BY <1>4 DEF Fails
    <3>2. requests[q] + 1 \in Nat
      BY DEF WeatherTypeOK
    <3> QED BY <3>1, <3>2 DEF WeatherTypeOK
  <2>4. query' \in [Queries -> {"idle", "asking", "backoff"} \union QueryEnded]
    BY <1>4 DEF Fails, WeatherTypeOK
  <2> QED BY <1>4, <2>2, <2>3, <2>4 DEF Fails, WeatherTypeOK
<1>5. CASE AttemptFails(q)
  <2>1. NapAfter(q) \in 0..LongestPause
    BY DEF NapAfter, WeatherTypeOK
  <2> QED BY <1>5, <2>1 DEF AttemptFails, AfterFailure, WeatherTypeOK
<1> QED BY <1>1, <1>2, <1>3, <1>4, <1>5 DEF QueryStep

LEMMA EndWeatherSafe == ASSUME WeatherInv, NEW p \in WeatherProcesses, EndWeather(p) PROVE WeatherInv'
<1> USE DEF WeatherInv
<1>1. ASSUME NEW q \in Queries
      PROVE  AfterFailure(q) \in {"backoff", "failed"} /\ NapAfter(q) \in 0..LongestPause
  BY DEF AfterFailure, NapAfter, WeatherTypeOK
<1>2. WeatherTypeOK'
  BY <1>1 DEF EndWeather, WeatherTypeOK
<1>3. ASSUME NEW q \in Queries PROVE Paid(q)'
  <2>1. tries' = tries /\ spent' = spent /\ requests' = requests /\ clock' = clock /\ inner' = inner
    BY DEF EndWeather
  <2>2. CASE query[q] = "asking" /\ process[q] = p
    <3>1. query'[q] = AfterFailure(q) /\ nap'[q] \in 0..LongestPause
      BY <1>1, <2>2 DEF EndWeather
    <3>2. tries[q] <= GatewayAttempts /\ tries[q] \in Nat
      BY DEF WeatherTypeOK
    <3>3. \/ query'[q] = "backoff" /\ tries[q] < GatewayAttempts
          \/ query'[q] = "failed" /\ tries[q] = GatewayAttempts
      BY <3>1, <3>2 DEF AfterFailure
    <3> QED BY <2>1, <2>2, <3>1, <3>3, EndedAttemptPays
  <2>3. CASE ~ (query[q] = "asking" /\ process[q] = p)
    <3>1. query'[q] = query[q] /\ nap'[q] = nap[q]
      BY <2>3 DEF EndWeather
    <3> QED BY <2>1, <3>1 DEF AllPaid, Paid
  <2> QED BY <2>2, <2>3
<1> QED BY <1>2, <1>3 DEF AllPaid

LEMMA WeatherTickSafe == ASSUME WeatherInv, WeatherTick PROVE WeatherInv'
<1> USE DEF WeatherInv
<1>1. WeatherTypeOK'
  <2>1. clock' \in [Queries -> 0..WeatherTimeout]
    BY DEF WeatherTick, WeatherTypeOK
  <2>2. spent' \in [Queries -> Nat]
    BY DEF WeatherTick, WeatherTypeOK
  <2>3. cache' \in [WeatherProcesses -> [Cities -> 0..TTL]]
    BY DEF WeatherTick, WeatherTypeOK
  <2>4. nap' \in [Queries -> 0..LongestPause]
    BY DEF WeatherTick, WeatherTypeOK
  <2> QED BY <2>1, <2>2, <2>3, <2>4 DEF WeatherTick, WeatherTypeOK
<1>2. ASSUME NEW q \in Queries PROVE Paid(q)'
  <2>1. query' = query /\ tries' = tries /\ requests' = requests /\ inner' = inner
    BY DEF WeatherTick
  <2>2. CASE query[q] \notin {"asking", "backoff"}
    <3>1. spent'[q] = spent[q]
      BY <2>2 DEF WeatherTick
    <3> QED BY <2>1, <2>2, <3>1 DEF AllPaid, Paid
  <2>3. CASE query[q] = "asking"
    <3>1. /\ spent'[q] = spent[q] + 1 /\ clock'[q] = clock[q] + 1
          /\ spent[q] \in Nat /\ clock[q] \in Nat /\ tries[q] - 1 \in Nat
      BY <2>3 DEF WeatherTick, WeatherTypeOK, AllPaid, Paid
    <3> DEFINE a == (tries[q] - 1) * Round
    <3>2. a \in Nat
      BY <3>1, RoundIsNat, OneMore
    <3>3. spent[q] <= a + clock[q]
      BY <2>3 DEF AllPaid, Paid
    <3>4. spent'[q] <= a + clock'[q]
      <4> HIDE DEF a
      <4> QED BY <3>1, <3>2, <3>3
    <3> QED BY <2>1, <2>3, <3>4 DEF AllPaid, Paid
  <2>4. CASE query[q] = "backoff"
    <3>1. /\ spent'[q] = spent[q] + 1 /\ nap'[q] = nap[q] - 1
          /\ spent[q] \in Nat /\ nap[q] \in Nat /\ nap[q] > 0 /\ nap[q] <= LongestPause
          /\ tries[q] \in Nat
      BY <2>4 DEF WeatherTick, WeatherTypeOK, AllPaid, Paid
    <3> DEFINE a == tries[q] * Round
    <3>2. a \in Nat
      BY <3>1, RoundIsNat, OneMore
    <3>3. spent[q] + nap[q] <= a
      BY <2>4 DEF AllPaid, Paid
    <3>4. spent'[q] + nap'[q] <= a
      <4> HIDE DEF a
      <4> QED BY <3>1, <3>2, <3>3
    <3> QED BY <2>1, <2>4, <3>4 DEF AllPaid, Paid
  <2> QED BY <2>2, <2>3, <2>4
<1> QED BY <1>1, <1>2 DEF AllPaid

LEMMA WeatherInvariant == WeatherSpec => []WeatherInv
<1>1. WeatherInit => WeatherInv
  BY DEF WeatherInit, WeatherInv, WeatherTypeOK, AllPaid, Paid
<1>2. WeatherInv /\ [WeatherNext]_weatherVars => WeatherInv'
  <2> SUFFICES ASSUME WeatherInv, [WeatherNext]_weatherVars PROVE WeatherInv'
    OBVIOUS
  <2>1. CASE WeatherTick
    BY <2>1, WeatherTickSafe
  <2>2. CASE \E q \in Queries : QueryStep(q)
    BY <2>2, QueryStepTypes, QueryStepPays DEF WeatherInv
  <2>3. CASE \E p \in WeatherProcesses : EndWeather(p)
    BY <2>3, EndWeatherSafe
  <2>4. CASE UNCHANGED weatherVars
    BY <2>4 DEF weatherVars, WeatherInv, WeatherTypeOK, AllPaid, Paid
  <2> QED BY <2>1, <2>2, <2>3, <2>4 DEF WeatherNext
<1> QED BY <1>1, <1>2, PTL DEF WeatherSpec

(* Retries inside retries stay within the gateway's attempts, timeouts and
   sleeps, for any numbers of attempts, any timeout and any backoff.       *)
THEOREM NestedRetriesAreBounded == WeatherSpec => []RetriesAreBounded
<1>1. ASSUME WeatherInv, NEW q \in Queries
      PROVE  /\ spent[q] <= GatewayAttempts * WeatherTimeout + (GatewayAttempts - 1) * LongestPause
             /\ requests[q] <= tries[q] * MaxAttempts
             /\ query[q] = "failed" => tries[q] = GatewayAttempts
  <2> DEFINE n == GatewayAttempts - 1
             a == tries[q] * Round
             b == n * Round
             g == GatewayAttempts * WeatherTimeout + (GatewayAttempts - 1) * LongestPause
  <2>1. /\ tries[q] \in Nat /\ tries[q] <= GatewayAttempts
        /\ spent[q] \in Nat /\ requests[q] \in Nat
        /\ n \in Nat /\ GatewayAttempts = n + 1
    BY <1>1 DEF WeatherInv, WeatherTypeOK
  <2>2. g = b + WeatherTimeout /\ b \in Nat
    <3> HIDE DEF n
    <3>1. /\ (n + 1) * WeatherTimeout = n * WeatherTimeout + WeatherTimeout
          /\ n * WeatherTimeout \in Nat
      BY <2>1, OneMore
    <3>2. n * Round = n * WeatherTimeout + n * LongestPause /\ n * LongestPause \in Nat
      BY <2>1, RoundIsNat DEF Round
    <3>3. GatewayAttempts * WeatherTimeout = n * WeatherTimeout + WeatherTimeout
      BY <2>1, <3>1
    <3>4. GatewayAttempts - 1 = n
      BY <2>1
    <3> QED BY <3>1, <3>2, <3>3, <3>4, RoundIsNat
  <2>3. a \in Nat /\ (tries[q] <= n => a <= b) /\ a <= b + Round
    <3> HIDE DEF n
    <3>1. a \in Nat /\ (tries[q] <= n => a <= b)
      BY <2>1, RoundIsNat, OneMore, AtMost
    <3>2. (n + 1) * Round = b + Round
      BY <2>1, RoundIsNat, OneMore
    <3>3. a <= (n + 1) * Round
      BY <2>1, RoundIsNat, AtMost
    <3> QED BY <3>1, <3>2, <3>3
  <2>4. /\ spent[q] = 0 \/ spent[q] + LongestPause <= a \/ (spent[q] <= a /\ tries[q] <= n)
        /\ requests[q] <= tries[q] * MaxAttempts
    <3>1. CASE query[q] = "asking"
      <4>1. spent[q] + LongestPause <= a /\ requests[q] <= tries[q] * MaxAttempts
        BY <1>1, <3>1, AttemptIsPaid
      <4> HIDE DEF a, b, g, n
      <4> QED BY <4>1
    <3>2. CASE query[q] # "asking"
      <4>1. /\ \/ spent[q] = 0 \/ spent[q] + LongestPause <= a
               \/ /\ spent[q] + nap[q] <= a
                  /\ tries[q] < GatewayAttempts
            /\ requests[q] <= tries[q] * MaxAttempts
        BY <1>1, <3>2 DEF WeatherInv, WeatherTypeOK, AllPaid, Paid
      <4>2. nap[q] \in Nat
        BY <1>1 DEF WeatherInv, WeatherTypeOK
      <4>3. tries[q] < GatewayAttempts => tries[q] <= n
        BY <2>1
      <4> HIDE DEF a, b, g, n
      <4> QED BY <2>1, <2>3, <4>1, <4>2, <4>3
    <3> QED BY <3>1, <3>2
  <2>5. spent[q] <= g
    <3> HIDE DEF a, b, g, n
    <3> QED BY <2>1, <2>2, <2>3, <2>4, RoundIsNat DEF Round
  <2>6. query[q] = "failed" => tries[q] = GatewayAttempts
    BY <1>1 DEF WeatherInv, AllPaid, Paid
  <2> QED BY <2>4, <2>5, <2>6
<1>2. WeatherInv => RetriesAreBounded
  BY <1>1 DEF RetriesAreBounded
<1> QED BY <1>2, WeatherInvariant, PTL
=============================================================================
