-------------------------- MODULE ChatClientProofs --------------------------
(***************************************************************************)
(* Theorems about one tab of the client, for any conversations and any     *)
(* number of requests, with or without streams that break.                 *)
(***************************************************************************)
EXTENDS ChatClient, TLAPS

USE ChatClientAssumption

Fresh == {"sent", "queued", "running"}

(* An event waits in a stream whose turn is over and which is still read.  *)
EventsAreOpen ==
  \A i \in DOMAIN posts :
    posts[i].event # "none" => posts[i].state \notin Fresh \union {"settled"}

(* Streams still read, and the card shown, are of the active conversation,
   or were left.                                                           *)
OpenAreHere == \A i \in OpenPosts : posts[i].conv = active \/ i \in left
CardIsHere == card # 0 => posts[card].conv = active \/ card \in left

DecisionsAnswerACard ==
  \A i \in DOMAIN posts : posts[i].kind = "confirm" => posts[i].card \in DOMAIN posts

ClientInv ==
  /\ ClientTypeOK
  /\ Len(posts) <= MaxPosts
  /\ EventsAreOpen
  /\ OpenAreHere
  /\ CardIsHere
  /\ DecisionsAnswerACard
  /\ DecisionsReachTheirAsker

-----------------------------------------------------------------------------
(* Steps of one stream change the state and the event of its post.         *)

SamePost(i, row) ==
  /\ row \in Post
  /\ row.kind = posts[i].kind /\ row.conv = posts[i].conv /\ row.card = posts[i].card
  /\ posts' = [posts EXCEPT ![i] = row]

LEMMA OnePostChanges ==
  ASSUME ClientTypeOK, NEW i \in DOMAIN posts, NEW row, SamePost(i, row)
  PROVE  /\ posts' \in Seq(Post)
         /\ DOMAIN posts' = DOMAIN posts
         /\ Len(posts') = Len(posts)
         /\ posts'[i] = row
         /\ \A j \in DOMAIN posts : j # i => posts'[j] = posts[j]
         /\ \A j \in DOMAIN posts : /\ posts'[j].kind = posts[j].kind
                                    /\ posts'[j].conv = posts[j].conv
                                    /\ posts'[j].card = posts[j].card
BY DEF SamePost, ClientTypeOK

LEMMA StreamStepSafe ==
  ASSUME ClientInv, NEW i \in DOMAIN posts, NEW row, SamePost(i, row),
         posts[i].state # "settled",
         row.event # "none" => row.state \notin Fresh \union {"settled"},
         card' \in {card, i},
         banner' \in {"none", "final", "retryable"}, isStreaming' \in BOOLEAN,
         pause' \in [Threads -> 0..Len(posts)],
         UNCHANGED <<active, lastMessage, left, early>>
  PROVE  ClientInv'
<1> USE DEF ClientInv
<1>1. /\ posts' \in Seq(Post)
      /\ DOMAIN posts' = DOMAIN posts
      /\ Len(posts') = Len(posts)
      /\ posts'[i] = row
      /\ \A j \in DOMAIN posts : j # i => posts'[j] = posts[j]
      /\ \A j \in DOMAIN posts : /\ posts'[j].kind = posts[j].kind
                                 /\ posts'[j].conv = posts[j].conv
                                 /\ posts'[j].card = posts[j].card
  BY OnePostChanges
<1>2. card' \in 0..Len(posts)
  BY DEF ClientTypeOK
<1>3. ClientTypeOK' /\ Len(posts') <= MaxPosts
  BY <1>1, <1>2 DEF ClientTypeOK
<1>4. EventsAreOpen'
  BY <1>1 DEF EventsAreOpen
<1>5. OpenAreHere'
  BY <1>1 DEF OpenAreHere, OpenPosts
<1>6. CardIsHere'
  <2>1. CASE card' = i
    BY <1>1, <2>1 DEF OpenAreHere, OpenPosts, CardIsHere
  <2>2. CASE card' = card /\ card # 0
    <3>1. card \in DOMAIN posts
      BY <2>2 DEF ClientTypeOK
    <3> QED BY <1>1, <2>2, <3>1 DEF CardIsHere
  <2> QED BY <2>1, <2>2 DEF CardIsHere
<1>7. DecisionsReachTheirAsker'
  <2> SUFFICES ASSUME NEW j \in DOMAIN posts, posts[j].kind = "confirm"
               PROVE  \/ posts'[posts[j].card].conv = posts[j].conv
                      \/ posts[j].card \in left
    BY <1>1 DEF DecisionsReachTheirAsker
  <2>1. posts[posts[j].card].conv = posts[j].conv \/ posts[j].card \in left
    BY DEF DecisionsReachTheirAsker
  <2>2. posts[j].card \in DOMAIN posts
    BY DEF DecisionsAnswerACard
  <2> QED BY <1>1, <2>1, <2>2
<1>8. DecisionsAnswerACard'
  BY <1>1 DEF DecisionsAnswerACard
<1> QED BY <1>3, <1>4, <1>5, <1>6, <1>7, <1>8

-----------------------------------------------------------------------------
(* What the user does                                                      *)

LEMMA ConsumeSafe ==
  ASSUME ClientInv, NEW kind \in {"message", "confirm"}, NEW answered \in 0..Len(posts),
         Consume(kind, answered),
         kind = "confirm" => answered # 0 /\ answered = card,
         lastMessage' \in BOOLEAN, early' \in BOOLEAN
  PROVE  ClientInv'
<1> USE DEF ClientInv
<1> DEFINE row == [kind |-> kind, conv |-> active, card |-> answered,
                   state |-> "sent", event |-> "none"]
           new == Len(posts) + 1
<1>1. /\ Len(posts) < MaxPosts
      /\ posts' = Append(posts, row)
      /\ card' = 0 /\ isStreaming' = TRUE /\ banner' = "none"
      /\ UNCHANGED <<active, pause, left>>
  BY DEF Consume
<1>2. posts \in Seq(Post) /\ Len(posts) \in Nat /\ active \in Threads
  BY DEF ClientTypeOK
<1>3. row \in Post
  BY <1>1, <1>2 DEF Post, Serving
<1>4. /\ row.kind = kind /\ row.conv = active /\ row.card = answered
      /\ row.event = "none"
  OBVIOUS
<1> HIDE DEF row
<1>5. /\ posts' \in Seq(Post)
      /\ Len(posts') = new
      /\ DOMAIN posts' = DOMAIN posts \union {new}
      /\ DOMAIN posts \subseteq DOMAIN posts'
      /\ new \notin DOMAIN posts
      /\ posts'[new] = row
      /\ \A j \in DOMAIN posts : posts'[j] = posts[j]
  BY <1>1, <1>2, <1>3
<1>6. ClientTypeOK' /\ Len(posts') <= MaxPosts
  <2>1. 0 \in 0..Len(posts') /\ 0..Len(posts) \subseteq 0..Len(posts')
    BY <1>2, <1>5
  <2>2. Len(posts') <= MaxPosts
    BY <1>1, <1>2, <1>5
  <2>3. pause' \in [Threads -> 0..Len(posts')]
    BY <1>1, <2>1 DEF ClientTypeOK
  <2>4. left' \subseteq DOMAIN posts'
    BY <1>1, <1>5 DEF ClientTypeOK
  <2> QED BY <1>1, <1>5, <2>1, <2>2, <2>3, <2>4 DEF ClientTypeOK
<1> HIDE DEF new
<1>7. EventsAreOpen'
  BY <1>4, <1>5 DEF EventsAreOpen
<1>8. OpenAreHere' /\ CardIsHere'
  BY <1>1, <1>4, <1>5 DEF OpenAreHere, OpenPosts, CardIsHere
<1>9. kind = "confirm" => answered \in DOMAIN posts
  BY <1>2
<1>10. DecisionsAnswerACard'
  BY <1>4, <1>5, <1>9 DEF DecisionsAnswerACard
<1>11. DecisionsReachTheirAsker'
  <2> SUFFICES ASSUME NEW j \in DOMAIN posts', posts'[j].kind = "confirm"
               PROVE  \/ posts'[posts'[j].card].conv = posts'[j].conv
                      \/ posts'[j].card \in left
    BY <1>1 DEF DecisionsReachTheirAsker
  <2>1. CASE j = new
    BY <1>4, <1>5, <1>9, <2>1 DEF CardIsHere
  <2>2. CASE j # new
    BY <1>5, <2>2 DEF DecisionsAnswerACard, DecisionsReachTheirAsker
  <2> QED BY <2>1, <2>2
<1> QED BY <1>6, <1>7, <1>8, <1>10, <1>11

LEMMA SelectSafe == ASSUME ClientInv, NEW v \in Threads, SelectConversation(v) PROVE ClientInv'
<1>1. /\ active' = v /\ card' = 0 /\ banner' = "none" /\ lastMessage' = FALSE
      /\ left' = left \union OpenPosts
      /\ UNCHANGED <<isStreaming, posts, pause, early>>
  BY DEF SelectConversation
<1>2. OpenPosts \subseteq DOMAIN posts /\ OpenPosts' = OpenPosts
  BY <1>1 DEF OpenPosts
<1>3. ClientTypeOK'
  <2>1. 0 \in 0..Len(posts)
    BY DEF ClientInv, ClientTypeOK
  <2> QED BY <1>1, <1>2, <2>1 DEF ClientInv, ClientTypeOK
<1>4. OpenAreHere' /\ CardIsHere'
  BY <1>1, <1>2 DEF OpenAreHere, CardIsHere
<1> QED BY <1>1, <1>3, <1>4 DEF ClientInv, EventsAreOpen, DecisionsAnswerACard,
           DecisionsReachTheirAsker

-----------------------------------------------------------------------------
(* The steps of a stream, as changes of one post                           *)

LEMMA ServedPost ==
  ASSUME ClientTypeOK, NEW i \in DOMAIN posts, NEW state \in Serving \union Over \union {"settled"},
         posts' = [posts EXCEPT ![i].state = state]
  PROVE  /\ SamePost(i, [posts[i] EXCEPT !.state = state])
         /\ posts'[i].state = state /\ posts'[i].event = posts[i].event
<1>1. posts[i] \in Post
  BY DEF ClientTypeOK
<1> QED BY <1>1 DEF ClientTypeOK, SamePost, Post

LEMMA ServeSafe ==
  ASSUME ClientInv, NEW i \in DOMAIN posts, NEW state \in Serving \union Over,
         Serve(i, state), posts[i].state \in Serving,
         state \in Fresh => posts[i].state \in Fresh,
         pause' \in [Threads -> 0..Len(posts)]
  PROVE  ClientInv'
<1> DEFINE row == [posts[i] EXCEPT !.state = state]
<1>1. ClientTypeOK /\ posts[i] \in Post
  BY DEF ClientInv, ClientTypeOK
<1>2. /\ SamePost(i, row)
      /\ UNCHANGED <<active, card, banner, isStreaming, lastMessage, left, early>>
  BY <1>1, ServedPost DEF Serve
<1>3. posts[i].state # "settled" /\ state # "settled"
  BY DEF Serving, Over
<1>4. row.event # "none" => row.state \notin Fresh \union {"settled"}
  <2>1. row.state = state /\ row.event = posts[i].event
    BY <1>1 DEF Post
  <2> QED BY <1>3, <2>1 DEF ClientInv, EventsAreOpen
<1> HIDE DEF row
<1> QED BY <1>1, <1>2, <1>3, <1>4, StreamStepSafe DEF ClientTypeOK

LEMMA EventSafe ==
  ASSUME ClientInv, NEW i \in DOMAIN posts, posts[i].state = "running",
         NEW state \in {"closing", "raised"}, NEW event \in {"confirm_required", "error"},
         posts' = [posts EXCEPT ![i].state = state, ![i].event = event],
         pause' = [pause EXCEPT ![posts[i].conv] = i],
         UNCHANGED <<active, card, banner, isStreaming, lastMessage, left, early>>
  PROVE  ClientInv'
<1> DEFINE row == [posts[i] EXCEPT !.state = state, !.event = event]
<1>1. ClientTypeOK /\ posts[i] \in Post /\ i \in 0..Len(posts)
  BY DEF ClientInv, ClientTypeOK
<1>2. posts' = [posts EXCEPT ![i] = row]
  BY <1>1 DEF ClientTypeOK, Post
<1>3. row \in Post /\ row.state = state
  BY <1>1 DEF Post, Serving, Over
<1>4. SamePost(i, row)
  BY <1>1, <1>2, <1>3 DEF SamePost, Post
<1>5. pause' \in [Threads -> 0..Len(posts)]
  BY <1>1 DEF ClientTypeOK, Post
<1>6. posts[i].state # "settled" /\ row.state \notin Fresh \union {"settled"}
  BY <1>3 DEF Fresh
<1> HIDE DEF row
<1> QED BY <1>1, <1>4, <1>5, <1>6, StreamStepSafe DEF ClientTypeOK

LEMMA HandleEventSafe == ASSUME ClientInv, NEW i \in DOMAIN posts, HandleEvent(i) PROVE ClientInv'
<1> DEFINE row == [posts[i] EXCEPT !.event = "none"]
<1>1. ClientTypeOK /\ posts[i] \in Post
  BY DEF ClientInv, ClientTypeOK
<1>2. /\ posts' = [posts EXCEPT ![i] = row]
      /\ card' \in {card, i} /\ banner' \in {"none", "final", "retryable"}
      /\ UNCHANGED <<active, isStreaming, lastMessage, pause, left, early>>
  BY <1>1 DEF HandleEvent, ClientTypeOK, Post
<1>3. row \in Post /\ row.event = "none" /\ SamePost(i, row)
  BY <1>1, <1>2 DEF SamePost, Post
<1>4. posts[i].state # "settled"
  BY DEF HandleEvent, ClientInv, EventsAreOpen
<1> HIDE DEF row
<1> QED BY <1>1, <1>2, <1>3, <1>4, StreamStepSafe DEF ClientTypeOK

LEMMA SettleSafe == ASSUME ClientInv, NEW i \in DOMAIN posts, Settle(i) PROVE ClientInv'
<1> DEFINE row == [posts[i] EXCEPT !.state = "settled"]
<1>1. ClientTypeOK /\ posts[i] \in Post
  BY DEF ClientInv, ClientTypeOK
<1>2. /\ SamePost(i, row) /\ posts[i].event = "none" /\ row.event = posts[i].event
      /\ posts[i].state # "settled"
      /\ isStreaming' = FALSE
      /\ UNCHANGED <<active, card, lastMessage, pause, left, early>>
  BY <1>1, ServedPost DEF Settle, Over, Post
<1>3. banner' \in {"none", "final", "retryable"}
  BY <1>1 DEF Settle, BannerFor, Over, ClientTypeOK
<1> HIDE DEF row
<1> QED BY <1>1, <1>2, <1>3, StreamStepSafe DEF ClientTypeOK

LEMMA PostStepSafe == ASSUME ClientInv, NEW i \in DOMAIN posts, PostStep(i) PROVE ClientInv'
<1> USE DEF Serving, Over, Fresh
<1>1. /\ pause \in [Threads -> 0..Len(posts)]
      /\ posts[i].conv \in Threads
      /\ i \in 0..Len(posts) /\ 0 \in 0..Len(posts)
  <2>1. posts[i] \in Post /\ Len(posts) \in Nat /\ i \in 1..Len(posts)
    BY DEF ClientInv, ClientTypeOK
  <2> QED BY <2>1 DEF ClientInv, ClientTypeOK, Post
<1>2. CASE Receive(i)
  <2>1. PICK state \in {"needs_confirm", "needs_message", "queued", "refused", "unavailable"} :
          Serve(i, state)
    BY <1>2 DEF Receive
  <2> QED BY <1>1, <1>2, <2>1, ServeSafe DEF Receive
<1>3. CASE StartTurn(i)
  <2>1. pause' \in [Threads -> 0..Len(posts)]
    BY <1>1, <1>3 DEF StartTurn
  <2> QED BY <1>3, <2>1, ServeSafe DEF StartTurn
<1>4. CASE Complete(i)
  BY <1>1, <1>4, ServeSafe DEF Complete
<1>5. CASE Close(i)
  BY <1>1, <1>5, ServeSafe DEF Close
<1>6. CASE Break(i)
  <2>1. pause' \in [Threads -> 0..Len(posts)]
    BY <1>1, <1>6 DEF Break
  <2> QED BY <1>6, <2>1, ServeSafe DEF Break
<1>7. CASE Pause(i)
  BY <1>7, EventSafe DEF Pause
<1>8. CASE Raise(i)
  BY <1>8, EventSafe DEF Raise
<1> QED BY <1>2, <1>3, <1>4, <1>5, <1>6, <1>7, <1>8, HandleEventSafe, SettleSafe DEF PostStep

LEMMA ClientStepSafe == ClientInv /\ [ClientNext]_clientVars => ClientInv'
<1> SUFFICES ASSUME ClientInv, [ClientNext]_clientVars PROVE ClientInv'
  OBVIOUS
<1>1. 0 \in 0..Len(posts) /\ card \in 0..Len(posts) /\ lastMessage \in BOOLEAN /\ early \in BOOLEAN
  BY DEF ClientInv, ClientTypeOK
<1>2. CASE SendMessage
  BY <1>1, <1>2, ConsumeSafe DEF SendMessage
<1>3. CASE ConfirmPending
  BY <1>1, <1>3, ConsumeSafe DEF ConfirmPending
<1>4. CASE Retry
  BY <1>1, <1>4, ConsumeSafe DEF Retry
<1>5. CASE Dismiss
  BY <1>5 DEF Dismiss, ClientInv, ClientTypeOK, EventsAreOpen, OpenAreHere, OpenPosts, CardIsHere,
     DecisionsAnswerACard, DecisionsReachTheirAsker
<1>6. CASE UNCHANGED clientVars
  BY <1>6 DEF clientVars, ClientInv, ClientTypeOK, EventsAreOpen, OpenAreHere, OpenPosts,
     CardIsHere, DecisionsAnswerACard, DecisionsReachTheirAsker
<1> QED BY <1>2, <1>3, <1>4, <1>5, <1>6, SelectSafe, PostStepSafe DEF ClientNext

LEMMA ClientInvariant == ClientSpec => []ClientInv
<1>1. ClientInit => ClientInv
  <2> SUFFICES ASSUME ClientInit PROVE ClientInv
    OBVIOUS
  <2>1. posts \in Seq(Post) /\ Len(posts) = 0 /\ DOMAIN posts = {} /\ 0 \in 0..Len(posts)
    BY DEF ClientInit
  <2>2. ClientTypeOK
    BY <2>1 DEF ClientInit, ClientTypeOK
  <2> QED BY <2>1, <2>2 DEF ClientInit, ClientInv, EventsAreOpen, OpenAreHere, OpenPosts,
             CardIsHere, DecisionsAnswerACard, DecisionsReachTheirAsker
<1> QED BY <1>1, ClientStepSafe, PTL DEF ClientSpec

(* Whatever the user clicks and however streams fail: a decision goes to the
   conversation that asked, unless that stream was left.                   *)
THEOREM DecisionsAreDelivered == ClientSpec => []DecisionsReachTheirAsker
BY ClientInvariant, PTL DEF ClientInv

-----------------------------------------------------------------------------
(* The patient user                                                        *)

Patient == left = {} /\ ~early

(* One stream at most is read, and none while the input is enabled; a card
   is that of the stream read last, of which the server knows as well.     *)
PatientInv ==
  Patient =>
    /\ \A i, j \in OpenPosts : i = j
    /\ ~isStreaming => OpenPosts = {}
    /\ card # 0 =>
         /\ posts[card].conv = active /\ pause[active] = card
         /\ posts[card].state \notin Fresh
         /\ \A i \in OpenPosts : i = card
    /\ \A i \in DOMAIN posts :
         posts[i].event = "confirm_required" => pause[posts[i].conv] = i

(* Before its turn has paused or ended, an open stream is the only one that
   could have an event or a card, and has neither.                         *)
LEMMA PatientStream ==
  ASSUME ClientInv, PatientInv, NEW i \in OpenPosts, NEW row, SamePost(i, row),
         UNCHANGED <<active, card, left, early>>,
         isStreaming' = isStreaming \/ row.state = "settled",
         pause' = pause \/ posts[i].state \in Fresh,
         row.state \in Fresh => posts[i].state \in Fresh,
         row.event = "confirm_required" => pause'[posts[i].conv] = i
  PROVE  PatientInv'
<1> SUFFICES ASSUME Patient PROVE PatientInv'
  BY DEF PatientInv, Patient
<1>1. i \in DOMAIN posts /\ ClientTypeOK
  BY DEF OpenPosts, ClientInv
<1>2. /\ DOMAIN posts' = DOMAIN posts
      /\ posts'[i] = row
      /\ \A j \in DOMAIN posts : j # i => posts'[j] = posts[j]
      /\ \A j \in DOMAIN posts : posts'[j].conv = posts[j].conv
  BY <1>1, OnePostChanges
<1>3. OpenPosts = {i}
  BY DEF PatientInv
<1>4. OpenPosts' \subseteq {i} /\ (row.state = "settled" => OpenPosts' = {})
  BY <1>2, <1>3 DEF OpenPosts
<1>5. ~isStreaming' => OpenPosts' = {}
  BY <1>3, <1>4 DEF PatientInv
<1>6. ASSUME card # 0
      PROVE  /\ posts'[card].conv = active /\ pause'[active] = card
             /\ posts'[card].state \notin Fresh
             /\ i = card
  <2>1. i = card /\ pause[active] = card /\ posts[card].conv = active /\ posts[i].state \notin Fresh
    BY <1>6 DEF PatientInv
  <2> QED BY <1>1, <1>2, <2>1
<1>7. ASSUME NEW j \in DOMAIN posts, posts'[j].event = "confirm_required"
      PROVE  pause'[posts'[j].conv] = j
  <2>1. CASE j = i
    BY <1>2, <1>7, <2>1
  <2>2. CASE j # i
    <3>1. posts[j].event = "confirm_required"
      BY <1>2, <1>7, <2>2
    <3>2. j \in OpenPosts
      BY <3>1 DEF ClientInv, EventsAreOpen, OpenPosts
    <3> QED BY <1>3, <2>2, <3>2
  <2> QED BY <2>1, <2>2
<1> QED BY <1>2, <1>4, <1>5, <1>6, <1>7 DEF PatientInv, Patient

LEMMA PatientServe ==
  ASSUME ClientInv, PatientInv, NEW i \in DOMAIN posts, NEW state \in Serving \union Over,
         Serve(i, state), posts[i].state \in Serving,
         state \in Fresh => posts[i].state \in Fresh,
         pause' = pause \/ posts[i].state \in Fresh
  PROVE  PatientInv'
<1> DEFINE row == [posts[i] EXCEPT !.state = state]
<1>1. ClientTypeOK /\ posts[i] \in Post /\ i \in OpenPosts
  BY DEF ClientInv, ClientTypeOK, OpenPosts, Serving
<1>2. SamePost(i, row) /\ UNCHANGED <<active, card, isStreaming, left, early>>
  BY <1>1, ServedPost DEF Serve
<1>3. row.state = state /\ row.event = posts[i].event
  BY <1>1 DEF Post
<1>4. row.event = "confirm_required" => posts[i].state \notin Fresh
  BY <1>3 DEF ClientInv, EventsAreOpen
<1> HIDE DEF row
<1>5. ASSUME Patient, row.event = "confirm_required"
      PROVE  pause'[posts[i].conv] = i
  BY <1>3, <1>4, <1>5 DEF PatientInv
<1>6. CASE Patient
  BY <1>1, <1>2, <1>3, <1>5, <1>6, PatientStream
<1>7. CASE ~Patient
  BY <1>2, <1>7 DEF PatientInv, Patient
<1> QED BY <1>6, <1>7

LEMMA PatientEvent ==
  ASSUME ClientInv, PatientInv, NEW i \in DOMAIN posts, posts[i].state = "running",
         NEW state \in {"closing", "raised"}, NEW event \in {"confirm_required", "error"},
         posts' = [posts EXCEPT ![i].state = state, ![i].event = event],
         pause' = [pause EXCEPT ![posts[i].conv] = i],
         UNCHANGED <<active, card, banner, isStreaming, lastMessage, left, early>>
  PROVE  PatientInv'
<1> DEFINE row == [posts[i] EXCEPT !.state = state, !.event = event]
<1>1. ClientTypeOK /\ posts[i] \in Post /\ i \in OpenPosts
  BY DEF ClientInv, ClientTypeOK, OpenPosts
<1>2. posts' = [posts EXCEPT ![i] = row]
  BY <1>1 DEF ClientTypeOK, Post
<1>3. row \in Post /\ row.state = state
  BY <1>1 DEF Post, Serving, Over
<1>4. SamePost(i, row)
  BY <1>1, <1>2, <1>3 DEF SamePost, Post
<1>5. pause'[posts[i].conv] = i
  BY <1>1 DEF ClientTypeOK, Post
<1>6. posts[i].state \in Fresh /\ row.state \notin Fresh
  BY <1>3 DEF Fresh
<1> HIDE DEF row
<1> QED BY <1>1, <1>4, <1>5, <1>6, PatientStream

LEMMA PatientHandleEvent ==
  ASSUME ClientInv, PatientInv, NEW i \in DOMAIN posts, HandleEvent(i)
  PROVE  PatientInv'
<1> SUFFICES ASSUME Patient PROVE PatientInv'
  BY DEF PatientInv, Patient, HandleEvent
<1> DEFINE row == [posts[i] EXCEPT !.event = "none"]
<1>1. ClientTypeOK /\ posts[i] \in Post
  BY DEF ClientInv, ClientTypeOK
<1>2. posts[i].state \notin Fresh \union {"settled"} /\ i \in OpenPosts
  BY DEF HandleEvent, ClientInv, EventsAreOpen, OpenPosts
<1>3. posts' = [posts EXCEPT ![i] = row] /\ UNCHANGED <<active, isStreaming, pause, left, early>>
  BY <1>1 DEF HandleEvent, ClientTypeOK, Post
<1>4. SamePost(i, row) /\ row.event = "none" /\ row.state = posts[i].state
  BY <1>1, <1>3 DEF SamePost, Post
<1> HIDE DEF row
<1>5. CASE card' = card
  BY <1>2, <1>3, <1>4, <1>5, PatientStream
<1>6. CASE card' # card
  <2>1. card' = i /\ posts[i].event = "confirm_required"
    BY <1>6 DEF HandleEvent
  <2>2. /\ DOMAIN posts' = DOMAIN posts
        /\ posts'[i] = row
        /\ \A j \in DOMAIN posts : j # i => posts'[j] = posts[j]
        /\ posts'[i].conv = posts[i].conv
    BY <1>1, <1>4, OnePostChanges
  <2>3. posts[i].conv = active /\ pause[active] = i
    BY <1>2, <2>1 DEF ClientInv, OpenAreHere, Patient, PatientInv
  <2>4. OpenPosts' = OpenPosts
    BY <1>4, <2>2 DEF OpenPosts
  <2>5. \A j \in OpenPosts : j = i
    BY <1>2 DEF PatientInv
  <2>6. ASSUME NEW j \in DOMAIN posts, posts'[j].event = "confirm_required"
        PROVE  pause'[posts'[j].conv] = j
    BY <1>3, <1>4, <2>2, <2>6 DEF PatientInv
  <2>7. posts'[i].state \notin Fresh
    BY <1>2, <1>4, <2>2
  <2> QED BY <1>3, <2>1, <2>2, <2>3, <2>4, <2>5, <2>6, <2>7 DEF PatientInv
<1> QED BY <1>5, <1>6

LEMMA PatientSettle ==
  ASSUME ClientInv, PatientInv, NEW i \in DOMAIN posts, Settle(i)
  PROVE  PatientInv'
<1> DEFINE row == [posts[i] EXCEPT !.state = "settled"]
<1>1. ClientTypeOK /\ posts[i] \in Post /\ i \in OpenPosts
  BY DEF ClientInv, ClientTypeOK, OpenPosts, Settle, Over
<1>2. /\ SamePost(i, row) /\ UNCHANGED <<active, card, pause, left, early>>
      /\ row.state = "settled" /\ row.event = "none"
  BY <1>1, ServedPost DEF Settle, Post
<1> HIDE DEF row
<1> QED BY <1>1, <1>2, PatientStream DEF Fresh

LEMMA PatientPostStep ==
  ASSUME ClientInv, PatientInv, NEW i \in DOMAIN posts, PostStep(i)
  PROVE  PatientInv'
<1> USE DEF Serving, Over, Fresh
<1>1. CASE Receive(i)
  <2>1. PICK state \in {"needs_confirm", "needs_message", "queued", "refused", "unavailable"} :
          Serve(i, state)
    BY <1>1 DEF Receive
  <2> QED BY <1>1, <2>1, PatientServe DEF Receive
<1>2. CASE StartTurn(i)
  BY <1>2, PatientServe DEF StartTurn
<1>3. CASE Complete(i)
  BY <1>3, PatientServe DEF Complete
<1>4. CASE Close(i)
  BY <1>4, PatientServe DEF Close
<1>5. CASE Break(i)
  BY <1>5, PatientServe DEF Break
<1>6. CASE Pause(i)
  BY <1>6, PatientEvent DEF Pause
<1>7. CASE Raise(i)
  BY <1>7, PatientEvent DEF Raise
<1> QED BY <1>1, <1>2, <1>3, <1>4, <1>5, <1>6, <1>7, PatientHandleEvent, PatientSettle
       DEF PostStep

(* A patient user posts only when nothing is open.                         *)
LEMMA PatientConsume ==
  ASSUME ClientInv, PatientInv, NEW kind, NEW answered, Consume(kind, answered),
         early' \in BOOLEAN, Patient' => Patient /\ OpenPosts = {}
  PROVE  PatientInv'
<1> SUFFICES ASSUME Patient, OpenPosts = {} PROVE PatientInv'
  BY DEF PatientInv
<1> DEFINE row == [kind |-> kind, conv |-> active, card |-> answered,
                   state |-> "sent", event |-> "none"]
           new == Len(posts) + 1
<1>1. /\ posts' = Append(posts, row)
      /\ card' = 0 /\ isStreaming' = TRUE
      /\ UNCHANGED <<active, pause, left>>
  BY DEF Consume
<1>2. posts \in Seq(Post)
  BY DEF ClientInv, ClientTypeOK
<1>3. row.event = "none"
  OBVIOUS
<1> HIDE DEF row
<1>4. /\ DOMAIN posts' = DOMAIN posts \union {new}
      /\ posts'[new] = row
      /\ \A j \in DOMAIN posts : posts'[j] = posts[j]
  BY <1>1, <1>2
<1> HIDE DEF new
<1>5. OpenPosts' \subseteq {new}
  BY <1>4 DEF OpenPosts
<1>6. \A j \in DOMAIN posts' : posts'[j].event = "confirm_required" => j \in DOMAIN posts
  BY <1>3, <1>4
<1> QED BY <1>1, <1>4, <1>5, <1>6 DEF PatientInv

LEMMA PatientSelect ==
  ASSUME ClientInv, PatientInv, NEW v \in Threads, SelectConversation(v)
  PROVE  PatientInv'
<1>1. /\ left' = left \union OpenPosts /\ card' = 0
      /\ UNCHANGED <<isStreaming, posts, pause, early>>
  BY DEF SelectConversation
<1>2. Patient' => Patient
  BY <1>1 DEF Patient
<1>3. OpenPosts' = OpenPosts
  BY <1>1 DEF OpenPosts
<1> QED BY <1>1, <1>2, <1>3 DEF PatientInv

LEMMA PatientStepSafe == ClientInv /\ PatientInv /\ [ClientNext]_clientVars => PatientInv'
<1> SUFFICES ASSUME ClientInv, PatientInv, [ClientNext]_clientVars PROVE PatientInv'
  OBVIOUS
<1>1. early \in BOOLEAN
  BY DEF ClientInv, ClientTypeOK
<1>2. CASE SendMessage
  <2>1. Patient' => Patient /\ OpenPosts = {}
    BY <1>2 DEF SendMessage, Consume, InputDisabled, PatientInv, Patient
  <2> QED BY <1>1, <1>2, <2>1, PatientConsume DEF SendMessage
<1>3. CASE ConfirmPending
  <2>1. Patient' => Patient /\ OpenPosts = {}
    BY <1>3 DEF ConfirmPending, Consume, Patient
  <2> QED BY <1>1, <1>3, <2>1, PatientConsume DEF ConfirmPending
<1>4. CASE Retry
  <2>1. Patient' => Patient /\ OpenPosts = {}
    BY <1>4 DEF Retry, Consume, Patient
  <2> QED BY <1>1, <1>4, <2>1, PatientConsume DEF Retry
<1>5. CASE Dismiss
  BY <1>5 DEF Dismiss, PatientInv, Patient, OpenPosts
<1>6. CASE UNCHANGED clientVars
  BY <1>6 DEF clientVars, PatientInv, Patient, OpenPosts
<1> QED BY <1>2, <1>3, <1>4, <1>5, <1>6, PatientSelect, PatientPostStep DEF ClientNext

(* Disabling the input is enough for a user who waits for every stream: one
   request at a time, and the card shown is of the pause the server is in.  *)
THEOREM PatienceIsEnough == ClientSpec => []PatientUserIsSerial
<1>1. ClientInit => PatientInv
  BY DEF ClientInit, PatientInv, OpenPosts
<1>2. PatientInv => PatientUserIsSerial
  BY DEF PatientInv, Patient, PatientUserIsSerial
<1> QED BY <1>1, <1>2, PatientStepSafe, ClientInvariant, PTL DEF ClientSpec
=============================================================================
