----------------------------- MODULE ChatClient -----------------------------
(***************************************************************************)
(* One tab of the Vue client: useChat with the buttons of ChatView that    *)
(* call it, several conversations, and the streams of the chat requests it *)
(* has posted.  A stream goes on when the user turns to another            *)
(* conversation, and its events reach the one state useChat has.  Of the   *)
(* server only what the tab can observe is here: per conversation the lock *)
(* and the pause; see ChatSession for the rest.                            *)
(***************************************************************************)
EXTENDS Naturals, Sequences

CONSTANTS
  Threads,      \* the user's conversations
  MaxPosts,     \* bound: requests to /chat
  StreamsBreak  \* may turns raise, requests fail and streams be cut off?

ASSUME ChatClientAssumption == MaxPosts \in Nat /\ StreamsBreak \in BOOLEAN

VARIABLES
  active,       \* activeConversationId
  card,         \* pendingConfirmation: the post whose turn asked, 0 if none
  banner,       \* error, by what ErrorBanner offers for it
  isStreaming,
  lastMessage,  \* is there a message to retry?
  posts,        \* the requests posted, in order
  pause,        \* server: the post whose turn a conversation is paused in, 0 if none
  left,         \* history: posts still open when the user selected a conversation
  early         \* history: did the user decide or retry while a post was open?

clientVars == <<active, card, banner, isStreaming, lastMessage, posts, pause, left, early>>

Serving == {"sent", "queued", "running", "closing"}
Over == {"closed", "raised", "broken", "refused", "unavailable", "needs_confirm", "needs_message"}
Post == [kind : {"message", "confirm"}, conv : Threads, card : 0..MaxPosts,
         state : Serving \union Over \union {"settled"},
         event : {"none", "confirm_required", "error"}]

ClientTypeOK ==
  /\ active \in Threads
  /\ card \in 0..Len(posts)
  /\ banner \in {"none", "final", "retryable"}
  /\ isStreaming \in BOOLEAN
  /\ lastMessage \in BOOLEAN
  /\ posts \in Seq(Post)
  /\ pause \in [Threads -> 0..Len(posts)]
  /\ left \subseteq DOMAIN posts
  /\ early \in BOOLEAN

ClientInit ==
  /\ active \in Threads
  /\ card = 0
  /\ banner = "none"
  /\ isStreaming = FALSE
  /\ lastMessage = FALSE
  /\ posts = <<>>
  /\ pause = [v \in Threads |-> 0]
  /\ left = {}
  /\ early = FALSE

OpenPosts == {i \in DOMAIN posts : posts[i].state # "settled"}

-----------------------------------------------------------------------------
(* The user                                                                *)

(* consume, from its start to the fetch                                    *)
Consume(kind, answered) ==
  /\ Len(posts) < MaxPosts
  /\ posts' = Append(posts, [kind |-> kind, conv |-> active, card |-> answered,
                             state |-> "sent", event |-> "none"])
  /\ card' = 0
  /\ isStreaming' = TRUE
  /\ banner' = "none"
  /\ UNCHANGED <<active, pause, left>>

InputDisabled_ifCard == card # 0

InputDisabled == isStreaming \/ card # 0

SendMessage ==
  /\ ~InputDisabled
  /\ Consume("message", 0)
  /\ lastMessage' = TRUE
  /\ UNCHANGED early

(* The card can be answered while the stream that brought it is open.      *)
ConfirmPending ==
  /\ card # 0
  /\ Consume("confirm", card)
  /\ early' = (early \/ OpenPosts # {})
  /\ UNCHANGED lastMessage

Retry ==
  /\ banner = "retryable"
  /\ lastMessage
  /\ Consume("message", 0)
  /\ early' = (early \/ OpenPosts # {})
  /\ UNCHANGED lastMessage

Dismiss ==
  /\ banner # "none"
  /\ banner' = "none"
  /\ UNCHANGED <<active, card, isStreaming, lastMessage, posts, pause, left, early>>

SelectConversation_keepsCard(v) ==
  /\ active' = v
  /\ banner' = "none"
  /\ lastMessage' = FALSE
  /\ left' = left \union OpenPosts
  /\ UNCHANGED <<card, isStreaming, posts, pause, early>>

(* selectConversation resets what useChat shows; streams and isStreaming
   go on.                                                                  *)
SelectConversation(v) ==
  /\ active' = v
  /\ card' = 0
  /\ banner' = "none"
  /\ lastMessage' = FALSE
  /\ left' = left \union OpenPosts
  /\ UNCHANGED <<isStreaming, posts, pause, early>>

-----------------------------------------------------------------------------
(* The streams, on the client's side                                       *)

(* handleEvent, whichever conversation is active by now                    *)
HandleEvent(i) ==
  /\ posts[i].event # "none"
  /\ posts' = [posts EXCEPT ![i].event = "none"]
  /\ IF posts[i].event = "confirm_required"
     THEN card' = i /\ UNCHANGED banner
     ELSE banner' = "final" /\ UNCHANGED card
  /\ UNCHANGED <<active, isStreaming, lastMessage, pause, left, early>>

(* toDisplayError; an exception that is no ApiError may be retried, too.   *)
BannerFor(state) ==
  CASE state \in {"closed", "raised"}                            -> banner
    [] state \in {"refused", "needs_confirm", "needs_message"}   -> "final"
    [] state \in {"unavailable", "broken"}                       -> "retryable"

(* The loop over the stream ends or throws, and finally runs.              *)
Settle(i) ==
  /\ posts[i].state \in Over
  /\ posts[i].event = "none"
  /\ posts' = [posts EXCEPT ![i].state = "settled"]
  /\ banner' = BannerFor(posts[i].state)
  /\ isStreaming' = FALSE
  /\ UNCHANGED <<active, card, lastMessage, pause, left, early>>

-----------------------------------------------------------------------------
(* The server                                                              *)

Serve(i, state) ==
  /\ posts' = [posts EXCEPT ![i].state = state]
  /\ UNCHANGED <<active, card, banner, isStreaming, lastMessage, left, early>>

(* chat() answers at once or decides what the request means.               *)
Receive(i) ==
  /\ posts[i].state = "sent"
  /\ LET paused == pause[posts[i].conv] # 0 IN
     \/ Serve(i, CASE posts[i].kind = "message" /\ paused  -> "needs_confirm"
                   [] posts[i].kind = "confirm" /\ ~paused -> "needs_message"
                   [] OTHER                                -> "queued")
     \/ StreamsBreak /\ \E state \in {"refused", "unavailable"} : Serve(i, state)
  /\ UNCHANGED pause

(* The turn gets the lock of its thread; whatever pause there is ends.     *)
StartTurn(i) ==
  /\ posts[i].state = "queued"
  /\ \A j \in DOMAIN posts : posts[j].conv = posts[i].conv => posts[j].state # "running"
  /\ Serve(i, "running")
  /\ pause' = [pause EXCEPT ![posts[i].conv] = 0]

(* The confirm node interrupts the turn; the stream stays open to be billed. *)
Pause(i) ==
  /\ posts[i].state = "running"
  /\ posts' = [posts EXCEPT ![i].state = "closing", ![i].event = "confirm_required"]
  /\ pause' = [pause EXCEPT ![posts[i].conv] = i]
  /\ UNCHANGED <<active, card, banner, isStreaming, lastMessage, left, early>>

Complete(i) ==
  /\ posts[i].state = "running"
  /\ Serve(i, "closing")
  /\ UNCHANGED pause

Close(i) ==
  /\ posts[i].state = "closing"
  /\ Serve(i, "closed")
  /\ UNCHANGED pause

(* A turn that raises leaves its thread with a next node: to chat() that is
   a pause, of which no card tells.                                        *)
Raise(i) ==
  /\ StreamsBreak
  /\ posts[i].state = "running"
  /\ posts' = [posts EXCEPT ![i].state = "raised", ![i].event = "error"]
  /\ pause' = [pause EXCEPT ![posts[i].conv] = i]
  /\ UNCHANGED <<active, card, banner, isStreaming, lastMessage, left, early>>

(* The connection is cut, which cancels a turn wherever it is.             *)
Break(i) ==
  /\ StreamsBreak
  /\ posts[i].state \in Serving
  /\ Serve(i, "broken")
  /\ \/ UNCHANGED pause
     \/ posts[i].state = "running" /\ pause' = [pause EXCEPT ![posts[i].conv] = i]

PostStep(i) ==
  \/ HandleEvent(i) \/ Settle(i) \/ Receive(i) \/ StartTurn(i)
  \/ Pause(i) \/ Complete(i) \/ Close(i) \/ Raise(i) \/ Break(i)

ClientNext ==
  \/ SendMessage \/ ConfirmPending \/ Retry \/ Dismiss
  \/ \E v \in Threads : SelectConversation(v)
  \/ \E i \in DOMAIN posts : PostStep(i)

ClientSpec == ClientInit /\ [][ClientNext]_clientVars

-----------------------------------------------------------------------------
(* A user who neither changes the conversation nor answers a card nor retries
   while a stream is open has one request in progress at most, and the card
   such a user sees is that of the pause the active conversation is in.  This
   is the whole of what disabling the input achieves.                      *)
PatientUserIsSerial ==
  left = {} /\ ~early =>
    /\ \A i, j \in OpenPosts : i = j
    /\ card # 0 => posts[card].conv = active /\ pause[active] = card

(* A decision goes to the conversation whose turn asked for it, unless the
   user changed the conversation while that turn was streaming, whatever else
   overlaps, fails or is retried.                                          *)
DecisionsReachTheirAsker ==
  \A i \in DOMAIN posts : posts[i].kind = "confirm" =>
    \/ posts[posts[i].card].conv = posts[i].conv
    \/ posts[i].card \in left

(* "The client isolates conversations by conversation_id": the answer to a
   card belongs to the conversation that asked, without exception.         *)
CardsAreNotCrossed ==
  \A i \in DOMAIN posts : posts[i].kind = "confirm" =>
    posts[posts[i].card].conv = posts[i].conv

(* "After a change of conversation and back, the next message goes on from
   the state the server has kept": to a patient user the server never answers
   that a confirmation is due, of which the tab shows nothing.             *)
MessagesContinue ==
  left = {} /\ ~early => \A i \in DOMAIN posts : posts[i].state # "needs_confirm"
=============================================================================
