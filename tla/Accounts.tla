------------------------------ MODULE Accounts ------------------------------
(***************************************************************************)
(* Registration, login and the ownership of conversations.  A token names  *)
(* an e-mail address, the current user is the first row of that address,   *)
(* and a conversation belongs to a row.  Requests of several clients       *)
(* interleave between the SELECT and the INSERT of a registration.         *)
(***************************************************************************)
EXTENDS Naturals, Sequences

CONSTANTS
  Clients,
  Emails,
  Passwords,
  MaxConversations,  \* bound: conversations ever created
  Nobody

ASSUME AccountsAssumption == MaxConversations \in Nat

Account == [email : Emails, password : Passwords]

VARIABLES
  users,          \* the rows of User, in the order of their ids
  pending,        \* a registration between its SELECT and its commit
  token,          \* the address in the token a client holds
  status,         \* the answer to the client's latest request
  conversations,  \* the user_id of each row of Conversation
  shown,          \* history: the password that earned the token
  opened          \* history: <<client, conversation, password>> let through

accountVars == <<users, pending, token, status, conversations, shown, opened>>

AccountsTypeOK ==
  /\ users \in Seq(Account)
  /\ pending \in [Clients -> Account \union {Nobody}]
  /\ token \in [Clients -> Emails \union {Nobody}]
  /\ status \in [Clients -> {"none", "200", "401", "404", "409", "500"}]
  /\ conversations \in Seq(DOMAIN users)
  /\ shown \in [Clients -> Passwords \union {Nobody}]
  /\ opened \subseteq Clients \X (DOMAIN conversations) \X Passwords

AccountsInit ==
  /\ users = <<>>
  /\ pending = [k \in Clients |-> Nobody]
  /\ token = [k \in Clients |-> Nobody]
  /\ status = [k \in Clients |-> "none"]
  /\ conversations = <<>>
  /\ shown = [k \in Clients |-> Nobody]
  /\ opened = {}

RowsOf(email) == {i \in DOMAIN users : users[i].email = email}
FirstRow(email) == CHOOSE i \in RowsOf(email) : \A j \in RowsOf(email) : i <= j

IssueToken(k, account) ==
  /\ token' = [token EXCEPT ![k] = account.email]
  /\ shown' = [shown EXCEPT ![k] = account.password]
  /\ status' = [status EXCEPT ![k] = "200"]

Register(k) ==
  /\ pending[k] = Nobody
  /\ \E account \in Account :
       IF RowsOf(account.email) = {}
       THEN pending' = [pending EXCEPT ![k] = account] /\ UNCHANGED status
       ELSE status' = [status EXCEPT ![k] = "409"] /\ UNCHANGED pending
  /\ UNCHANGED <<users, token, conversations, shown, opened>>

Insertable_always(account) == TRUE

(* the unique index on User.email                                          *)
Insertable(account) == RowsOf(account.email) = {}

(* The commit of register_user; IntegrityError is caught nowhere.          *)
CommitUser(k) ==
  /\ pending[k] # Nobody
  /\ pending' = [pending EXCEPT ![k] = Nobody]
  /\ IF Insertable(pending[k])
     THEN users' = Append(users, pending[k]) /\ IssueToken(k, pending[k])
     ELSE status' = [status EXCEPT ![k] = "500"] /\ UNCHANGED <<users, token, shown>>
  /\ UNCHANGED <<conversations, opened>>

Authenticated(account) ==
  /\ RowsOf(account.email) # {}
  /\ users[FirstRow(account.email)].password = account.password

Login(k) ==
  /\ \E account \in Account :
       IF Authenticated(account) THEN IssueToken(k, account)
       ELSE status' = [status EXCEPT ![k] = "401"] /\ UNCHANGED <<token, shown>>
  /\ UNCHANGED <<users, pending, conversations, opened>>

(* get_current_user; a token is missing or past its expiry otherwise.      *)
CurrentUser(k) == FirstRow(token[k])

ExpireToken(k) ==
  /\ token[k] # Nobody
  /\ token' = [token EXCEPT ![k] = Nobody]
  /\ shown' = [shown EXCEPT ![k] = Nobody]
  /\ UNCHANGED <<users, pending, status, conversations, opened>>

Unauthorized(k) ==
  /\ token[k] = Nobody
  /\ status' = [status EXCEPT ![k] = "401"]
  /\ UNCHANGED <<users, pending, token, conversations, shown, opened>>

CreateConversation(k) ==
  /\ token[k] # Nobody
  /\ Len(conversations) < MaxConversations
  /\ conversations' = Append(conversations, CurrentUser(k))
  /\ status' = [status EXCEPT ![k] = "200"]
  /\ UNCHANGED <<users, pending, token, shown, opened>>

Owns(k, i) == i \in DOMAIN conversations /\ conversations[i] = CurrentUser(k)

(* get_owned_conversation before a turn or a trace; a conversation that is
   another's and one that is not there get the same answer.                *)
OpenConversation(k, i) ==
  /\ token[k] # Nobody
  /\ IF Owns(k, i)
     THEN /\ opened' = opened \union {<<k, i, shown[k]>>}
          /\ status' = [status EXCEPT ![k] = "200"]
     ELSE status' = [status EXCEPT ![k] = "404"] /\ UNCHANGED opened
  /\ UNCHANGED <<users, pending, token, conversations, shown>>

AccountsNext ==
  \E k \in Clients :
    \/ Register(k) \/ CommitUser(k) \/ Login(k)
    \/ ExpireToken(k) \/ Unauthorized(k) \/ CreateConversation(k)
    \/ \E i \in 1..MaxConversations : OpenConversation(k, i)

AccountsSpec == AccountsInit /\ [][AccountsNext]_accountVars

-----------------------------------------------------------------------------
(* Whoever was let into a conversation had shown the password of the account
   that created it; of two racing registrations of an address, only one ever
   speaks for it.                                                          *)
ConversationsStayPrivate ==
  \A o \in opened : o[3] = users[conversations[o[2]]].password
=============================================================================
