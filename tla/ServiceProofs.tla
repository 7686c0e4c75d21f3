--------------------------- MODULE ServiceProofs ----------------------------
(***************************************************************************)
(* Theorems about the bad case store and about accounts, for any turns,    *)
(* ids, retention, clients, addresses and passwords; and about the eight   *)
(* components of MCServices together.                                      *)
(***************************************************************************)
EXTENDS MCServices, ToolServersProofs, ChatClientProofs, RateLimiterProofs,
        TurnBillingProofs, TLAPS

-----------------------------------------------------------------------------
(* Bad cases                                                               *)

USE BadCasesAssumption

(* Ids in use, and on the operator's list, have been given out; an id on the
   list still means the case it meant, or none.                            *)
IdsAreOld ==
  /\ \A i \in CaseIds : cases[i] # NoCase => i <= lastId
  /\ \A entry \in listing :
       /\ entry[1] <= lastId
       /\ cases[entry[1]] # NoCase => cases[entry[1]].turn = entry[2]

ResolvedWereRead ==
  \A i \in CaseIds : cases[i] # NoCase /\ cases[i].resolved => cases[i].turn \in marked

OpenOnRecord(t) == \E i \in CaseIds : cases[i] # NoCase /\ cases[i].turn = t /\ ~cases[i].resolved

RecordedAreOpen ==
  \A t \in Turns : turn[t] \in {"recorded", "told"} /\ t \notin marked => OpenOnRecord(t)

CasesInv == CasesTypeOK /\ IdsAreOld /\ ResolvedWereRead /\ RecordedAreOpen

(* Steps that leave the table and the list alone, and only drop a turn or
   take it further once it is recorded.                                    *)
LEMMA TurnsOnlySafe ==
  ASSUME CasesInv, UNCHANGED <<cases, lastId, listing, marked>>,
         turn' \in [Turns -> {"running", "failing", "recorded", "told", "dropped"}],
         \A t \in Turns : turn'[t] \in {"recorded", "told"} => turn[t] \in {"recorded", "told"}
  PROVE  CasesInv'
BY DEF CasesInv, CasesTypeOK, IdsAreOld, ResolvedWereRead, RecordedAreOpen, OpenOnRecord

LEMMA RecordCaseSafe ==
  ASSUME CasesInv, NEW t \in Turns, RecordCase(t)
  PROVE  CasesInv'
<1> USE DEF CasesInv
<1> DEFINE row == [turn |-> t, resolved |-> FALSE, age |-> 0]
<1>1. /\ NewId \in CaseIds /\ NewId \in Nat /\ lastId \in Nat /\ NewId > lastId
      /\ lastId' = NewId
  BY DEF RecordCase, NewId, CasesTypeOK
<1>2. row \in Case /\ row # NoCase
  <2>1. 0 \in 0..(Retention + 1)
    BY BadCasesAssumption
  <2>2. row \in Case
    BY <2>1 DEF Case
  <2> QED BY <2>2, BadCasesAssumption
<1>3. cases[NewId] = NoCase
  BY <1>1 DEF IdsAreOld
<1>4. /\ cases' = [cases EXCEPT ![NewId] = row]
      /\ turn' = [turn EXCEPT ![t] = "recorded"]
      /\ listing' = listing /\ marked' = marked
  BY DEF RecordCase
<1> HIDE DEF row
<1>5. CasesTypeOK'
  BY <1>1, <1>2, <1>4 DEF CasesTypeOK
<1>6. /\ cases'[NewId] = row
      /\ \A i \in CaseIds : i # NewId => cases'[i] = cases[i]
  BY <1>1, <1>4 DEF CasesTypeOK
<1>7. IdsAreOld'
  <2>1. ASSUME NEW i \in CaseIds, cases'[i] # NoCase
        PROVE  i <= lastId'
    <3>1. i \in Nat
      BY BadCasesAssumption
    <3>2. i = NewId \/ i <= lastId
      BY <1>6, <2>1 DEF IdsAreOld
    <3> QED BY <1>1, <3>1, <3>2
  <2>2. ASSUME NEW entry \in listing
        PROVE  entry[1] <= lastId' /\ (cases'[entry[1]] # NoCase => cases'[entry[1]].turn = entry[2])
    <3>0. entry[1] \in CaseIds /\ entry[1] <= lastId
      BY DEF IdsAreOld, CasesTypeOK
    <3>1. entry[1] <= NewId /\ entry[1] # NewId
      <4>1. PICK i \in CaseIds : i = entry[1]
        BY <3>0
      <4>2. i \in Nat /\ i <= lastId
        BY <3>0, <4>1, BadCasesAssumption
      <4>3. i <= NewId /\ i # NewId
        <5> HIDE DEF CasesInv
        <5> QED BY <1>1, <4>2
      <4> QED BY <4>1, <4>3
    <3>2. cases'[entry[1]] = cases[entry[1]]
      BY <1>6, <3>0, <3>1
    <3> QED BY <1>1, <3>0, <3>1, <3>2 DEF IdsAreOld
  <2> QED BY <1>4, <2>1, <2>2 DEF IdsAreOld
<1>8. ResolvedWereRead'
  BY <1>4, <1>6 DEF ResolvedWereRead, row
<1>9. RecordedAreOpen'
  <2> SUFFICES ASSUME NEW u \in Turns, turn'[u] \in {"recorded", "told"}, u \notin marked'
               PROVE  OpenOnRecord(u)'
    BY DEF RecordedAreOpen
  <2>1. CASE u = t
    BY <1>1, <1>2, <1>6, <2>1 DEF OpenOnRecord, row
  <2>2. CASE u # t
    <3>1. OpenOnRecord(u)
      BY <1>4, <2>2 DEF RecordedAreOpen, CasesTypeOK
    <3> QED BY <1>3, <1>6, <3>1 DEF OpenOnRecord
  <2> QED BY <2>1, <2>2
<1> QED BY <1>5, <1>7, <1>8, <1>9

LEMMA ListUnresolvedSafe == ASSUME CasesInv, ListUnresolved PROVE CasesInv'
<1>1. \A i \in Used : i \in CaseIds /\ cases[i] \in Case /\ i <= lastId
  BY DEF Used, CasesInv, CasesTypeOK, IdsAreOld
<1>2. \A entry \in listing' : \E i \in Used : entry = <<i, cases[i].turn>>
  BY DEF ListUnresolved
<1>3. listing' \subseteq CaseIds \X Turns
  BY <1>1, <1>2 DEF Case
<1>4. \A entry \in listing' : entry[1] <= lastId /\ cases[entry[1]].turn = entry[2]
  BY <1>1, <1>2
<1> QED BY <1>3, <1>4 DEF ListUnresolved, CasesInv, CasesTypeOK, IdsAreOld, ResolvedWereRead,
           RecordedAreOpen, OpenOnRecord

(* Steps that change rows without taking their turn, or an open case, away. *)
LEMMA RowsKeepTheirTurn ==
  ASSUME CasesInv,
         cases' \in [CaseIds -> Case \union {NoCase}],
         turn' \in [Turns -> {"running", "failing", "recorded", "told", "dropped"}],
         \A t \in Turns : turn'[t] \in {"recorded", "told"} => turn[t] \in {"recorded", "told"},
         UNCHANGED <<lastId, listing, marked>>,
         \A i \in CaseIds : cases'[i] # NoCase =>
            /\ cases[i] # NoCase
            /\ cases'[i].turn = cases[i].turn
            /\ cases'[i].resolved = cases[i].resolved,
         \A i \in CaseIds : cases[i] # NoCase /\ ~cases[i].resolved => cases'[i] # NoCase
  PROVE  CasesInv'
<1>1. CasesTypeOK'
  BY DEF CasesInv, CasesTypeOK
<1>2. IdsAreOld'
  BY DEF CasesInv, CasesTypeOK, IdsAreOld
<1>3. ResolvedWereRead'
  BY DEF CasesInv, ResolvedWereRead
<1>4. RecordedAreOpen'
  BY DEF CasesInv, RecordedAreOpen, OpenOnRecord
<1> QED BY <1>1, <1>2, <1>3, <1>4 DEF CasesInv

LEMMA MarkResolvedSafe ==
  ASSUME CasesInv, NEW i \in CaseIds, NEW t \in Turns, MarkResolved(i, t)
  PROVE  CasesInv'
<1> USE DEF CasesInv
<1>1. cases[i] # NoCase => cases[i] \in Case /\ cases[i].turn = t
  BY DEF MarkResolved, IdsAreOld, CasesTypeOK
<1>2. marked' = marked \union {t} /\ lastId' = lastId /\ listing' = listing /\ turn' = turn
  BY DEF MarkResolved
<1>3. CASE cases[i] = NoCase
  <2>1. cases' = cases
    BY <1>3 DEF MarkResolved
  <2> QED BY <1>2, <2>1 DEF CasesTypeOK, IdsAreOld, ResolvedWereRead, RecordedAreOpen, OpenOnRecord
<1>4. CASE cases[i] # NoCase
  <2> DEFINE row == [cases[i] EXCEPT !.resolved = TRUE]
  <2>1. cases' = [cases EXCEPT ![i] = row]
    BY <1>4 DEF MarkResolved
  <2>2. row \in Case /\ row # NoCase /\ row.turn = t
    BY <1>1, <1>4 DEF Case
  <2> HIDE DEF row
  <2>3. cases'[i] = row /\ \A j \in CaseIds : j # i => cases'[j] = cases[j]
    BY <2>1 DEF CasesTypeOK
  <2>4. CasesTypeOK'
    BY <1>2, <2>1, <2>2 DEF CasesTypeOK
  <2>5. IdsAreOld'
    BY <1>1, <1>2, <1>4, <2>2, <2>3 DEF IdsAreOld, CasesTypeOK
  <2>6. ResolvedWereRead'
    BY <1>2, <2>2, <2>3 DEF ResolvedWereRead
  <2>7. RecordedAreOpen'
    <3> SUFFICES ASSUME NEW u \in Turns, turn'[u] \in {"recorded", "told"}, u \notin marked'
                 PROVE  OpenOnRecord(u)'
      BY DEF RecordedAreOpen
    <3>1. OpenOnRecord(u) /\ u # t
      BY <1>2 DEF RecordedAreOpen
    <3> QED BY <1>1, <2>3, <3>1 DEF OpenOnRecord
  <2> QED BY <2>4, <2>5, <2>6, <2>7
<1> QED BY <1>3, <1>4

LEMMA CasesInvariant == CasesSpec => []CasesInv
<1>1. CasesInit => CasesInv
  BY DEF CasesInit, CasesInv, CasesTypeOK, IdsAreOld, ResolvedWereRead, RecordedAreOpen
<1>2. CasesInv /\ [CasesNext]_caseVars => CasesInv'
  <2> SUFFICES ASSUME CasesInv, [CasesNext]_caseVars PROVE CasesInv'
    OBVIOUS
  <2>1. ASSUME NEW t \in Turns, TurnFails(t) \/ DropFailure(t) \/ TellError(t) \/ ReportCase(t)
        PROVE  CasesInv'
    <3>1. /\ UNCHANGED <<cases, lastId, listing, marked>>
          /\ \E stop \in {"failing", "dropped", "told"} :
               /\ turn' = [turn EXCEPT ![t] = stop]
               /\ stop = "told" => turn[t] = "recorded"
      BY <2>1 DEF TurnFails, DropFailure, TellError, ReportCase
    <3>2. turn \in [Turns -> {"running", "failing", "recorded", "told", "dropped"}]
      BY DEF CasesInv, CasesTypeOK
    <3>3. /\ turn' \in [Turns -> {"running", "failing", "recorded", "told", "dropped"}]
          /\ \A u \in Turns : turn'[u] \in {"recorded", "told"} => turn[u] \in {"recorded", "told"}
      BY <3>1, <3>2
    <3> QED BY <3>1, <3>3, TurnsOnlySafe
  <2>2. CASE RestartAndPurge
    <3>1. \A i \in CaseIds : cases'[i] \in {cases[i], NoCase}
      BY <2>2 DEF RestartAndPurge
    <3>2. cases' \in [CaseIds -> Case \union {NoCase}]
      BY <2>2, <3>1 DEF RestartAndPurge, CasesInv, CasesTypeOK
    <3>3. \A i \in CaseIds : cases[i] # NoCase /\ ~cases[i].resolved => cases'[i] # NoCase
      BY <2>2 DEF RestartAndPurge, Purgeable
    <3>4. /\ turn' \in [Turns -> {"running", "failing", "recorded", "told", "dropped"}]
          /\ \A t \in Turns : turn'[t] \in {"recorded", "told"} => turn[t] \in {"recorded", "told"}
      BY <2>2 DEF RestartAndPurge, CasesInv, CasesTypeOK
    <3> QED BY <2>2, <3>1, <3>2, <3>3, <3>4, RowsKeepTheirTurn DEF RestartAndPurge
  <2>3. CASE CasesTick
    <3>1. ASSUME NEW i \in CaseIds
          PROVE  \/ cases'[i] = cases[i] /\ cases'[i] \in Case \union {NoCase}
                 \/ /\ cases[i] \in Case /\ cases[i] # NoCase
                    /\ cases'[i] = [cases[i] EXCEPT !.age = @ + 1]
                    /\ cases'[i] \in Case /\ cases'[i] # NoCase
      <4>1. cases[i] \in Case \union {NoCase}
        BY DEF CasesInv, CasesTypeOK
      <4>2. CASE cases[i] # NoCase /\ cases[i].age <= Retention
        <5>1. cases[i] \in Case /\ cases[i].age + 1 \in 0..(Retention + 1)
          BY <4>1, <4>2 DEF Case
        <5>2. [cases[i] EXCEPT !.age = @ + 1] \in Case
          BY <5>1 DEF Case
        <5> QED BY <2>3, <4>2, <5>1, <5>2 DEF CasesTick
      <4>3. CASE ~ (cases[i] # NoCase /\ cases[i].age <= Retention)
        BY <2>3, <4>1, <4>3 DEF CasesTick
      <4> QED BY <4>2, <4>3
    <3>2. cases' \in [CaseIds -> Case \union {NoCase}]
      <4>1. cases' = [i \in CaseIds |-> cases'[i]]
        BY <2>3 DEF CasesTick
      <4> QED BY <3>1, <4>1
    <3>3. \A i \in CaseIds : cases'[i] # NoCase =>
            /\ cases[i] # NoCase
            /\ cases'[i].turn = cases[i].turn
            /\ cases'[i].resolved = cases[i].resolved
      BY <3>1 DEF Case
    <3>4. turn' = turn /\ turn \in [Turns -> {"running", "failing", "recorded", "told", "dropped"}]
      BY <2>3 DEF CasesTick, CasesInv, CasesTypeOK
    <3> QED BY <2>3, <3>1, <3>2, <3>3, <3>4, RowsKeepTheirTurn DEF CasesTick
  <2>4. CASE UNCHANGED caseVars
    BY <2>4 DEF caseVars, CasesInv, CasesTypeOK, IdsAreOld, ResolvedWereRead, RecordedAreOpen,
       OpenOnRecord
  <2> QED BY <2>1, <2>2, <2>3, <2>4, RecordCaseSafe, ListUnresolvedSafe, MarkResolvedSafe
          DEF CasesNext
<1> QED BY <1>1, <1>2, PTL DEF CasesSpec

(* A failure somebody was told of is on the list of open cases until an
   operator who read it resolves it, for any retention and any number of
   restarts.                                                               *)
THEOREM FailuresStayOnRecord == CasesSpec => []FailureIsOnRecord
<1>1. CasesInv => FailureIsOnRecord
  BY DEF CasesInv, ResolvedWereRead, RecordedAreOpen, OpenOnRecord, FailureIsOnRecord, Used
<1> QED BY <1>1, CasesInvariant, PTL

-----------------------------------------------------------------------------
(* Accounts                                                                *)

OneRowPerEmail ==
  \A i, j \in DOMAIN users : users[i].email = users[j].email => i = j

(* Whoever holds a token showed the password of the row it names.          *)
TokensWereEarned ==
  \A k \in Clients : token[k] # Nobody =>
    \E i \in DOMAIN users : users[i].email = token[k] /\ users[i].password = shown[k]

AccountsInv ==
  /\ AccountsTypeOK
  /\ OneRowPerEmail
  /\ TokensWereEarned
  /\ ConversationsStayPrivate

LEMMA TheRowOfAnEmail ==
  ASSUME AccountsTypeOK, OneRowPerEmail, NEW i \in DOMAIN users
  PROVE  RowsOf(users[i].email) = {i} /\ FirstRow(users[i].email) = i
<1>1. RowsOf(users[i].email) = {i}
  BY DEF OneRowPerEmail, RowsOf
<1>2. i <= i
  BY DEF AccountsTypeOK
<1> QED BY <1>1, <1>2 DEF FirstRow

(* The row behind a token is the one its holder showed the password of.    *)
LEMMA CurrentUserIsTheEarner ==
  ASSUME AccountsInv, NEW k \in Clients, token[k] # Nobody
  PROVE  /\ CurrentUser(k) \in DOMAIN users
         /\ shown[k] = users[CurrentUser(k)].password
         /\ shown[k] \in Passwords
<1>1. PICK i \in DOMAIN users : users[i].email = token[k] /\ users[i].password = shown[k]
  BY DEF AccountsInv, TokensWereEarned
<1>2. CurrentUser(k) = i
  BY <1>1, TheRowOfAnEmail DEF AccountsInv, CurrentUser
<1>3. users[i] \in Account
  BY DEF AccountsInv, AccountsTypeOK
<1> QED BY <1>1, <1>2, <1>3 DEF Account

(* Steps that leave the table of users and the conversations alone.        *)
LEMMA TokensOnlySafe ==
  ASSUME AccountsInv, AccountsTypeOK', TokensWereEarned',
         UNCHANGED <<users, conversations, opened>>
  PROVE  AccountsInv'
BY DEF AccountsInv, OneRowPerEmail, ConversationsStayPrivate

LEMMA RegisterSafe ==
  ASSUME AccountsInv, NEW k \in Clients, Register(k) PROVE AccountsInv'
<1>1. /\ pending' \in [Clients -> Account \union {Nobody}]
      /\ status' \in [Clients -> {"none", "200", "401", "404", "409", "500"}]
      /\ UNCHANGED <<users, token, conversations, shown, opened>>
  BY DEF Register, AccountsInv, AccountsTypeOK
<1> QED BY <1>1, TokensOnlySafe DEF AccountsInv, AccountsTypeOK, TokensWereEarned

LEMMA CommitUserSafe ==
  ASSUME AccountsInv, NEW k \in Clients, CommitUser(k) PROVE AccountsInv'
<1>1. pending[k] \in Account
  BY DEF CommitUser, AccountsInv, AccountsTypeOK
<1>2. pending' \in [Clients -> Account \union {Nobody}]
  BY DEF CommitUser, AccountsInv, AccountsTypeOK
<1>3. CASE ~Insertable(pending[k])
  <2>1. /\ status' \in [Clients -> {"none", "200", "401", "404", "409", "500"}]
        /\ UNCHANGED <<users, token, conversations, shown, opened>>
    BY <1>3 DEF CommitUser, AccountsInv, AccountsTypeOK
  <2> QED BY <1>2, <2>1, TokensOnlySafe DEF AccountsInv, AccountsTypeOK, TokensWereEarned
<1>4. CASE Insertable(pending[k])
  <2> DEFINE account == pending[k]
             new == Len(users) + 1
  <2>1. /\ users' = Append(users, account)
        /\ token' = [token EXCEPT ![k] = account.email]
        /\ shown' = [shown EXCEPT ![k] = account.password]
        /\ status' = [status EXCEPT ![k] = "200"]
        /\ UNCHANGED <<conversations, opened>>
    BY <1>4 DEF CommitUser, IssueToken
  <2>2. \A i \in DOMAIN users : users[i].email # account.email
    BY <1>4 DEF Insertable, RowsOf
  <2>3. account \in Account /\ account.email \in Emails /\ account.password \in Passwords
    BY <1>1 DEF Account
  <2>4. users \in Seq(Account) /\ conversations \in Seq(DOMAIN users)
    BY DEF AccountsInv, AccountsTypeOK
  <2> HIDE DEF account
  <2>5. /\ users' \in Seq(Account)
        /\ DOMAIN users' = DOMAIN users \union {new}
        /\ new \notin DOMAIN users
        /\ users'[new] = account
        /\ \A i \in DOMAIN users : users'[i] = users[i]
    BY <2>1, <2>3, <2>4
  <2> HIDE DEF new
  <2>6. conversations \in Seq(DOMAIN users')
    BY <2>4, <2>5
  <2>7. AccountsTypeOK'
    <3>1. token' \in [Clients -> Emails \union {Nobody}]
      BY <2>1, <2>3 DEF AccountsInv, AccountsTypeOK
    <3>2. shown' \in [Clients -> Passwords \union {Nobody}]
      BY <2>1, <2>3 DEF AccountsInv, AccountsTypeOK
    <3>3. status' \in [Clients -> {"none", "200", "401", "404", "409", "500"}]
      BY <2>1 DEF AccountsInv, AccountsTypeOK
    <3> QED BY <1>2, <2>1, <2>5, <2>6, <3>1, <3>2, <3>3 DEF AccountsInv, AccountsTypeOK
  <2>8. OneRowPerEmail'
    BY <2>2, <2>5 DEF AccountsInv, OneRowPerEmail
  <2>9. TokensWereEarned'
    <3> SUFFICES ASSUME NEW c \in Clients, token'[c] # Nobody
                 PROVE  \E i \in DOMAIN users' :
                          users'[i].email = token'[c] /\ users'[i].password = shown'[c]
      BY DEF TokensWereEarned
    <3>1. CASE c = k
      BY <2>1, <2>5, <3>1 DEF AccountsInv, AccountsTypeOK
    <3>2. CASE c # k
      <4>1. token'[c] = token[c] /\ shown'[c] = shown[c]
        BY <2>1, <3>2 DEF AccountsInv, AccountsTypeOK
      <4> QED BY <2>5, <4>1 DEF AccountsInv, TokensWereEarned
    <3> QED BY <3>1, <3>2
  <2>10. ConversationsStayPrivate'
    <3> SUFFICES ASSUME NEW o \in opened
                 PROVE  o[3] = users'[conversations[o[2]]].password
      BY <2>1 DEF ConversationsStayPrivate
    <3>1. o[2] \in DOMAIN conversations
      BY DEF AccountsInv, AccountsTypeOK
    <3>2. conversations[o[2]] \in DOMAIN users
      BY <2>4, <3>1
    <3> QED BY <2>5, <3>2 DEF AccountsInv, ConversationsStayPrivate
  <2> QED BY <2>7, <2>8, <2>9, <2>10 DEF AccountsInv
<1> QED BY <1>3, <1>4

LEMMA LoginSafe ==
  ASSUME AccountsInv, NEW k \in Clients, Login(k) PROVE AccountsInv'
<1>1. PICK account \in Account :
        IF Authenticated(account) THEN IssueToken(k, account)
        ELSE status' = [status EXCEPT ![k] = "401"] /\ UNCHANGED <<token, shown>>
  BY DEF Login
<1>2. UNCHANGED <<users, pending, conversations, opened>>
  BY DEF Login
<1>3. account.email \in Emails /\ account.password \in Passwords
  BY DEF Account
<1>4. CASE Authenticated(account)
  <2>1. /\ token' = [token EXCEPT ![k] = account.email]
        /\ shown' = [shown EXCEPT ![k] = account.password]
        /\ status' = [status EXCEPT ![k] = "200"]
    BY <1>1, <1>4 DEF IssueToken
  <2>2. PICK row \in DOMAIN users : users[row].email = account.email
    BY <1>4 DEF Authenticated, RowsOf
  <2>3. users[row].password = account.password
    BY <1>4, <2>2, TheRowOfAnEmail DEF Authenticated, AccountsInv
  <2>4. AccountsTypeOK'
    <3>1. token' \in [Clients -> Emails \union {Nobody}]
      BY <1>3, <2>1 DEF AccountsInv, AccountsTypeOK
    <3>2. shown' \in [Clients -> Passwords \union {Nobody}]
      BY <1>3, <2>1 DEF AccountsInv, AccountsTypeOK
    <3>3. status' \in [Clients -> {"none", "200", "401", "404", "409", "500"}]
      BY <2>1 DEF AccountsInv, AccountsTypeOK
    <3> QED BY <1>2, <3>1, <3>2, <3>3 DEF AccountsInv, AccountsTypeOK
  <2>5. TokensWereEarned'
    <3> SUFFICES ASSUME NEW c \in Clients, token'[c] # Nobody
                 PROVE  \E i \in DOMAIN users :
                          users[i].email = token'[c] /\ users[i].password = shown'[c]
      BY <1>2 DEF TokensWereEarned
    <3>1. CASE c = k
      BY <2>1, <2>2, <2>3, <3>1 DEF AccountsInv, AccountsTypeOK
    <3>2. CASE c # k
      <4>1. token'[c] = token[c] /\ shown'[c] = shown[c]
        BY <2>1, <3>2 DEF AccountsInv, AccountsTypeOK
      <4> QED BY <4>1 DEF AccountsInv, TokensWereEarned
    <3> QED BY <3>1, <3>2
  <2> QED BY <1>2, <2>4, <2>5, TokensOnlySafe
<1>5. CASE ~Authenticated(account)
  <2>1. status' \in [Clients -> {"none", "200", "401", "404", "409", "500"}]
    BY <1>1, <1>5 DEF AccountsInv, AccountsTypeOK
  <2> QED BY <1>1, <1>2, <1>5, <2>1, TokensOnlySafe DEF AccountsInv, AccountsTypeOK, TokensWereEarned
<1> QED BY <1>4, <1>5

LEMMA ExpireTokenSafe ==
  ASSUME AccountsInv, NEW k \in Clients, ExpireToken(k) PROVE AccountsInv'
<1>1. /\ token' \in [Clients -> Emails \union {Nobody}]
      /\ shown' \in [Clients -> Passwords \union {Nobody}]
      /\ \A c \in Clients : token'[c] # Nobody => token'[c] = token[c] /\ shown'[c] = shown[c]
      /\ UNCHANGED <<users, pending, status, conversations, opened>>
  BY DEF ExpireToken, AccountsInv, AccountsTypeOK
<1>2. AccountsTypeOK'
  BY <1>1 DEF AccountsInv, AccountsTypeOK
<1>3. TokensWereEarned'
  BY <1>1 DEF AccountsInv, TokensWereEarned
<1> QED BY <1>1, <1>2, <1>3, TokensOnlySafe

LEMMA CreateConversationSafe ==
  ASSUME AccountsInv, NEW k \in Clients, CreateConversation(k) PROVE AccountsInv'
<1>1. /\ conversations' = Append(conversations, CurrentUser(k))
      /\ CurrentUser(k) \in DOMAIN users
      /\ UNCHANGED <<users, pending, token, shown, opened>>
  BY CurrentUserIsTheEarner DEF CreateConversation
<1>2. conversations \in Seq(DOMAIN users)
  BY DEF AccountsInv, AccountsTypeOK
<1>3. /\ conversations' \in Seq(DOMAIN users)
      /\ DOMAIN conversations \subseteq DOMAIN conversations'
      /\ \A i \in DOMAIN conversations : conversations'[i] = conversations[i]
  BY <1>1, <1>2
<1>4. status' \in [Clients -> {"none", "200", "401", "404", "409", "500"}]
  BY DEF CreateConversation, AccountsInv, AccountsTypeOK
<1>5. AccountsTypeOK'
  BY <1>1, <1>3, <1>4 DEF AccountsInv, AccountsTypeOK
<1>6. ConversationsStayPrivate'
  BY <1>1, <1>3 DEF AccountsInv, AccountsTypeOK, ConversationsStayPrivate
<1> QED BY <1>1, <1>5, <1>6 DEF AccountsInv, OneRowPerEmail, TokensWereEarned

LEMMA OpenConversationSafe ==
  ASSUME AccountsInv, NEW k \in Clients, NEW i, OpenConversation(k, i) PROVE AccountsInv'
<1>1. UNCHANGED <<users, pending, token, conversations, shown>>
  BY DEF OpenConversation
<1>2. status' \in [Clients -> {"none", "200", "401", "404", "409", "500"}]
  BY DEF OpenConversation, AccountsInv, AccountsTypeOK
<1>3. \/ opened' = opened
      \/ Owns(k, i) /\ token[k] # Nobody /\ opened' = opened \union {<<k, i, shown[k]>>}
  BY DEF OpenConversation
<1>4. /\ opened' \subseteq Clients \X (DOMAIN conversations) \X Passwords
      /\ \A o \in opened' : o[3] = users[conversations[o[2]]].password
  <2>1. CASE opened' = opened
    BY <2>1 DEF AccountsInv, AccountsTypeOK, ConversationsStayPrivate
  <2>2. CASE Owns(k, i) /\ token[k] # Nobody /\ opened' = opened \union {<<k, i, shown[k]>>}
    <3>1. i \in DOMAIN conversations /\ conversations[i] = CurrentUser(k)
      BY <2>2 DEF Owns
    <3>2. shown[k] \in Passwords /\ shown[k] = users[conversations[i]].password
      BY <2>2, <3>1, CurrentUserIsTheEarner
    <3> QED BY <2>2, <3>1, <3>2 DEF AccountsInv, AccountsTypeOK, ConversationsStayPrivate
  <2> QED BY <1>3, <2>1, <2>2
<1>5. AccountsTypeOK'
  BY <1>1, <1>2, <1>4 DEF AccountsInv, AccountsTypeOK
<1>6. ConversationsStayPrivate'
  BY <1>1, <1>4 DEF ConversationsStayPrivate
<1> QED BY <1>1, <1>5, <1>6 DEF AccountsInv, OneRowPerEmail, TokensWereEarned

LEMMA AccountsInvariant == AccountsSpec => []AccountsInv
<1>1. AccountsInit => AccountsInv
  BY DEF AccountsInit, AccountsInv, AccountsTypeOK, OneRowPerEmail, TokensWereEarned,
     ConversationsStayPrivate
<1>2. AccountsInv /\ [AccountsNext]_accountVars => AccountsInv'
  <2> SUFFICES ASSUME AccountsInv, [AccountsNext]_accountVars PROVE AccountsInv'
    OBVIOUS
  <2>1. ASSUME NEW k \in Clients, Unauthorized(k) PROVE AccountsInv'
    <3>1. /\ status' \in [Clients -> {"none", "200", "401", "404", "409", "500"}]
          /\ UNCHANGED <<users, pending, token, conversations, shown, opened>>
      BY <2>1 DEF Unauthorized, AccountsInv, AccountsTypeOK
    <3> QED BY <3>1, TokensOnlySafe DEF AccountsInv, AccountsTypeOK, TokensWereEarned
  <2>2. CASE UNCHANGED accountVars
    BY <2>2, TokensOnlySafe DEF accountVars, AccountsInv, AccountsTypeOK, TokensWereEarned
  <2> QED BY <2>1, <2>2, RegisterSafe, CommitUserSafe, LoginSafe, ExpireTokenSafe,
             CreateConversationSafe, OpenConversationSafe DEF AccountsNext
<1> QED BY <1>1, <1>2, PTL DEF AccountsSpec

(* However registrations of an address race, whoever was let into a
   conversation showed the password of the account that owns it.           *)
THEOREM OwnersOnly == AccountsSpec => []ConversationsStayPrivate
BY AccountsInvariant, PTL DEF AccountsInv

-----------------------------------------------------------------------------
(* The components together                                                 *)

(* A step of the composition is, for each component, one of its own steps or
   none: what is proved of a component alone holds while the others run.    *)
THEOREM ServicesImplementComponents ==
  ServicesSpec => /\ WriteSpec /\ MapSpec /\ WeatherSpec
                  /\ CasesSpec /\ AccountsSpec /\ ClientSpec
                  /\ Spec /\ BillingSpec
<1>1. ServicesInit => /\ WriteInit /\ MapInit /\ WeatherInit
                      /\ CasesInit /\ AccountsInit /\ ClientInit
                      /\ Init /\ BillingInit
  BY DEF ServicesInit
<1>2. [ServicesNext]_servicesVars =>
        /\ [WriteNext]_writeVars /\ [MapNext]_mapVars /\ [WeatherNext]_weatherVars
        /\ [CasesNext]_caseVars /\ [AccountsNext]_accountVars /\ [ClientNext]_clientVars
        /\ [Next]_vars /\ [BillingNext]_billingVars
  BY DEF ServicesNext, servicesVars
<1> QED
  BY <1>1, <1>2, PTL DEF ServicesSpec, WriteSpec, MapSpec, WeatherSpec, CasesSpec,
     AccountsSpec, ClientSpec, Spec, BillingSpec

LEMMA MoverStays == ServicesSpec => [](mover \in Movers)
<1>1. ServicesInit => mover \in Movers
  BY DEF ServicesInit
<1>2. mover \in Movers /\ [ServicesNext]_servicesVars => (mover \in Movers)'
  BY DEF ServicesNext, servicesVars
<1> QED BY <1>1, <1>2, PTL DEF ServicesSpec

(* Every variable of the eight components keeps its type in every
   interleaving of them.                                                   *)
THEOREM ServicesTypeCorrect == ServicesSpec => []ServicesTypeOK
<1>1. WriteInv => WriteTypeOK BY DEF WriteInv
<1>2. MapInv => MapTypeOK BY DEF MapInv
<1>3. WeatherInv => WeatherTypeOK BY DEF WeatherInv
<1>4. CasesInv => CasesTypeOK BY DEF CasesInv
<1>5. AccountsInv => AccountsTypeOK BY DEF AccountsInv
<1>6. ClientInv => ClientTypeOK BY DEF ClientInv
<1>7. /\ mover \in Movers /\ WriteTypeOK /\ MapTypeOK /\ WeatherTypeOK /\ CasesTypeOK
      /\ AccountsTypeOK /\ ClientTypeOK /\ TypeOK /\ BillingTypeOK
      => ServicesTypeOK
  BY DEF ServicesTypeOK
<1> QED
  BY <1>1, <1>2, <1>3, <1>4, <1>5, <1>6, <1>7, MoverStays, ServicesImplementComponents,
     WriteInvariant, MapInvariant, WeatherInvariant, CasesInvariant, AccountsInvariant,
     ClientInvariant, LimiterTypeCorrect, BillingTypeCorrect, PTL
=============================================================================
