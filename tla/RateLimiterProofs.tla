------------------------- MODULE RateLimiterProofs --------------------------
(***************************************************************************)
(* The guarantees of the token bucket for any number of users, any bucket  *)
(* and any refill.  The argument is an account kept per user: what was     *)
(* admitted since t and what is left in the bucket never exceed what was   *)
(* put in since t, and for one t, the last time the bucket was full, they  *)
(* are equal.                                                              *)
(***************************************************************************)
EXTENDS RateLimiter, TLAPS

(* What is paid out since t and still held is covered by what came in.     *)
Covered(u, t, tokens, at) ==
  Price * admitted[u][t] + tokens <= Capacity + Refill * (at - t)

Spent(u, t, tokens, at) ==
  Price * admitted[u][t] + tokens = Capacity + Refill * (at - t)

Ledger(u, b) ==
  /\ \A t \in 0..b.last_refill : Covered(u, t, b.tokens, b.last_refill)
  /\ \E t \in 0..b.last_refill : Spent(u, t, b.tokens, b.last_refill)

NothingLater(u) ==
  \A t \in Times :
    ~buckets[u].known \/ t > buckets[u].last_refill => admitted[u][t] = 0

RefusedIsLow(u) ==
  answer[u] = "429" => buckets[u].known /\ buckets[u].tokens < Price

IInv ==
  /\ TypeOK
  /\ \A u \in Users : buckets[u].known => Ledger(u, buckets[u])
  /\ \A u \in Users : NothingLater(u)
  /\ \A u \in Users : RefusedIsLow(u)

-----------------------------------------------------------------------------
(* Time that is split in two refills as much as time that is not.          *)
LEMMA RefillAdds ==
  ASSUME NEW a \in Nat, NEW b \in Nat, NEW c \in Nat, a <= b, b <= c
  PROVE  Refill * (c - a) = Refill * (b - a) + (c - b) * Refill
BY LimiterAssumption

LEMMA PriceAdds ==
  ASSUME NEW n \in Nat
  PROVE  Price * (n + 1) = Price * n + Price /\ Price * n \in Nat
BY LimiterAssumption

LEMMA RefillTypes ==
  ASSUME NEW a \in Nat, NEW b \in Nat, a <= b
  PROVE  Refill * (b - a) \in Nat /\ (b - a) * Refill \in Nat
BY LimiterAssumption

(* _bucket_for and the refill of try_consume keep the account straight.    *)
LEMMA RefillKeepsAccount ==
  ASSUME IInv, NEW u \in Users, NEW b, b = Refilled(BucketFor(u))
  PROVE  /\ b \in Bucket
         /\ b.last_refill = now /\ b.known
         /\ Ledger(u, b)
<1> USE LimiterAssumption
<1>1. now \in Nat /\ now \in Times /\ 0..now \subseteq Times
  BY DEF IInv, TypeOK, Times
<1>2. \A t \in Times : admitted[u][t] \in Nat
  BY DEF IInv, TypeOK
<1>3. CASE ~buckets[u].known
  <2>1. BucketFor(u) = [tokens |-> Capacity, last_refill |-> now, known |-> TRUE]
    BY <1>3 DEF BucketFor
  <2>2. Smaller(Capacity, Capacity + (now - now) * Refill) = Capacity
    BY <1>1 DEF Smaller
  <2>3. b = [tokens |-> Capacity, last_refill |-> now, known |-> TRUE]
    <3> DEFINE full == [tokens |-> Capacity, last_refill |-> now, known |-> TRUE]
    <3>1. full \in Bucket /\ full.tokens = Capacity /\ full.last_refill = now /\ full.known
      BY <1>1 DEF Bucket
    <3>2. b = [full EXCEPT !.tokens = Smaller(Capacity, full.tokens + (now - full.last_refill) * Refill),
                           !.last_refill = now]
      BY <2>1 DEF Refilled
    <3> HIDE DEF full
    <3>3. b = [full EXCEPT !.tokens = Capacity, !.last_refill = now]
      BY <2>2, <3>1, <3>2
    <3>4. b = full
      BY <3>1, <3>3 DEF Bucket
    <3> QED
      BY <3>4 DEF full
  <2>4. \A t \in 0..now : admitted[u][t] = 0
    BY <1>1, <1>3 DEF IInv, NothingLater
  <2>5. \A t \in 0..now : Covered(u, t, Capacity, now)
    BY <2>4, <1>1, RefillTypes DEF Covered
  <2>6. Spent(u, now, Capacity, now)
    BY <2>4, <1>1 DEF Spent
  <2> QED
    BY <2>3, <2>5, <2>6, <1>1 DEF Bucket, Ledger
<1>4. CASE buckets[u].known
  <2> DEFINE o == buckets[u]
             grown == o.tokens + (now - o.last_refill) * Refill
  <2>1. /\ o \in Bucket /\ o.tokens \in 0..Capacity
        /\ o.last_refill \in Nat /\ o.last_refill <= now
    BY DEF IInv, TypeOK, Bucket, Times
  <2>2. Ledger(u, o)
    BY <1>4 DEF IInv
  <2>3. grown \in Nat /\ o.tokens <= grown
    BY <2>1, <1>1, RefillTypes
  <2>4. b = [tokens |-> Smaller(Capacity, grown), last_refill |-> now, known |-> TRUE]
    BY <1>4, <2>1 DEF Refilled, BucketFor, Bucket
  <2>5. /\ b.tokens = Smaller(Capacity, grown) /\ b.last_refill = now
        /\ b.tokens \in 0..Capacity /\ b.tokens <= grown /\ b.tokens <= Capacity
    BY <2>4, <2>3 DEF Smaller
  <2>6. ASSUME NEW t \in 0..now
        PROVE  Covered(u, t, b.tokens, now)
    <3>1. CASE t <= o.last_refill
      <4>1. Price * admitted[u][t] + o.tokens <= Capacity + Refill * (o.last_refill - t)
        BY <3>1, <2>1, <2>2 DEF Ledger, Covered
      <4>2. Refill * (now - t)
              = Refill * (o.last_refill - t) + (now - o.last_refill) * Refill
        BY <3>1, <2>1, <1>1, RefillAdds
      <4>3. Price * admitted[u][t] \in Nat /\ Refill * (o.last_refill - t) \in Nat
        BY <3>1, <2>1, <1>1, <1>2, PriceAdds, RefillTypes
      <4>4. (now - o.last_refill) * Refill \in Nat
        BY <2>1, <1>1, RefillTypes
      <4> QED
        BY <4>1, <4>2, <4>3, <4>4, <2>1, <2>5 DEF Covered
    <3>2. CASE t > o.last_refill
      <4>1. admitted[u][t] = 0
        BY <3>2, <1>1 DEF IInv, NothingLater
      <4>2. Refill * (now - t) \in Nat
        BY <1>1, RefillTypes
      <4> QED
        BY <4>1, <4>2, <2>5 DEF Covered
    <3> QED
      BY <3>1, <3>2, <2>1, <1>1
  <2>7. \E t \in 0..now : Spent(u, t, b.tokens, now)
    <3>1. PICK t \in 0..o.last_refill : Spent(u, t, o.tokens, o.last_refill)
      BY <2>2 DEF Ledger
    <3>2. CASE grown <= Capacity
      <4>1. b.tokens = grown
        BY <3>2, <2>3, <2>5 DEF Smaller
      <4>2. Refill * (now - t)
              = Refill * (o.last_refill - t) + (now - o.last_refill) * Refill
        BY <2>1, <1>1, RefillAdds
      <4>3. /\ Price * admitted[u][t] \in Nat /\ Refill * (o.last_refill - t) \in Nat
            /\ (now - o.last_refill) * Refill \in Nat
        BY <2>1, <1>1, <1>2, PriceAdds, RefillTypes
      <4>4. Price * admitted[u][t] + o.tokens = Capacity + Refill * (o.last_refill - t)
        BY <3>1 DEF Spent
      <4>5. o.tokens \in Nat
        BY <2>1
      <4> HIDE DEF o
      <4>6. Price * admitted[u][t] + (o.tokens + (now - o.last_refill) * Refill)
              = Capacity + (Refill * (o.last_refill - t) + (now - o.last_refill) * Refill)
        BY <4>3, <4>4, <4>5
      <4>7. Spent(u, t, b.tokens, now)
        BY <4>1, <4>2, <4>6 DEF Spent
      <4> QED
        BY <4>7, <2>1, <1>1
    <3>3. CASE grown > Capacity
      <4>1. b.tokens = Capacity
        BY <3>3, <2>3, <2>5 DEF Smaller
      <4>2. now > o.last_refill
        <5>1. SUFFICES ASSUME now = o.last_refill PROVE FALSE
          BY <2>1, <1>1
        <5>2. (now - o.last_refill) * Refill = 0
          BY <5>1, <1>1
        <5> QED
          BY <5>2, <3>3, <2>1
      <4>3. admitted[u][now] = 0
        BY <4>2, <1>1 DEF IInv, NothingLater
      <4>4. Spent(u, now, b.tokens, now)
        BY <4>1, <4>3, <1>1 DEF Spent
      <4> QED
        BY <4>4, <1>1
    <3> QED
      BY <3>2, <3>3, <2>3
  <2> QED
    BY <2>4, <2>5, <2>6, <2>7, <1>1 DEF Bucket, Ledger
<1> QED
  BY <1>3, <1>4

LEMMA InitEstablishes == Init => IInv
<1> USE LimiterAssumption
<1> SUFFICES ASSUME Init PROVE IInv
  OBVIOUS
<1>1. TypeOK
  BY DEF Init, TypeOK, Times, Absent, Bucket
<1>2. \A u \in Users : ~buckets[u].known /\ answer[u] = "none"
  BY DEF Init, Absent
<1>3. \A u \in Users, t \in Times : admitted[u][t] = 0
  BY DEF Init
<1> QED
  BY <1>1, <1>2, <1>3 DEF IInv, NothingLater, RefusedIsLow

LEMMA AdmitPreserves ==
  ASSUME IInv, NEW u \in Users, Admit(u)
  PROVE  IInv'
<1> USE LimiterAssumption
<1> DEFINE b == Refilled(BucketFor(u))
<1>1. /\ b \in Bucket /\ b.last_refill = now /\ b.known
      /\ Ledger(u, b)
  BY RefillKeepsAccount
<1>2. /\ b.tokens >= Price
      /\ buckets' = [buckets EXCEPT ![u] = [b EXCEPT !.tokens = @ - Price]]
      /\ answer' = [answer EXCEPT ![u] = "ok"]
      /\ admitted' = [admitted EXCEPT ![u] =
                        [t \in Times |-> IF t <= now THEN @[t] + 1 ELSE @[t]]]
      /\ now' = now
  BY DEF Admit
<1> HIDE DEF b
<1>3. now \in Nat /\ now \in Times /\ 0..now \subseteq Times
  BY DEF IInv, TypeOK, Times
<1>4. /\ buckets'[u] \in Bucket /\ buckets'[u].tokens = b.tokens - Price
      /\ buckets'[u].last_refill = now /\ buckets'[u].known
  <2>1. buckets'[u] = [b EXCEPT !.tokens = @ - Price]
    BY <1>2 DEF IInv, TypeOK
  <2>2. b.tokens - Price \in 0..Capacity
    BY <1>1, <1>2 DEF Bucket
  <2> QED
    BY <1>1, <2>1, <2>2 DEF Bucket
<1>5. \A v \in Users \ {u} : /\ buckets'[v] = buckets[v] /\ answer'[v] = answer[v]
                             /\ admitted'[v] = admitted[v]
  BY <1>2 DEF IInv, TypeOK
<1>6. /\ \A t \in 0..now : admitted'[u][t] = admitted[u][t] + 1
      /\ \A t \in Times : t > now => admitted'[u][t] = admitted[u][t]
      /\ \A t \in Times : admitted[u][t] \in Nat
  BY <1>2, <1>3 DEF IInv, TypeOK, Times
<1>7. TypeOK'
  <2>1. admitted'[u] \in [Times -> Nat]
    BY <1>2 DEF IInv, TypeOK
  <2>2. admitted' \in [Users -> [Times -> Nat]]
    BY <2>1, <1>2, <1>5 DEF IInv, TypeOK
  <2>3. buckets' \in [Users -> Bucket]
    BY <1>2, <1>4, <1>5 DEF IInv, TypeOK
  <2>4. answer' \in [Users -> {"none", "ok", "429"}]
    BY <1>2 DEF IInv, TypeOK
  <2>5. \A v \in Users : buckets'[v].last_refill <= now'
    BY <1>2, <1>3, <1>4, <1>5 DEF IInv, TypeOK
  <2> QED
    BY <2>2, <2>3, <2>4, <2>5, <1>2 DEF IInv, TypeOK
<1>8. Ledger(u, buckets[u])'
  <2>1. \A t \in 0..now :
          Price * admitted'[u][t] + buckets'[u].tokens = Price * admitted[u][t] + b.tokens
    <3> TAKE t \in 0..now
    <3>1. Price * admitted'[u][t] = Price * admitted[u][t] + Price /\ Price * admitted[u][t] \in Nat
      BY <1>3, <1>6, PriceAdds
    <3>2. b.tokens \in Nat
      BY <1>1 DEF Bucket
    <3> QED
      BY <3>1, <3>2, <1>4
  <2> QED
    BY <2>1, <1>1, <1>4 DEF Ledger, Covered, Spent
<1>9. NothingLater(u)'
  <2>1. \A t \in Times : t > now => admitted[u][t] = 0
    BY <1>3 DEF IInv, NothingLater, TypeOK, Bucket, Times
  <2> QED
    BY <2>1, <1>4, <1>6 DEF NothingLater
<1>10. ASSUME NEW v \in Users \ {u}
       PROVE  /\ buckets'[v].known => Ledger(v, buckets[v])'
              /\ NothingLater(v)' /\ RefusedIsLow(v)'
  BY <1>5, <1>10 DEF IInv, Ledger, Covered, Spent, NothingLater, RefusedIsLow
<1>11. RefusedIsLow(u)'
  BY <1>2 DEF RefusedIsLow, IInv, TypeOK
<1> QED
  BY <1>7, <1>8, <1>9, <1>10, <1>11 DEF IInv

LEMMA RefusePreserves ==
  ASSUME IInv, NEW u \in Users, Refuse(u)
  PROVE  IInv'
<1> USE LimiterAssumption
<1> DEFINE b == Refilled(BucketFor(u))
<1>1. /\ b \in Bucket /\ b.last_refill = now /\ b.known
      /\ Ledger(u, b)
  BY RefillKeepsAccount
<1>2. /\ b.tokens < Price
      /\ buckets' = [buckets EXCEPT ![u] = b]
      /\ answer' = [answer EXCEPT ![u] = "429"]
      /\ admitted' = admitted /\ now' = now
  BY DEF Refuse
<1> HIDE DEF b
<1>3. now \in Nat /\ now \in Times /\ 0..now \subseteq Times
  BY DEF IInv, TypeOK, Times
<1>4. buckets'[u] = b /\ answer'[u] = "429"
  BY <1>2 DEF IInv, TypeOK
<1>5. \A v \in Users \ {u} : buckets'[v] = buckets[v] /\ answer'[v] = answer[v]
  BY <1>2 DEF IInv, TypeOK
<1>6. TypeOK'
  <2>1. \A v \in Users : buckets'[v].last_refill <= now
    BY <1>1, <1>3, <1>4, <1>5 DEF IInv, TypeOK
  <2> QED
    BY <2>1, <1>1, <1>2 DEF IInv, TypeOK
<1>7. Ledger(u, buckets[u])'
  BY <1>1, <1>2, <1>4 DEF Ledger, Covered, Spent
<1>8. NothingLater(u)'
  <2>1. \A t \in Times : t > now => admitted[u][t] = 0
    BY <1>3 DEF IInv, NothingLater, TypeOK, Bucket, Times
  <2> QED
    BY <2>1, <1>1, <1>2, <1>4 DEF NothingLater
<1>9. ASSUME NEW v \in Users \ {u}
      PROVE  /\ buckets'[v].known => Ledger(v, buckets[v])'
             /\ NothingLater(v)' /\ RefusedIsLow(v)'
  BY <1>2, <1>5, <1>9 DEF IInv, Ledger, Covered, Spent, NothingLater, RefusedIsLow
<1>10. RefusedIsLow(u)'
  BY <1>1, <1>2, <1>4 DEF RefusedIsLow
<1> QED
  BY <1>6, <1>7, <1>8, <1>9, <1>10 DEF IInv

LEMMA StepPreserves == IInv /\ [Next]_vars => IInv'
<1> SUFFICES ASSUME IInv, [Next]_vars PROVE IInv'
  OBVIOUS
<1>1. ASSUME NEW u \in Users, Admit(u) PROVE IInv'
  BY <1>1, AdmitPreserves
<1>2. ASSUME NEW u \in Users, Refuse(u) PROVE IInv'
  BY <1>2, RefusePreserves
<1>3. CASE Tick
  <2>1. /\ now' = now + 1 /\ now < MaxTime
        /\ buckets' = buckets /\ answer' = answer /\ admitted' = admitted
    BY <1>3 DEF Tick
  <2>2. TypeOK'
    BY <2>1, LimiterAssumption DEF IInv, TypeOK, Times, Bucket
  <2> QED
    BY <2>1, <2>2 DEF IInv, Ledger, Covered, Spent, NothingLater, RefusedIsLow
<1>4. CASE UNCHANGED vars
  BY <1>4 DEF vars, IInv, TypeOK, Ledger, Covered, Spent, NothingLater, RefusedIsLow
<1> QED
  BY <1>1, <1>2, <1>3, <1>4 DEF Next

-----------------------------------------------------------------------------
(* The account balances in every reachable state of the rate limiter, for
   any users, bucket, price and refill.                                    *)
THEOREM AccountBalances == Spec => []IInv
<1>1. Init => IInv
  BY InitEstablishes
<1>2. IInv /\ [Next]_vars => IInv'
  BY StepPreserves
<1> QED
  BY <1>1, <1>2, PTL DEF Spec

(* Every variable keeps its type: tokens never go below zero or above
   capacity, and no bucket was refilled in the future.                     *)
THEOREM LimiterTypeCorrect == Spec => []TypeOK
<1>1. IInv => TypeOK
  BY DEF IInv
<1> QED
  BY <1>1, AccountBalances, PTL

LEMMA AccountBoundsWindows == IInv => WindowBound
<1> USE LimiterAssumption
<1> SUFFICES ASSUME IInv, NEW u \in Users, NEW t \in 0..now
             PROVE  Price * admitted[u][t] <= Capacity + Refill * (now - t)
  BY DEF WindowBound
<1>1. now \in Nat /\ t \in Times /\ admitted[u][t] \in Nat
  BY DEF IInv, TypeOK, Times
<1>2. CASE buckets[u].known /\ t <= buckets[u].last_refill
  <2> DEFINE last == buckets[u].last_refill
  <2>1. last \in Nat /\ last <= now /\ buckets[u].tokens \in Nat
    BY DEF IInv, TypeOK, Bucket, Times
  <2>2. Price * admitted[u][t] + buckets[u].tokens <= Capacity + Refill * (last - t)
    BY <1>1, <1>2, <2>1 DEF IInv, Ledger, Covered
  <2>3. Refill * (now - t) = Refill * (last - t) + (now - last) * Refill
    BY <1>1, <1>2, <2>1, RefillAdds
  <2>4. /\ Price * admitted[u][t] \in Nat /\ Refill * (last - t) \in Nat
        /\ (now - last) * Refill \in Nat
    BY <1>1, <1>2, <2>1, PriceAdds, RefillTypes
  <2> HIDE DEF last
  <2> QED
    BY <2>1, <2>2, <2>3, <2>4
<1>3. CASE ~(buckets[u].known /\ t <= buckets[u].last_refill)
  <2>1. buckets[u].last_refill \in Nat
    BY DEF IInv, TypeOK, Bucket, Times
  <2>2. admitted[u][t] = 0
    BY <1>1, <1>3, <2>1 DEF IInv, NothingLater
  <2> QED
    BY <1>1, <2>2, RefillTypes
<1> QED
  BY <1>2, <1>3

LEMMA AccountJustifiesRefusals == IInv => RefusalIsNeeded
<1> USE LimiterAssumption
<1> SUFFICES ASSUME IInv, NEW u \in Users, answer[u] = "429"
             PROVE  \E t \in 0..buckets[u].last_refill :
                      Price * (admitted[u][t] + 1)
                        > Capacity + Refill * (buckets[u].last_refill - t)
  BY DEF RefusalIsNeeded
<1> DEFINE last == buckets[u].last_refill
<1>1. /\ last \in Times /\ 0..last \subseteq Times
      /\ buckets[u].tokens \in Nat /\ buckets[u].tokens < Price
  BY DEF IInv, TypeOK, Bucket, Times, RefusedIsLow
<1>2. PICK t \in 0..last : Spent(u, t, buckets[u].tokens, last)
  BY DEF IInv, RefusedIsLow, Ledger
<1>3. Price * (admitted[u][t] + 1) = Price * admitted[u][t] + Price
      /\ Price * admitted[u][t] \in Nat
  BY <1>1, <1>2, PriceAdds DEF IInv, TypeOK
<1>4. Price * admitted[u][t] + buckets[u].tokens = Capacity + Refill * (last - t)
  BY <1>2 DEF Spent
<1>5. Price * (admitted[u][t] + 1) > Capacity + Refill * (last - t)
  BY <1>1, <1>3, <1>4
<1> QED
  BY <1>2, <1>5

(* No stretch of time lets a user through more often than a full bucket and
   the refill of that stretch allow.                                       *)
THEOREM AdmissionsAreBounded == Spec => []WindowBound
BY AccountBalances, AccountBoundsWindows, PTL

(* A 429 is given only to a user whose own requests have used up every bit
   of that allowance.                                                      *)
THEOREM RefusalsAreNeeded == Spec => []RefusalIsNeeded
BY AccountBalances, AccountJustifiesRefusals, PTL
=============================================================================
