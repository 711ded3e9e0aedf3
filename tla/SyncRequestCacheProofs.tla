----------------------- MODULE SyncRequestCacheProofs -----------------------
(***************************************************************************)
(* Proofs about SyncRequestCache, for any number of requesters, peers and  *)
(* ids: the cache holds the outstanding requests and no other, and a       *)
(* response in time goes to the request that it answers.                   *)
(*                                                                         *)
(* The argument.  Ids are given out round a circle.  Between a request and *)
(* the next use of its id every other id is either given to a later        *)
(* request or skipped because it is in use.  An id that is skipped belongs *)
(* to a request made before (what was made since lies behind the position  *)
(* in the circle), of which there were Cardinality(Requester) - 1 at most. *)
(* InOrder counts this: the ids passed, and the older requests still       *)
(* ahead, are not more than the later requests and the requesters.  So an  *)
(* id comes round only after more requests than InTime allows.             *)
(***************************************************************************)
EXTENDS SyncRequestCache, Integers, FiniteSetTheorems, TLAPS

Active == {r \in Requester : pc[r] # "idle"}

\* How far round the circle id j is from id i, and how far the position in it
\* is, at least 1 and at most IdSpace.
Off(i, j) == IF i <= j THEN j - i ELSE j - i + IdSpace
Passed(i) == IF request_id <= i THEN request_id - i + IdSpace ELSE request_id - i

\* Requests older than m whose ids have not been passed since m was made.
Ahead(m) == {r \in Active : mine[r].rq < m.rq /\ Off(m.id, mine[r].id) >= Passed(m.id)}

InOrder(m) ==
  /\ Passed(m.id) + Cardinality(Ahead(m)) <= serial - m.rq + Cardinality(Requester)
  /\ \A r \in Active :
       /\ mine[r].rq > m.rq => mine[r].id # m.id /\ Off(m.id, mine[r].id) < Passed(m.id)
       /\ mine[r].rq = m.rq <=> mine[r].id = m.id

\* The requests that a response may come for, now or later.
Queued == UNION {queue[e] : e \in EndPoint}
Open == wire \cup Queued \cup {mine[r] : r \in Active}

Rounds == \A m \in Open : InTime(m) => InOrder(m)

Numbered == \A m \in Open : m.rq \in 1..serial

IInv == TypeOK /\ CacheExact /\ ResponseMatches /\ Numbered /\ Rounds

\* What a peer may be asked is a request, of an id and a number.
LEMMA OpenMessages ==
  ASSUME IInv, NEW m \in Open
  PROVE  /\ m \in [id : Id, rq : 1..MaxRequests]
         /\ m.rq \in 1..serial
<1>1. m.rq \in 1..serial /\ serial \in 0..MaxRequests
  BY DEF IInv, Numbered, TypeOK
<1>2. CASE m \in wire
  BY <1>1, <1>2 DEF IInv, TypeOK
<1>3. CASE m \in Queued
  <2>1. PICK e \in EndPoint : m \in queue[e]
    BY <1>3 DEF Queued
  <2> QED BY <1>1, <2>1 DEF IInv, TypeOK
<1>4. CASE m \in {mine[r] : r \in Active}
  <2>1. m \in [id : Id, rq : 0..MaxRequests]
    BY <1>4 DEF IInv, TypeOK, Active
  <2> QED BY <1>1, <2>1, RequestAssumption
<1> QED BY <1>2, <1>3, <1>4 DEF Open

-----------------------------------------------------------------------------
(* Arithmetic on the circle of ids *)

LEMMA Sizes ==
  /\ Cardinality(Requester) \in Nat
  /\ IdSpace \in Nat \ {0}
  /\ Cardinality(Requester) < IdSpace
<1>1. Cardinality(Requester) \in Nat
  BY IdAssumption, FS_CardinalityType
<1> QED BY <1>1, IdAssumption

\* Once round at most.
LEMMA OnceRound ==
  ASSUME NEW n \in Nat \ {0}, NEW a \in Nat, a < 2 * n
  PROVE  a % n = IF a < n THEN a ELSE a - n
<1>1. CASE a < n
  BY <1>1
<1>2. CASE a >= n
  BY <1>2
<1> QED BY <1>1, <1>2

LEMMA IdsOnceRound ==
  \A a \in Nat : a < 2 * IdSpace => a % IdSpace = IF a < IdSpace THEN a ELSE a - IdSpace
<1> SUFFICES ASSUME NEW a \in Nat, a < 2 * IdSpace
             PROVE  a % IdSpace = IF a < IdSpace THEN a ELSE a - IdSpace
  OBVIOUS
<1> QED BY OnceRound, Sizes

LEMMA Tried ==
  ASSUME request_id \in Id, NEW k \in Id
  PROVE  /\ Try(k) = IF request_id + k < IdSpace THEN request_id + k
                                                 ELSE request_id + k - IdSpace
         /\ Try(k) \in Id
<1> DEFINE a == request_id + k
<1>1. a \in Nat /\ a < 2 * IdSpace
  BY Sizes DEF Id
<1>2. Try(k) = a % IdSpace
  BY DEF Try
<1> HIDE DEF a
<1>3. Try(k) = IF a < IdSpace THEN a ELSE a - IdSpace
  BY <1>1, <1>2, IdsOnceRound
<1> QED BY <1>1, <1>3, Sizes DEF Id, a

LEMMA NextInRound ==
  ASSUME NEW i \in Id
  PROVE  /\ NextId(i) = IF i + 1 < IdSpace THEN i + 1 ELSE 0
         /\ NextId(i) \in Id
<1> DEFINE a == i + 1
<1>1. a \in Nat /\ a < 2 * IdSpace
  BY Sizes DEF Id
<1>2. NextId(i) = a % IdSpace
  BY DEF NextId
<1> HIDE DEF a
<1>3. NextId(i) = IF a < IdSpace THEN a ELSE a - IdSpace
  BY <1>1, <1>2, IdsOnceRound
<1> QED BY <1>1, <1>3, Sizes DEF Id, a

\* The ids tried from the present position on, seen from id i.
LEMMA TriedOff ==
  ASSUME request_id \in Id, NEW i \in Id, NEW k \in Id, Passed(i) + k < IdSpace
  PROVE  Off(i, Try(k)) = Passed(i) + k
BY Tried, Sizes DEF Off, Passed, Id

LEMMA OffRange ==
  ASSUME request_id \in Id, NEW i \in Id, NEW j \in Id
  PROVE  /\ Off(i, j) \in 0..(IdSpace - 1)
         /\ Off(i, j) = 0 <=> i = j
         /\ Passed(i) \in 1..IdSpace
BY Sizes DEF Off, Passed, Id

-----------------------------------------------------------------------------
(* Counting *)

LEMMA Subsets ==
  ASSUME NEW S \in SUBSET Requester
  PROVE  /\ IsFiniteSet(S)
         /\ Cardinality(S) \in Nat
         /\ \A T \in SUBSET S : /\ IsFiniteSet(T)
                                /\ Cardinality(T) \in Nat
                                /\ Cardinality(T) <= Cardinality(S)
                                /\ Cardinality(S \ T) = Cardinality(S) - Cardinality(T)
<1>1. IsFiniteSet(S)
  BY IdAssumption, FS_Subset
<1>2. ASSUME NEW T \in SUBSET S
      PROVE  /\ IsFiniteSet(T)
             /\ Cardinality(T) \in Nat
             /\ Cardinality(T) <= Cardinality(S)
             /\ Cardinality(S \ T) = Cardinality(S) - Cardinality(T)
  <2>1. IsFiniteSet(T) /\ Cardinality(T) <= Cardinality(S)
    BY <1>1, FS_Subset
  <2>2. S \cap T = T
    OBVIOUS
  <2>3. Cardinality(S \ T) = Cardinality(S) - Cardinality(S \cap T)
    BY <1>1, FS_Difference
  <2> QED BY <2>1, <2>2, <2>3, FS_CardinalityType
<1> QED BY <1>1, <1>2, FS_CardinalityType

\* A set with n different members that can be listed has at least n.
LEMMA Listed ==
  ASSUME NEW S \in SUBSET Requester, NEW n \in Nat, NEW f \in [0..(n - 1) -> S],
         \A i, j \in 0..(n - 1) : f[i] = f[j] => i = j
  PROVE  n <= Cardinality(S)
<1>1. IsFiniteSet(S)
  BY Subsets
<1>2. f \in Injection(0..(n - 1), S)
  BY DEF Injection, IsInjective
<1>3. Cardinality(0..(n - 1)) <= Cardinality(S)
  BY <1>1, <1>2, FS_Injection
<1>4. Cardinality(0..(n - 1)) = IF 0 > n - 1 THEN 0 ELSE (n - 1) - 0 + 1
  BY FS_Interval
<1>5. Cardinality(S) \in Nat
  BY Subsets
<1> QED BY <1>3, <1>4, <1>5

-----------------------------------------------------------------------------
(* The search for a free id *)

LEMMA Smallest ==
  ASSUME NEW T \in SUBSET Nat, T # {}
  PROVE  \E k \in T : \A j \in T : k <= j
<1>1. PICK k \in T : \A j \in T : ~(<<j, k>> \in OpToRel(<, Nat))
  BY NatLessThanWellFounded, WFMin
<1>2. \A j \in T : ~(j < k)
  BY <1>1 DEF OpToRel
<1> QED BY <1>2

\* Fewer ids are in use than there are, so that the search ends.
LEMMA SomeFree ==
  ASSUME CacheExact, mine \in [Requester -> [id : Id, rq : 0..MaxRequests]]
  PROVE  Id \ Live # {}
<1> SUFFICES ASSUME Id \subseteq Live PROVE FALSE
  OBVIOUS
<1>1. \A i \in Id : \E r \in Active : mine[r].id = i
  BY DEF CacheExact, Active
<1> DEFINE f == [i \in 0..(IdSpace - 1) |-> CHOOSE r \in Active : mine[r].id = i]
<1>2. \A i \in 0..(IdSpace - 1) : f[i] \in Active /\ mine[f[i]].id = i
  BY <1>1 DEF Id
<1>3. f \in [0..(IdSpace - 1) -> Active]
  BY <1>2
<1>4. \A i, j \in 0..(IdSpace - 1) : f[i] = f[j] => i = j
  BY <1>2
<1> HIDE DEF f
<1>5. Active \in SUBSET Requester
  BY DEF Active
<1>6. IdSpace <= Cardinality(Active)
  BY <1>3, <1>4, <1>5, Listed, Sizes
<1>7. Cardinality(Active) \in Nat /\ Cardinality(Active) <= Cardinality(Requester)
  BY <1>5, Subsets
<1> QED BY <1>6, <1>7, Sizes

LEMMA FirstFreeFound ==
  ASSUME TypeOK, CacheExact
  PROVE  /\ FirstFree \in Id
         /\ Try(FirstFree) \in Id \ Live
         /\ \A j \in 0..(FirstFree - 1) : Try(j) \in Live
<1>1. PICK i \in Id : i \notin Live
  BY SomeFree DEF TypeOK
<1> DEFINE T == {k \in Id : Try(k) \notin Live}
           k0 == Off(request_id, i)
<1>2. request_id \in Id
  BY DEF TypeOK
<1>3. k0 \in Id /\ Try(k0) = i
  <2>1. k0 \in Id
    BY <1>2, Sizes DEF Off, Id
  <2> QED BY <1>2, <2>1, Tried, Sizes DEF Off, Id
<1>4. T \in SUBSET Nat /\ T # {}
  BY <1>1, <1>3, Sizes DEF Id
<1>5. PICK k \in T : \A j \in T : k <= j
  BY <1>4, Smallest
<1>6. \A j \in 0..(k - 1) : Try(j) \in Live
  <2> SUFFICES ASSUME NEW j \in 0..(k - 1) PROVE Try(j) \in Live
    OBVIOUS
  <2>1. j \in Id /\ ~(k <= j)
    BY <1>4, Sizes DEF Id
  <2> QED BY <1>5, <2>1
<1>7. \E kk \in Id : Try(kk) \notin Live /\ \A j \in 0..(kk - 1) : Try(j) \in Live
  BY <1>6
<1>8. FirstFree \in Id /\ Try(FirstFree) \notin Live /\ \A j \in 0..(FirstFree - 1) : Try(j) \in Live
  BY <1>7 DEF FirstFree
<1> QED BY <1>2, <1>8, Tried

-----------------------------------------------------------------------------
(* A new request *)

\* The ids skipped belong to requests ahead of m, one each, and the search
\* ends before it has come round to m's id.
LEMMA Skipped ==
  ASSUME IInv, NEW m \in [id : Id, rq : 1..MaxRequests], InOrder(m), NEW n \in Nat, n <= FirstFree,
         Passed(m.id) + n <= IdSpace
  PROVE  /\ n <= Cardinality({r \in Ahead(m) : Off(m.id, mine[r].id) < Passed(m.id) + n})
         /\ n <= Cardinality(Ahead(m))
<1> DEFINE S == {r \in Ahead(m) : Off(m.id, mine[r].id) < Passed(m.id) + n}
           P == Passed(m.id)
<1>1. request_id \in Id /\ m.id \in Id /\ mine \in [Requester -> [id : Id, rq : 0..MaxRequests]]
  BY DEF IInv, TypeOK
<1>2. P \in 1..IdSpace
  BY <1>1, OffRange
<1>3. FirstFree \in Id /\ \A j \in 0..(FirstFree - 1) : Try(j) \in Live
  BY FirstFreeFound DEF IInv
<1>4. ASSUME NEW j \in 0..(n - 1)
      PROVE  \E r \in S : mine[r].id = Try(j)
  <2>1. j \in 0..(FirstFree - 1) /\ j \in Id
    BY <1>3, Sizes DEF Id
  <2>2. PICK r \in Active : mine[r].id = Try(j)
    BY <1>3, <2>1 DEF IInv, CacheExact, Active
  <2>3. P + j < IdSpace
    BY <1>2, Sizes
  <2>4. Off(m.id, mine[r].id) = P + j
    BY <1>1, <2>1, <2>2, <2>3, TriedOff
  <2> HIDE DEF P
  <2>5. mine[r].id \in Id /\ mine[r].rq \in Nat /\ m.rq \in Nat
    BY <1>1 DEF Active
  <2>6. mine[r].id # m.id
    BY <1>1, <1>2, <2>4, <2>5, OffRange
  <2>7. ~(mine[r].rq > m.rq) /\ mine[r].rq # m.rq
    BY <1>2, <2>2, <2>4, <2>6 DEF InOrder, P
  <2>8. r \in Ahead(m)
    BY <1>2, <2>4, <2>5, <2>7 DEF Ahead, P
  <2> QED BY <1>2, <2>2, <2>4, <2>8 DEF P
<1> DEFINE f == [j \in 0..(n - 1) |-> CHOOSE r \in S : mine[r].id = Try(j)]
<1> HIDE DEF S, P
<1>5. \A j \in 0..(n - 1) : f[j] \in S /\ mine[f[j]].id = Try(j)
  BY <1>4
<1>6. f \in [0..(n - 1) -> S]
  BY <1>5
<1>7. \A i, j \in 0..(n - 1) : f[i] = f[j] => i = j
  <2> SUFFICES ASSUME NEW i \in 0..(n - 1), NEW j \in 0..(n - 1), f[i] = f[j]
               PROVE  i = j
    OBVIOUS
  <2>1. i \in Id /\ j \in Id
    BY <1>3, Sizes DEF Id
  <2>2. Try(i) = Try(j)
    BY <1>5
  <2> QED BY <1>1, <2>1, <2>2, Tried, Sizes DEF Id
<1> HIDE DEF f
<1>8. S \in SUBSET Ahead(m) /\ Ahead(m) \in SUBSET Requester
  BY DEF S, Ahead, Active
<1>9. n <= Cardinality(S)
  BY <1>6, <1>7, <1>8, Listed
<1>10. Cardinality(S) \in Nat /\ Cardinality(S) <= Cardinality(Ahead(m)) /\ Cardinality(Ahead(m)) \in Nat
  BY <1>8, Subsets
<1> QED BY <1>9, <1>10 DEF S, P

\* An earlier request stays in order, if it is in time after this one.
LEMMA OrderKept ==
  ASSUME IInv, NEW r \in Requester, NEW e \in EndPoint, start_request(r, e),
         NEW m \in [id : Id, rq : 1..MaxRequests], m.rq <= serial, InOrder(m), InTime(m)'
  PROVE  InOrder(m)'
<1> DEFINE P == Passed(m.id)
           k == FirstFree
           id == Try(k)
           R == Cardinality(Requester)
<1>1. /\ request_id \in Id /\ m.id \in Id /\ m.rq \in Nat
      /\ serial \in Nat
      /\ mine \in [Requester -> [id : Id, rq : 0..MaxRequests]]
      /\ pc \in [Requester -> Label]
  BY RequestAssumption DEF IInv, TypeOK
<1>2. /\ pc[r] = "idle"
      /\ request_id' = NextId(id)
      /\ mine' = [mine EXCEPT ![r] = [id |-> id, rq |-> serial + 1]]
      /\ serial' = serial + 1
      /\ pc' = [pc EXCEPT ![r] = "started"]
  BY DEF start_request, Goto
<1>3. k \in Id /\ id \in Id
  BY FirstFreeFound DEF IInv
<1>4. P \in 1..IdSpace
  BY <1>1, OffRange
<1>5. Ahead(m) \in SUBSET Requester /\ Cardinality(Ahead(m)) \in Nat
  <2>1. Ahead(m) \in SUBSET Requester
    BY DEF Ahead, Active
  <2> QED BY <2>1, Subsets
<1>6. P + Cardinality(Ahead(m)) <= serial - m.rq + R
  BY DEF InOrder
<1>7. serial + 1 - m.rq <= IdSpace - R
  <2>1. serial' - m.rq <= IdSpace - R
    BY DEF InTime
  <2>2. serial' = serial + 1
    BY <1>2
  <2> QED BY <1>1, <2>1, <2>2, Sizes
<1> HIDE DEF P, k, id, R
<1>8. R \in Nat /\ IdSpace \in Nat
  BY Sizes DEF R
<1>9. P + k < IdSpace
  <2> SUFFICES ASSUME P + k >= IdSpace PROVE FALSE
    BY <1>3, <1>4, <1>8 DEF Id
  <2>1. IdSpace - P \in Nat /\ IdSpace - P <= k /\ P + (IdSpace - P) <= IdSpace
    BY <1>3, <1>4, <1>8 DEF Id
  <2>2. IdSpace - P <= Cardinality(Ahead(m))
    BY <2>1, Skipped DEF P, k
  <2> QED BY <1>1, <1>4, <1>5, <1>6, <1>7, <1>8, <2>2
<1>10. Off(m.id, id) = P + k
  BY <1>1, <1>3, <1>9, TriedOff DEF P, id
<1>11. id # m.id
  BY <1>1, <1>3, <1>4, <1>10, OffRange DEF Id
<1>12. Passed(m.id)' = P + k + 1
  <2>1. request_id' = IF id + 1 < IdSpace THEN id + 1 ELSE 0
    BY <1>2, <1>3, NextInRound
  <2>2. Passed(m.id)' = IF request_id' <= m.id THEN request_id' - m.id + IdSpace ELSE request_id' - m.id
    BY DEF Passed
  <2>3. P + k = IF m.id <= id THEN id - m.id ELSE id - m.id + IdSpace
    BY <1>10 DEF Off
  <2> QED BY <1>1, <1>3, <1>8, <1>11, <2>1, <2>2, <2>3 DEF Id
<1>13. Active' = Active \cup {r} /\ r \notin Active
  BY <1>1, <1>2 DEF Active
<1>14. \A q \in Active : mine'[q] = mine[q] /\ mine[q].id \in Id
  BY <1>1, <1>2, <1>13 DEF Active
<1>15. mine'[r].id = id /\ mine'[r].rq = serial + 1
  BY <1>1, <1>2
<1> DEFINE S == {q \in Ahead(m) : Off(m.id, mine[q].id) < P + k}
<1>16. S \in SUBSET Ahead(m) /\ k <= Cardinality(S)
  BY <1>1, <1>3, <1>4, <1>8, <1>9, Skipped DEF P, k, Id
<1>17. Ahead(m)' \in SUBSET (Ahead(m) \ S)
  <2> SUFFICES ASSUME NEW q \in Ahead(m)' PROVE q \in Ahead(m) /\ q \notin S
    OBVIOUS
  <2>1. q \in Active' /\ mine'[q].rq < m.rq /\ Off(m.id, mine'[q].id) >= P + k + 1
    BY <1>12 DEF Ahead, Off
  <2>2. q \in Active
    BY <1>1, <1>13, <1>15, <2>1
  <2>3. mine[q].rq < m.rq /\ Off(m.id, mine[q].id) >= P + k + 1
    BY <1>14, <2>1, <2>2
  <2>4. Off(m.id, mine[q].id) \in Nat
    BY <1>1, <1>14, <2>2, OffRange
  <2>5. Off(m.id, mine[q].id) >= P /\ ~(Off(m.id, mine[q].id) < P + k)
    BY <1>3, <1>4, <2>3, <2>4 DEF Id
  <2> QED BY <2>2, <2>3, <2>5 DEF Ahead, P
<1>18. Cardinality(Ahead(m)') <= Cardinality(Ahead(m)) - k
  <2>1. Cardinality(Ahead(m) \ S) = Cardinality(Ahead(m)) - Cardinality(S) /\ Cardinality(S) \in Nat
    BY <1>5, <1>16, Subsets
  <2>2. Ahead(m) \ S \in SUBSET Requester
    BY <1>5
  <2>3. Cardinality(Ahead(m)') \in Nat /\ Cardinality(Ahead(m)') <= Cardinality(Ahead(m) \ S)
    BY <1>17, <2>2, Subsets
  <2> QED BY <1>3, <1>5, <1>16, <2>1, <2>3 DEF Id
<1>19. Cardinality(Ahead(m)') \in Nat
  BY <1>5, <1>17, Subsets
<1>20. Passed(m.id)' + Cardinality(Ahead(m)') <= serial' - m.rq + R
  BY <1>1, <1>2, <1>3, <1>4, <1>5, <1>6, <1>8, <1>12, <1>18, <1>19 DEF Id
<1>21. ASSUME NEW q \in Active'
       PROVE  /\ mine'[q].rq > m.rq => mine'[q].id # m.id /\ Off(m.id, mine'[q].id) < Passed(m.id)'
              /\ mine'[q].rq = m.rq <=> mine'[q].id = m.id
  <2>1. CASE q = r
    BY <1>1, <1>3, <1>4, <1>10, <1>11, <1>12, <1>15, <2>1 DEF Id
  <2>2. CASE q \in Active
    <3>1. /\ mine[q].rq > m.rq => mine[q].id # m.id /\ Off(m.id, mine[q].id) < P
          /\ mine[q].rq = m.rq <=> mine[q].id = m.id
      BY <2>2 DEF InOrder, P
    <3>2. Off(m.id, mine[q].id) \in Nat
      BY <1>1, <1>14, <2>2, OffRange
    <3> QED BY <1>3, <1>4, <1>12, <1>14, <2>2, <3>1, <3>2 DEF Id
  <2> QED BY <1>13, <2>1, <2>2
<1> QED BY <1>20, <1>21 DEF InOrder, Off, R

\* The new request itself: every other one is older and ahead.
LEMMA OrderBegins ==
  ASSUME IInv, NEW r \in Requester, NEW e \in EndPoint, start_request(r, e),
         NEW m, m = mine'[r]
  PROVE  InOrder(m)'
<1> DEFINE id == m.id
<1>1. /\ request_id \in Id
      /\ serial \in Nat
      /\ mine \in [Requester -> [id : Id, rq : 0..MaxRequests]]
      /\ pc \in [Requester -> Label]
  BY RequestAssumption DEF IInv, TypeOK
<1>2. /\ pc[r] = "idle"
      /\ mine' = [mine EXCEPT ![r] = [id |-> Try(FirstFree), rq |-> serial + 1]]
      /\ request_id' = NextId(Try(FirstFree))
      /\ serial' = serial + 1
      /\ pc' = [pc EXCEPT ![r] = "started"]
  BY DEF start_request, Goto
<1>4. mine'[r] = m /\ id = Try(FirstFree) /\ m.rq = serial + 1
  BY <1>1, <1>2
<1>3. id \in Id /\ id \notin Live
  BY <1>4, FirstFreeFound DEF IInv
<1> HIDE DEF id
<1>5. Passed(id)' = 1
  <2>1. request_id' = IF id + 1 < IdSpace THEN id + 1 ELSE 0
    BY <1>2, <1>3, <1>4, NextInRound
  <2>2. Passed(id)' = IF request_id' <= id THEN request_id' - id + IdSpace ELSE request_id' - id
    BY DEF Passed
  <2> QED BY <1>3, <2>1, <2>2, Sizes DEF Id
<1>6. Active' = Active \cup {r} /\ r \notin Active /\ Active \in SUBSET Requester
  BY <1>1, <1>2 DEF Active
<1>7. \A q \in Active : mine'[q] = mine[q] /\ mine[q].id # id /\ mine[q].rq \in 1..serial
  <2> SUFFICES ASSUME NEW q \in Active
               PROVE  mine'[q] = mine[q] /\ mine[q].id # id /\ mine[q].rq \in 1..serial
    OBVIOUS
  <2>1. q \in Requester /\ q # r /\ mine[q] \in Open
    BY <1>6 DEF Active, Open
  <2>2. mine[q].rq \in 1..serial
    BY <2>1 DEF IInv, Numbered
  <2>3. mine[q].id \in Live
    BY DEF IInv, CacheExact, Active
  <2> QED BY <1>1, <1>2, <1>3, <2>1, <2>2, <2>3
<1>8. Ahead(m)' \in SUBSET (Requester \ {r})
  <2> SUFFICES ASSUME NEW q \in Ahead(m)' PROVE q \in Requester \ {r}
    OBVIOUS
  <2>1. q \in Active' /\ mine'[q].rq < m.rq
    BY DEF Ahead
  <2> QED BY <1>1, <1>4, <1>6, <2>1
<1>9. /\ Cardinality(Ahead(m)') \in Nat
      /\ Cardinality(Ahead(m)') <= Cardinality(Requester) - 1
  <2>1. Cardinality(Requester \ {r}) = Cardinality(Requester) - 1
    BY FS_RemoveElement, IdAssumption
  <2> QED BY <1>8, <2>1, Subsets
<1>10. Passed(m.id)' + Cardinality(Ahead(m)') <= serial' - m.rq + Cardinality(Requester)
  BY <1>1, <1>2, <1>4, <1>5, <1>9, Sizes DEF id
<1>11. ASSUME NEW q \in Active'
       PROVE  /\ mine'[q].rq > m.rq => mine'[q].id # m.id /\ Off(m.id, mine'[q].id) < Passed(m.id)'
              /\ mine'[q].rq = m.rq <=> mine'[q].id = m.id
  <2>1. CASE q = r
    BY <1>1, <1>4, <2>1
  <2>2. CASE q \in Active
    BY <1>1, <1>4, <1>7, <2>2 DEF id
  <2> QED BY <1>6, <2>1, <2>2
<1> QED BY <1>10, <1>11 DEF InOrder, Off

LEMMA StartKeeps ==
  ASSUME IInv, NEW r \in Requester, NEW e \in EndPoint, start_request(r, e)
  PROVE  IInv'
<1> DEFINE id == Try(FirstFree)
           new == [client |-> e, rq |-> serial + 1, response |-> 0, expired |-> FALSE]
<1>1. TypeOK /\ CacheExact /\ ResponseMatches /\ Numbered /\ Rounds
  BY DEF IInv
<1>2. /\ pc[r] = "idle"
      /\ serial < MaxRequests
      /\ mine' = [mine EXCEPT ![r] = [id |-> id, rq |-> serial + 1]]
      /\ request_id' = NextId(id)
      /\ serial' = serial + 1
      /\ pc' = [pc EXCEPT ![r] = "started"]
      /\ UNCHANGED <<woken, queue, sending, wire, alive, flushed>>
  BY DEF start_request, Goto, sendVars
<1>3. id \in Id /\ id \notin Live
  BY <1>1, FirstFreeFound
<1>4. requests' = [requests EXCEPT ![id] = new]
  BY <1>3 DEF start_request, Emplace
<1> HIDE DEF id
<1>5. new \in Request /\ new # NoEntry
  <2>1. new \in Request
    BY <1>1, <1>2, RequestAssumption DEF TypeOK, Request
  <2> QED BY <2>1, EntryAssumption
<1>6. TypeOK'
  <2>1. request_id' \in Id
    BY <1>2, <1>3, NextInRound
  <2>2. requests' \in [Id -> Request \cup {NoEntry}]
    BY <1>1, <1>4, <1>5 DEF TypeOK
  <2>3. serial' \in 0..MaxRequests /\ mine' \in [Requester -> [id : Id, rq : 0..MaxRequests]]
    BY <1>1, <1>2, <1>3, RequestAssumption DEF TypeOK
  <2>4. /\ pc' \in [Requester -> Label]
        /\ woken' \subseteq {q \in Requester : pc'[q] = "waiting"}
    BY <1>1, <1>2 DEF TypeOK, Label
  <2> QED BY <1>1, <1>2, <2>1, <2>2, <2>3, <2>4 DEF TypeOK
<1>7. /\ Active' = Active \cup {r} /\ r \notin Active
      /\ \A q \in Active : mine'[q] = mine[q]
      /\ mine'[r].id = id /\ mine'[r].rq = serial + 1
  BY <1>1, <1>2 DEF TypeOK, Active
<1>8. /\ requests'[id] = new
      /\ \A i \in Id \ {id} : requests'[i] = requests[i]
      /\ Live' = Live \cup {id}
  BY <1>1, <1>3, <1>4, <1>5 DEF TypeOK, Live
<1>9. CacheExact'
  <2>1. Live = {mine[q].id : q \in Active}
    BY <1>1 DEF CacheExact, Active
  <2>2. Live' = {mine'[q].id : q \in Active'}
    BY <1>7, <1>8, <2>1
  <2>3. ASSUME NEW q \in Active' PROVE requests'[mine'[q].id].rq = mine'[q].rq
    <3>1. CASE q = r
      BY <1>7, <1>8, <3>1
    <3>2. CASE q \in Active
      <4>1. mine[q].id \in Live /\ mine[q].id \in Id
        BY <3>2, <2>1 DEF Live
      <4>2. requests[mine[q].id].rq = mine[q].rq
        BY <1>1, <3>2 DEF CacheExact, Active
      <4> QED BY <1>3, <1>7, <1>8, <3>2, <4>1, <4>2
    <3> QED BY <1>7, <3>1, <3>2
  <2>4. ASSUME NEW q \in Active', NEW p \in Active', q # p PROVE mine'[q].id # mine'[p].id
    <3>1. \A x \in Active : mine[x].id # id
      BY <1>3, <2>1
    <3>2. \A x, y \in Active : x # y => mine[x].id # mine[y].id
      BY <1>1 DEF CacheExact, Active
    <3> QED BY <1>7, <2>4, <3>1, <3>2
  <2> QED BY <2>2, <2>3, <2>4 DEF CacheExact, Active
<1>10. ResponseMatches'
  <2> SUFFICES ASSUME NEW i \in Live' PROVE requests'[i].response \in {0, requests'[i].rq}
    BY DEF ResponseMatches
  <2>1. CASE i = id
    BY <1>8, <2>1
  <2>2. CASE i \in Live /\ i # id
    BY <1>1, <1>8, <2>2 DEF ResponseMatches, Live
  <2> QED BY <1>8, <2>1, <2>2
<1>11. Open' \subseteq Open \cup {mine'[r]}
  BY <1>2, <1>7 DEF Open, Queued
<1>12. Numbered'
  <2> SUFFICES ASSUME NEW m \in Open' PROVE m.rq \in 1..serial'
    BY DEF Numbered
  <2>1. CASE m \in Open
    <3>1. m.rq \in 1..serial /\ serial \in Nat
      BY <1>1, <2>1, RequestAssumption DEF Numbered, TypeOK
    <3> QED BY <1>2, <3>1
  <2>2. CASE m = mine'[r]
    <3>1. serial \in Nat
      BY <1>1, RequestAssumption DEF TypeOK
    <3> QED BY <1>2, <1>7, <2>2, <3>1
  <2> QED BY <1>11, <2>1, <2>2
<1>13. Rounds'
  <2> SUFFICES ASSUME NEW m \in Open', InTime(m)' PROVE InOrder(m)'
    BY DEF Rounds
  <2>1. CASE m \in Open
    <3>1. m.rq \in 1..serial /\ serial \in 0..MaxRequests
      BY <1>1, <2>1 DEF Numbered, TypeOK
    <3>2. m \in [id : Id, rq : 1..MaxRequests]
      BY <2>1, OpenMessages
    <3>3. InTime(m)
      <4>1. serial' - m.rq <= IdSpace - Cardinality(Requester)
        BY DEF InTime
      <4>2. serial' = serial + 1
        BY <1>2
      <4>3. serial - m.rq <= IdSpace - Cardinality(Requester)
        BY <3>1, <4>1, <4>2, Sizes, RequestAssumption
      <4> QED BY <4>3 DEF InTime
    <3>4. InOrder(m) /\ m.rq <= serial
      BY <1>1, <2>1, <3>1, <3>3, RequestAssumption DEF Rounds
    <3> QED BY <3>2, <3>4, OrderKept
  <2>2. CASE m = mine'[r]
    BY <2>2, OrderBegins
  <2> QED BY <1>11, <2>1, <2>2
<1> QED BY <1>6, <1>9, <1>10, <1>12, <1>13 DEF IInv

-----------------------------------------------------------------------------
(* The other steps *)

\* Nothing but a new request moves the position in the circle.
LEMMA RoundsStay ==
  ASSUME IInv, UNCHANGED <<request_id, serial>>, Active' \subseteq Active,
         \A q \in Active' : mine'[q] = mine[q], wire' \subseteq Open, Queued' \subseteq Open
  PROVE  Rounds' /\ Numbered'
<1>1. Open' \subseteq Open
  BY DEF Open
<1>2. Numbered'
  BY <1>1 DEF IInv, Numbered
<1>3. Rounds'
  <2> SUFFICES ASSUME NEW m \in Open', InTime(m)' PROVE InOrder(m)'
    BY DEF Rounds
  <2>1. InOrder(m)
    BY <1>1 DEF IInv, Rounds, InTime
  <2>2. Passed(m.id)' = Passed(m.id)
    BY DEF Passed
  <2>3. Ahead(m)' \in SUBSET Ahead(m) /\ Ahead(m) \in SUBSET Requester
    BY <2>2 DEF Ahead, Active, Off
  <2>4. /\ Cardinality(Ahead(m)') <= Cardinality(Ahead(m))
        /\ Cardinality(Ahead(m)') \in Nat /\ Cardinality(Ahead(m)) \in Nat
    BY <2>3, Subsets
  <2>5. request_id \in Id /\ m.id \in Id /\ m.rq \in Nat /\ serial \in Nat
    BY <1>1, OpenMessages, RequestAssumption DEF IInv, TypeOK
  <2>6. Passed(m.id) \in Nat
    BY <2>5, OffRange
  <2>7. Passed(m.id)' + Cardinality(Ahead(m)') <= serial' - m.rq + Cardinality(Requester)
    BY <2>1, <2>2, <2>4, <2>5, <2>6, Sizes DEF InOrder
  <2> QED BY <2>1, <2>2, <2>7 DEF InOrder, Off
<1> QED BY <1>2, <1>3

LEMMA ReturnKeeps ==
  ASSUME IInv, NEW r \in Requester, wait_returns(r)
  PROVE  IInv'
<1>1. TypeOK /\ CacheExact /\ ResponseMatches
  BY DEF IInv
<1>2. /\ pc[r] = "waiting"
      /\ requests' = [requests EXCEPT ![mine[r].id] = NoEntry]
      /\ woken' = woken \ {r}
      /\ mine' = [mine EXCEPT ![r] = NoRequest]
      /\ pc' = [pc EXCEPT ![r] = "idle"]
      /\ UNCHANGED <<request_id, serial, queue, sending, wire, alive, flushed>>
  BY DEF wait_returns, Goto, sendVars
<1>3. NoRequest \in [id : Id, rq : 0..MaxRequests]
  BY Sizes, RequestAssumption DEF NoRequest, Id
<1>4. TypeOK'
  BY <1>1, <1>2, <1>3 DEF TypeOK, Label
<1>5. Active' = Active \ {r} /\ r \in Active /\ \A q \in Active' : mine'[q] = mine[q]
  BY <1>1, <1>2 DEF TypeOK, Active
<1>6. mine[r].id \in Id
  BY <1>1 DEF TypeOK
<1>7. Live' = Live \ {mine[r].id} /\ \A i \in Live' : requests'[i] = requests[i]
  BY <1>1, <1>2, <1>6 DEF TypeOK, Live
<1>8. CacheExact'
  <2>1. Live = {mine[q].id : q \in Active}
    BY <1>1 DEF CacheExact, Active
  <2>2. \A x, y \in Active : x # y => mine[x].id # mine[y].id
    BY <1>1 DEF CacheExact, Active
  <2>3. Live' = {mine'[q].id : q \in Active'}
    BY <1>5, <1>7, <2>1, <2>2
  <2>4. \A q \in Active' : requests'[mine'[q].id].rq = mine'[q].rq
    <3> SUFFICES ASSUME NEW q \in Active' PROVE requests'[mine'[q].id].rq = mine'[q].rq
      OBVIOUS
    <3>1. mine'[q].id \in Live' /\ requests[mine[q].id].rq = mine[q].rq
      BY <1>1, <1>5, <2>3 DEF CacheExact, Active
    <3> QED BY <1>5, <1>7, <3>1
  <2> QED BY <1>5, <2>2, <2>3, <2>4 DEF CacheExact, Active
<1>9. ResponseMatches'
  BY <1>1, <1>7 DEF ResponseMatches
<1>10. Rounds' /\ Numbered'
  BY <1>2, <1>5, RoundsStay DEF Open, Queued
<1> QED BY <1>4, <1>8, <1>9, <1>10 DEF IInv

\* The record that a response in time finds is that of its own request.
LEMMA ResponseKeeps ==
  ASSUME IInv, NEW m \in wire, handle_response(m)
  PROVE  IInv'
<1>1. TypeOK /\ CacheExact /\ ResponseMatches /\ Rounds
  BY DEF IInv
<1>2. /\ InTime(m)
      /\ wire' = wire \ {m}
      /\ UNCHANGED <<request_id, serial, mine, pc, queue, sending, alive, flushed>>
  BY DEF handle_response
<1>3. m.id \in Id /\ m.rq \in 1..MaxRequests
  BY <1>1 DEF TypeOK
<1>4. Rounds' /\ Numbered'
  BY <1>2, RoundsStay DEF Open, Queued, Active
<1>5. CASE m.id \in Live
  <2>1. /\ requests' = [requests EXCEPT ![m.id].response = m.rq]
        /\ woken' = woken \cup {r \in Requester : pc[r] = "waiting" /\ mine[r].id \in {m.id}}
    BY <1>5 DEF handle_response, Notify
  <2>2. PICK r \in Active : mine[r].id = m.id
    BY <1>1, <1>5 DEF CacheExact, Active
  <2>3. mine[r].rq = m.rq
    BY <1>1, <1>2, <2>2 DEF Rounds, Open, InOrder
  <2>4. requests[m.id].rq = m.rq /\ requests[m.id] \in Request
    <3>1. requests[mine[r].id].rq = mine[r].rq
      BY <1>1, <2>2 DEF CacheExact, Active
    <3>2. requests[m.id] \in Request
      BY <1>1, <1>3, <1>5 DEF TypeOK, Live
    <3> QED BY <2>2, <2>3, <3>1, <3>2
  <2>5. /\ requests'[m.id] = [requests[m.id] EXCEPT !.response = m.rq]
        /\ \A i \in Id \ {m.id} : requests'[i] = requests[i]
        /\ requests' \in [Id -> Request \cup {NoEntry}]
    <3>1. [requests[m.id] EXCEPT !.response = m.rq] \in Request
      BY <1>3, <2>4, RequestAssumption DEF Request
    <3> QED BY <1>1, <1>3, <2>1, <3>1 DEF TypeOK
  <2>6. requests'[m.id] \in Request /\ requests'[m.id].rq = m.rq /\ requests'[m.id].response = m.rq
    BY <1>3, <2>4, <2>5, RequestAssumption DEF Request
  <2>7. Live' = Live
    BY <1>5, <2>5, <2>6, EntryAssumption DEF Live
  <2>8. \A i \in Id : requests'[i].rq = requests[i].rq
    BY <2>4, <2>5, <2>6
  <2>9. TypeOK'
    BY <1>1, <1>2, <2>1, <2>5 DEF TypeOK
  <2>10. CacheExact'
    <3>1. \A q \in Requester : mine[q].id \in Id
      BY <1>1 DEF TypeOK
    <3> QED BY <1>1, <1>2, <2>7, <2>8, <3>1 DEF CacheExact
  <2>11. ResponseMatches'
    BY <1>1, <2>5, <2>6, <2>7 DEF ResponseMatches, Live
  <2> QED BY <1>4, <2>9, <2>10, <2>11 DEF IInv
<1>6. CASE m.id \notin Live
  <2>1. UNCHANGED <<requests, woken>>
    BY <1>6 DEF handle_response
  <2> QED BY <1>1, <1>2, <1>4, <2>1 DEF IInv, TypeOK, CacheExact, ResponseMatches, Live
<1> QED BY <1>5, <1>6

LEMMA ExpireKeeps ==
  ASSUME IInv, NEW i \in Id, Expire(i)
  PROVE  IInv'
<1>1. TypeOK /\ CacheExact /\ ResponseMatches
  BY DEF IInv
<1>2. /\ requests[i] # NoEntry
      /\ requests' = [requests EXCEPT ![i].expired = TRUE]
      /\ UNCHANGED <<request_id, serial, mine, pc, woken, queue, sending, wire, alive, flushed>>
  BY DEF Expire, Live, sendVars
<1>3. requests[i] \in Request
  BY <1>1, <1>2 DEF TypeOK
<1>4. /\ requests'[i] \in Request
      /\ requests'[i].rq = requests[i].rq /\ requests'[i].response = requests[i].response
      /\ \A j \in Id \ {i} : requests'[j] = requests[j]
      /\ requests' \in [Id -> Request \cup {NoEntry}]
  <2>1. [requests[i] EXCEPT !.expired = TRUE] \in Request
    BY <1>3 DEF Request
  <2>2. /\ [requests[i] EXCEPT !.expired = TRUE].rq = requests[i].rq
        /\ [requests[i] EXCEPT !.expired = TRUE].response = requests[i].response
    BY <1>3 DEF Request
  <2> QED BY <1>1, <1>2, <2>1, <2>2 DEF TypeOK
<1>5. Live' = Live /\ \A j \in Id : requests'[j].rq = requests[j].rq
                                  /\ requests'[j].response = requests[j].response
  BY <1>2, <1>4, EntryAssumption DEF Live
<1>6. TypeOK'
  BY <1>1, <1>2, <1>4 DEF TypeOK
<1>7. CacheExact'
  <2>1. \A q \in Requester : mine[q].id \in Id
    BY <1>1 DEF TypeOK
  <2> QED BY <1>1, <1>2, <1>5, <2>1 DEF CacheExact
<1>8. ResponseMatches'
  BY <1>1, <1>5 DEF ResponseMatches, Live
<1>9. Rounds' /\ Numbered'
  BY <1>2, RoundsStay DEF Open, Queued, Active
<1> QED BY <1>6, <1>7, <1>8, <1>9 DEF IInv

\* Steps that leave the records, the ids and the set of requests alone.
LEMMA QuietKeeps ==
  ASSUME IInv, UNCHANGED <<request_id, requests, serial, mine>>, Active' = Active,
         pc' \in [Requester -> Label],
         woken' \subseteq {r \in Requester : pc'[r] = "waiting"},
         queue' \in [EndPoint -> SUBSET Open], sending' \in [EndPoint -> BOOLEAN],
         wire' \subseteq Open, alive' \in BOOLEAN, flushed' \in BOOLEAN
  PROVE  IInv'
<1>1. /\ wire' \subseteq [id : Id, rq : 1..MaxRequests]
      /\ queue' \in [EndPoint -> SUBSET [id : Id, rq : 1..MaxRequests]]
  BY OpenMessages
<1>2. TypeOK'
  BY <1>1 DEF IInv, TypeOK
<1>3. Live' = Live
  BY DEF Live
<1>4. CacheExact'
  BY <1>3 DEF IInv, CacheExact, Active
<1>5. ResponseMatches'
  BY <1>3 DEF IInv, ResponseMatches
<1>6. Rounds' /\ Numbered'
  <2>1. Queued' \subseteq Open
    BY DEF Queued
  <2> QED BY <2>1, RoundsStay
<1> QED BY <1>2, <1>4, <1>5, <1>6 DEF IInv

-----------------------------------------------------------------------------
(* The theorems *)

LEMMA Initially == Init => IInv
<1> SUFFICES ASSUME Init PROVE IInv
  OBVIOUS
<1>1. Active = {} /\ Open = {}
  BY DEF Init, Active, Open, Queued
<1>2. Live = {}
  BY DEF Init, Live
<1>3. TypeOK
  <2>1. 0 \in Id /\ 0 \in 0..MaxRequests
    BY Sizes, RequestAssumption DEF Id
  <2>2. NoRequest \in [id : Id, rq : 0..MaxRequests]
    BY <2>1 DEF NoRequest
  <2> QED BY <2>1, <2>2 DEF Init, TypeOK, Label
<1>4. CacheExact /\ ResponseMatches
  BY <1>1, <1>2 DEF CacheExact, ResponseMatches, Active
<1> QED BY <1>1, <1>3, <1>4 DEF IInv, Rounds, Numbered

LEMMA StepKeeps == IInv /\ [Next]_vars => IInv'
<1> SUFFICES ASSUME IInv, [Next]_vars PROVE IInv'
  OBVIOUS
<1>1. /\ pc \in [Requester -> Label]
      /\ woken \subseteq {r \in Requester : pc[r] = "waiting"}
      /\ alive \in BOOLEAN /\ flushed \in BOOLEAN
      /\ queue \in [EndPoint -> SUBSET Open] /\ sending \in [EndPoint -> BOOLEAN]
      /\ wire \subseteq Open
  <2>1. wire \subseteq Open /\ \A e \in EndPoint : queue[e] \subseteq Open
    BY DEF Open, Queued
  <2> QED BY <2>1 DEF IInv, TypeOK
<1>2. CASE UNCHANGED vars
  BY <1>1, <1>2, QuietKeeps DEF vars, Active
<1>3. ASSUME NEW r \in Requester, NEW e \in EndPoint, start_request(r, e) PROVE IInv'
  BY <1>3, StartKeeps
<1>4. ASSUME NEW r \in Requester, send(r) PROVE IInv'
  <2>1. Active' = Active /\ mine[r] \in Open
    BY <1>1, <1>4 DEF send, Goto, Active, Open
  <2>2. queue' \in [EndPoint -> SUBSET Open]
    BY <1>1, <1>4, <2>1 DEF send
  <2> QED BY <1>1, <1>4, <2>1, <2>2, QuietKeeps DEF send, Goto, Label
<1>5. ASSUME NEW r \in Requester, FindSession(r) \/ PollQueue(r) \/ wait_response(r) PROVE IInv'
  <2>1. \E l \in Label \ {"idle"} : pc' = [pc EXCEPT ![r] = l]
    BY <1>5 DEF FindSession, PollQueue, wait_response, Goto, Label
  <2>2. /\ UNCHANGED <<request_id, requests, serial, mine, woken, queue, sending, wire, alive, flushed>>
        /\ pc[r] \notin {"idle", "waiting"}
    BY <1>5 DEF FindSession, PollQueue, wait_response, sendVars
  <2>3. Active' = Active
    BY <1>1, <2>1, <2>2 DEF Active
  <2>4. /\ pc' \in [Requester -> Label]
        /\ woken' \subseteq {q \in Requester : pc'[q] = "waiting"}
    BY <1>1, <2>1, <2>2
  <2> QED BY <1>1, <2>2, <2>3, <2>4, QuietKeeps
<1>6. ASSUME NEW r \in Requester, wait_returns(r) PROVE IInv'
  BY <1>6, ReturnKeeps
<1>7. ASSUME NEW r \in Requester, SpuriousWakeup(r) PROVE IInv'
  BY <1>1, <1>7, QuietKeeps DEF SpuriousWakeup, Active, sendVars
<1>8. ASSUME NEW m \in wire, handle_response(m) PROVE IInv'
  BY <1>8, ResponseKeeps
<1>9. ASSUME NEW i \in Id, Expire(i) PROVE IInv'
  BY <1>9, ExpireKeeps
<1>10. CASE do_timeouts \/ shutdown \/ die \/ \E e \in EndPoint : shutdown_client(e)
  <2>1. /\ UNCHANGED <<request_id, requests, serial, mine, pc, queue, sending, wire>>
        /\ woken' \subseteq {r \in Requester : pc[r] = "waiting"}
        /\ alive' \in BOOLEAN /\ flushed' \in BOOLEAN
    BY <1>1, <1>10 DEF do_timeouts, shutdown, die, shutdown_client, Notify, sendVars
  <2> QED BY <1>1, <2>1, QuietKeeps DEF Active
<1>11. ASSUME NEW e \in EndPoint, send_messages(e) PROVE IInv'
  <2>1. PICK m \in queue[e] : /\ queue' = [queue EXCEPT ![e] = @ \ {m}]
                             /\ wire' \in {wire, wire \cup {m}}
    BY <1>11 DEF send_messages
  <2>2. queue' \in [EndPoint -> SUBSET Open] /\ wire' \subseteq Open
    BY <1>1, <2>1
  <2> QED BY <1>1, <1>11, <2>2, QuietKeeps DEF send_messages, Active
<1>12. ASSUME NEW e \in EndPoint, SenderStops(e) \/ SenderResumes(e) PROVE IInv'
  <2>1. /\ UNCHANGED <<request_id, requests, serial, mine, pc, woken, wire, alive, flushed>>
        /\ sending' \in [EndPoint -> BOOLEAN]
        /\ queue' = queue \/ queue' = [queue EXCEPT ![e] = {}]
    BY <1>1, <1>12 DEF SenderStops, SenderResumes
  <2>2. queue' \in [EndPoint -> SUBSET Open]
    BY <1>1, <2>1
  <2> QED BY <1>1, <2>1, <2>2, QuietKeeps DEF Active
<1> QED BY <1>2, <1>3, <1>4, <1>5, <1>6, <1>7, <1>8, <1>9, <1>10, <1>11, <1>12 DEF Next, RequestStep

LEMMA InductiveInvariant == Spec => []IInv
BY Initially, StepKeeps, PTL DEF Spec

\* The variables have the types that the code gives them, for any number of
\* requesters, peers, ids and requests.
THEOREM TypeCorrect == Spec => []TypeOK
<1>1. IInv => TypeOK
  BY DEF IInv
<1> QED BY <1>1, InductiveInvariant, PTL

\* The map of requests holds a record for each request() that has not
\* returned, under an id of its own, and nothing else, whatever the order of
\* starts, responses, timeouts and shutdowns, and however often ids wrap.
THEOREM Exact == Spec => []CacheExact
<1>1. IInv => CacheExact
  BY DEF IInv
<1> QED BY <1>1, InductiveInvariant, PTL

\* handle_response() stores a response in the record of the request that it
\* answers, and never in that of a later one which has been given the same id:
\* with 2^14 ids and n requesters this is safe for a response that comes
\* before 2^14 - n later requests have been made.
THEOREM OwnResponse == Spec => []ResponseMatches
<1>1. IInv => ResponseMatches
  BY DEF IInv
<1> QED BY <1>1, InductiveInvariant, PTL
=============================================================================
