--------------------------- MODULE LibraryProofs ----------------------------
(***************************************************************************)
(* Proofs about the cache, the ring buffer and the range set.              *)
(*                                                                         *)
(* Cache, for any threads, keys, pointers and limits: it owns what it      *)
(* holds, and its size is bounded though the limit is tested without the   *)
(* lock.  A pointer passed to add() is in the caller's hand until it is    *)
(* stored (Hands); only what the map holds is deleted or given back.  What *)
(* is stored and what threads are about to store together stay within the  *)
(* bound (Room): a thread that passes the test found room for its own      *)
(* entry, and one that evicts has taken an entry out.                      *)
(***************************************************************************)
EXTENDS Cache, Ring, RangeSet, Integers, FiniteSetTheorems, SequenceTheorems, TLAPS

Stages == {"none", "replace", "test", "evict", "worst", "insert"}

CacheType ==
  /\ DOMAIN cachemap \subseteq Id
  /\ cachemap \in [DOMAIN cachemap -> [ptr : Ptr, use : 0..MaxTime]]
  /\ limit \in CLimits /\ peak \in CLimits /\ time \in 0..MaxTime
  /\ call \in [CThread -> [pc : Stages, id : Id \cup {0}, ptr : Ptr \cup {NoPtr}, needed : Nat]]
  /\ given \subseteq Ptr /\ freed \subseteq given /\ returned \subseteq given
  /\ twice \in BOOLEAN
  /\ \A t \in CThread :
       /\ call[t].pc \in {"replace", "test", "insert"} => call[t].ptr # NoPtr
       /\ call[t].pc = "worst" => call[t].needed # 0
       /\ call[t].ptr # NoPtr => call[t].id \in Id

\* What a thread in add() has in its hand is its own, and nowhere else.
Hands ==
  /\ Stored \subseteq given
  /\ \A t \in CThread : call[t].ptr # NoPtr =>
       call[t].ptr \in given \ (Stored \cup freed \cup returned)
  /\ \A t, u \in CThread : t # u /\ call[t].ptr # NoPtr => call[t].ptr # call[u].ptr

Inserting == {t \in CThread : call[t].pc = "insert"}

Room == peak # 0 =>
  /\ limit # 0 /\ limit <= peak
  /\ Size + Cardinality(Inserting) <= peak + Cardinality(CThread) - 1

CacheInv == CacheType /\ Owns /\ Hands /\ Room

-----------------------------------------------------------------------------
(* Sizes *)

LEMMA SizesFinite ==
  ASSUME CacheType
  PROVE  /\ IsFiniteSet(DOMAIN cachemap) /\ Size \in Nat /\ Size < CacheUInt
         /\ IsFiniteSet(Inserting) /\ Cardinality(Inserting) \in Nat
         /\ Cardinality(CThread) \in Nat
         /\ Cardinality(Inserting) <= Cardinality(CThread)
         /\ limit \in Nat /\ limit < CacheUInt /\ peak \in Nat
  <1>1. /\ IsFiniteSet(DOMAIN cachemap) /\ Size \in Nat /\ Cardinality(Id) \in Nat
        /\ Size <= Cardinality(Id)
    BY CacheSizes, FS_Subset, FS_CardinalityType DEF CacheType, Size
  <1>2. /\ IsFiniteSet(Inserting) /\ Cardinality(Inserting) \in Nat
        /\ Cardinality(CThread) \in Nat /\ Cardinality(Inserting) <= Cardinality(CThread)
    <2>1. Inserting \in SUBSET CThread
      BY DEF Inserting
    <2> QED BY <2>1, CacheSizes, FS_Subset, FS_CardinalityType
  <1>3. limit \in 0..(CacheUInt - 1) /\ peak \in 0..(CacheUInt - 1)
    BY CacheSizes DEF CacheType
  <1> QED BY <1>1, <1>2, <1>3, CacheSizes

\* A thread that is not about to insert, and then is.
LEMMA InsertingMore ==
  ASSUME CacheType, NEW t \in CThread, t \notin Inserting,
         NEW S, S \subseteq Inserting \cup {t}
  PROVE  IsFiniteSet(S) /\ Cardinality(S) <= Cardinality(Inserting) + 1
         /\ Cardinality(S) \in Nat /\ Cardinality(S) <= Cardinality(CThread)
  <1>1. IsFiniteSet(Inserting \cup {t})
        /\ Cardinality(Inserting \cup {t}) = Cardinality(Inserting) + 1
    BY SizesFinite, FS_AddElement
  <1>2. Inserting \cup {t} \subseteq CThread
    BY DEF Inserting
  <1> QED BY <1>1, <1>2, FS_Subset, FS_CardinalityType, CacheSizes

-----------------------------------------------------------------------------
(* Taking entries out of the map *)

LEMMA Removal ==
  ASSUME CacheType, NEW ids \in SUBSET DOMAIN cachemap, cachemap' = Without(ids)
  PROVE  /\ DOMAIN cachemap' = DOMAIN cachemap \ ids
         /\ \A i \in DOMAIN cachemap' : cachemap'[i] = cachemap[i]
         /\ cachemap' \in [DOMAIN cachemap' -> [ptr : Ptr, use : 0..MaxTime]]
         /\ Stored' \subseteq Stored
         /\ Size' \in Nat /\ Size' <= Size
         /\ ids # {} => Size' < Size
  <1>1. /\ DOMAIN cachemap' = DOMAIN cachemap \ ids
        /\ \A i \in DOMAIN cachemap' : cachemap'[i] = cachemap[i]
    BY DEF Without
  <1>2. cachemap' \in [DOMAIN cachemap' -> [ptr : Ptr, use : 0..MaxTime]]
    BY <1>1 DEF CacheType, Without
  <1>3. Stored' \subseteq Stored
    BY <1>1 DEF Stored
  <1>4. Size' \in Nat /\ Size' <= Size
    BY <1>1, SizesFinite, FS_Subset, FS_CardinalityType DEF Size
  <1>5. ids # {} => Size' < Size
    <2>1. ASSUME NEW i \in ids PROVE Size' < Size
      <3>1. /\ IsFiniteSet(DOMAIN cachemap \ {i})
            /\ Cardinality(DOMAIN cachemap \ {i}) = Cardinality(DOMAIN cachemap) - 1
        BY <2>1, SizesFinite, FS_RemoveElement
      <3>2. Cardinality(DOMAIN cachemap') <= Cardinality(DOMAIN cachemap \ {i})
        <4>1. DOMAIN cachemap' \in SUBSET (DOMAIN cachemap \ {i})
          BY <1>1, <2>1
        <4> QED BY <3>1, <4>1, FS_Subset
      <3> QED BY <3>1, <3>2, <1>4, SizesFinite DEF Size
    <2> QED BY <2>1
  <1> QED BY <1>1, <1>2, <1>3, <1>4, <1>5

\* What leaves the map is deleted, once.
LEMMA RemovalOwns ==
  ASSUME CacheInv, NEW ids \in SUBSET DOMAIN cachemap, cachemap' = Without(ids),
         Delete({cachemap[i].ptr : i \in ids}), UNCHANGED returned
  PROVE  /\ Owns'
         /\ Stored' \cup freed' \cup returned' \subseteq Stored \cup freed \cup returned
         /\ freed' \subseteq given /\ twice' \in BOOLEAN
  <1> DEFINE out == {cachemap[i].ptr : i \in ids}
  <1>1. out \subseteq Stored
    BY DEF Stored
  <1>0. /\ DOMAIN cachemap' = DOMAIN cachemap \ ids
        /\ \A i \in DOMAIN cachemap' : cachemap'[i] = cachemap[i]
    BY Removal DEF CacheInv
  <1>2. out \cap Stored' = {}
    BY <1>0 DEF CacheInv, Owns, Stored
  <1>3. out \cap freed = {} /\ out \cap returned = {}
    BY <1>1 DEF CacheInv, Owns
  <1>4. freed' = freed \cup out /\ twice' = (twice \/ out \cap freed # {})
    BY DEF Delete
  <1>5. twice' = FALSE
    BY <1>3, <1>4 DEF CacheInv, Owns
  <1>6. \A i, j \in DOMAIN cachemap' : i # j => cachemap'[i].ptr # cachemap'[j].ptr
    BY <1>0 DEF CacheInv, Owns
  <1>7. Stored' \subseteq Stored
    BY Removal DEF CacheInv
  <1>8. Stored' \cap (freed' \cup returned') = {} /\ freed' \cap returned' = {}
    BY <1>2, <1>3, <1>4, <1>7 DEF CacheInv, Owns
  <1>9. out \subseteq given /\ freed \subseteq given
    BY <1>1 DEF CacheInv, Hands, CacheType
  <1> HIDE DEF out
  <1>10. Owns'
    BY <1>5, <1>6, <1>8 DEF Owns
  <1> QED BY <1>1, <1>4, <1>5, <1>7, <1>9, <1>10

\* No thread takes a new pointer in hand, and the cache touches none of them.
LEMMA HandsKept ==
  ASSUME CacheInv, given' = given,
         \A t \in CThread : call'[t].ptr \in {call[t].ptr, NoPtr},
         Stored' \subseteq Stored,
         Stored' \cup freed' \cup returned' \subseteq Stored \cup freed \cup returned
  PROVE  Hands'
  <1>1. Stored' \subseteq given'
    BY DEF CacheInv, Hands
  <1>2. \A t \in CThread : call'[t].ptr # NoPtr =>
          call'[t].ptr \in given' \ (Stored' \cup freed' \cup returned')
    BY DEF CacheInv, Hands
  <1>3. \A t, u \in CThread : t # u /\ call'[t].ptr # NoPtr => call'[t].ptr # call'[u].ptr
    BY DEF CacheInv, Hands
  <1> QED BY <1>1, <1>2, <1>3 DEF Hands

\* The limits stay, and nobody has become about to insert without taking an
\* entry out.
LEMMA RoomKept ==
  ASSUME CacheType, Room, UNCHANGED <<limit, peak>>,
         Size' \in Nat, Cardinality(Inserting') \in Nat,
         Size' + Cardinality(Inserting') <= Size + Cardinality(Inserting)
  PROVE  Room'
  BY SizesFinite DEF Room

-----------------------------------------------------------------------------
(* One lemma for each step of add() and evict() *)

CallType == [pc : Stages, id : Id \cup {0}, ptr : Ptr \cup {NoPtr}, needed : Nat]

LEMMA AddKeeps ==
  ASSUME CacheInv, NEW t \in CThread, NEW i \in Id, NEW p \in Ptr, Add(t, i, p)
  PROVE  CacheInv'
  <1> DEFINE new == [NoCall EXCEPT !.pc = "replace", !.id = i, !.ptr = p]
  <1>0. new \in CallType /\ new.pc = "replace" /\ new.id = i /\ new.ptr = p
    BY DEF NoCall, CallType, Stages
  <1> HIDE DEF new
  <1>1. /\ call' = [call EXCEPT ![t] = new]
        /\ p \notin given /\ given' = given \cup {p} /\ p # NoPtr
        /\ call[t].pc = "none"
    BY CacheAssumption DEF Add, NoCall, new
  <1>2. CacheType'
    BY <1>0, <1>1 DEF CacheInv, CacheType, CallType, Add
  <1>3. Owns'
    BY DEF CacheInv, Owns, Add, Stored
  <1>4. Stored' = Stored
    BY DEF Add, Stored
  <1>5. Hands'
    <2>1. call \in [CThread -> CallType]
      BY DEF CacheInv, CacheType, CallType
    <2>2. call'[t].ptr = p /\ \A u \in CThread \ {t} : call'[u] = call[u]
      BY <1>0, <1>1, <2>1
    <2>3. p \notin Stored \cup freed \cup returned
      BY <1>1 DEF CacheInv, Hands, CacheType
    <2>4. \A u \in CThread \ {t} : call[u].ptr # p
      BY <1>1 DEF CacheInv, Hands
    <2>5. UNCHANGED <<freed, returned>>
      BY DEF Add
    <2>6. \A u \in CThread : call'[u].ptr # NoPtr =>
            call'[u].ptr \in given' \ (Stored' \cup freed' \cup returned')
      BY <1>1, <1>4, <2>2, <2>3, <2>5 DEF CacheInv, Hands
    <2>7. \A u, v \in CThread : u # v /\ call'[u].ptr # NoPtr => call'[u].ptr # call'[v].ptr
      BY <1>1, <2>2, <2>4 DEF CacheInv, Hands
    <2> QED BY <1>1, <1>4, <2>6, <2>7 DEF CacheInv, Hands
  <1>6. Inserting' = Inserting
    BY <1>0, <1>1 DEF CacheInv, CacheType, Inserting
  <1>7. Room'
    BY <1>6 DEF CacheInv, Room, Size, Add
  <1> QED BY <1>2, <1>3, <1>5, <1>7 DEF CacheInv

LEMMA DropOldKeeps ==
  ASSUME CacheInv, NEW t \in CThread, DropOld(t)
  PROVE  CacheInv'
  <1> DEFINE old == {call[t].id} \cap DOMAIN cachemap
  <1>1. /\ cachemap' = Without(old) /\ Delete({cachemap[i].ptr : i \in old})
        /\ call' = [call EXCEPT ![t].pc = "test"]
        /\ UNCHANGED <<limit, peak, time, given, returned>>
        /\ call[t].pc = "replace" /\ old \in SUBSET DOMAIN cachemap
    BY DEF DropOld
  <1> HIDE DEF old
  <1>2. call \in [CThread -> CallType]
    BY DEF CacheInv, CacheType, CallType
  <1>3. /\ Owns' /\ freed' \subseteq given /\ twice' \in BOOLEAN
        /\ Stored' \cup freed' \cup returned' \subseteq Stored \cup freed \cup returned
    BY <1>1, RemovalOwns
  <1>4. /\ DOMAIN cachemap' \subseteq DOMAIN cachemap
        /\ cachemap' \in [DOMAIN cachemap' -> [ptr : Ptr, use : 0..MaxTime]]
        /\ Stored' \subseteq Stored /\ Size' \in Nat /\ Size' <= Size
    BY <1>1, Removal DEF CacheInv
  <1>5. CacheType'
    BY <1>1, <1>3, <1>4 DEF CacheInv, CacheType, Stages
  <1>6. \A u \in CThread : call'[u].ptr = call[u].ptr
    BY <1>1, <1>2 DEF CallType
  <1>7. Hands'
    BY <1>1, <1>3, <1>4, <1>6, HandsKept
  <1>8. Inserting' = Inserting
    BY <1>1, <1>2 DEF Inserting, CallType
  <1>9. Room'
    BY <1>1, <1>4, <1>8, RoomKept, SizesFinite DEF CacheInv
  <1> QED BY <1>3, <1>5, <1>7, <1>9 DEF CacheInv

LEMMA TestLimitKeeps ==
  ASSUME CacheInv, NEW t \in CThread, TestLimit(t)
  PROVE  CacheInv'
  <1> DEFINE next == IF limit # 0 /\ Size >= limit THEN "evict" ELSE "insert"
  <1>1. /\ call' = [call EXCEPT ![t].pc = next] /\ call[t].pc = "test"
        /\ UNCHANGED <<cachemap, limit, peak, time, given, freed, returned, twice>>
        /\ next \in {"evict", "insert"} /\ (next = "insert" /\ limit # 0 => ~(Size >= limit))
    BY DEF TestLimit
  <1> HIDE DEF next
  <1>2. call \in [CThread -> CallType]
    BY DEF CacheInv, CacheType, CallType
  <1>3. CacheType'
    BY <1>1 DEF CacheInv, CacheType, Stages
  <1>4. Stored' = Stored /\ Size' = Size /\ Owns'
    BY <1>1 DEF CacheInv, Owns, Stored, Size
  <1>5. \A u \in CThread : call'[u].ptr = call[u].ptr
    BY <1>1, <1>2 DEF CallType
  <1>6. Hands'
    BY <1>1, <1>4, <1>5, HandsKept
  <1>7. Room'
    <2>1. t \notin Inserting
      BY <1>1 DEF Inserting
    <2>2. CASE next = "evict"
      <3>1. Inserting' = Inserting
        BY <1>1, <1>2, <2>2 DEF Inserting, CallType
      <3> QED BY <1>1, <1>4, <3>1, RoomKept, SizesFinite DEF CacheInv
    <2>3. CASE next = "insert"
      <3>1. Inserting' \subseteq Inserting \cup {t}
        BY <1>1, <1>2 DEF Inserting, CallType
      <3>2. Cardinality(Inserting') \in Nat /\ Cardinality(Inserting') <= Cardinality(CThread)
        BY <2>1, <3>1, InsertingMore DEF CacheInv
      <3> QED BY <1>1, <1>4, <2>3, <3>2, SizesFinite DEF CacheInv, Room
    <2> QED BY <1>1, <2>2, <2>3
  <1> QED BY <1>3, <1>4, <1>6, <1>7 DEF CacheInv

LEMMA StoreKeeps ==
  ASSUME CacheInv, NEW t \in CThread, Store(t)
  PROVE  CacheInv'
  <1> DEFINE id == call[t].id
             p == call[t].ptr
  <1>1. /\ call' = [call EXCEPT ![t] = NoCall] /\ call[t].pc = "insert"
        /\ UNCHANGED <<limit, peak, time, given, freed, returned, twice>>
        /\ DOMAIN cachemap' = DOMAIN cachemap \cup {id}
        /\ cachemap'[id] = [ptr |-> p, use |-> time]
        /\ \A i \in DOMAIN cachemap \ {id} : cachemap'[i] = cachemap[i]
    BY DEF Store
  <1>2. call \in [CThread -> CallType]
    BY DEF CacheInv, CacheType, CallType
  <1>3. p \in Ptr /\ p # NoPtr /\ id \in Id
    BY <1>1, <1>2 DEF CacheInv, CacheType, CallType
  <1>4. p \in given \ (Stored \cup freed \cup returned)
    BY <1>3 DEF CacheInv, Hands
  <1>5. cachemap' \in [DOMAIN cachemap' -> [ptr : Ptr, use : 0..MaxTime]]
    BY <1>1, <1>3 DEF Store, CacheInv, CacheType
  <1>6. /\ call'[t] = NoCall /\ call'[t].ptr = NoPtr /\ call'[t].pc = "none"
        /\ \A u \in CThread \ {t} : call'[u] = call[u]
    BY <1>1, <1>2 DEF NoCall
  <1>7. CacheType'
    <2>1. call' \in [CThread -> CallType]
      BY <1>1, <1>2 DEF CallType, NoCall, Stages
    <2>2. \A u \in CThread :
            /\ call'[u].pc \in {"replace", "test", "insert"} => call'[u].ptr # NoPtr
            /\ call'[u].pc = "worst" => call'[u].needed # 0
            /\ call'[u].ptr # NoPtr => call'[u].id \in Id
      BY <1>6 DEF CacheInv, CacheType
    <2> QED BY <1>1, <1>3, <1>5, <2>1, <2>2 DEF CacheInv, CacheType, CallType
  <1>8. Stored' \subseteq Stored \cup {p}
    BY <1>1 DEF Stored
  <1>9. Owns'
    <2>1. \A i, j \in DOMAIN cachemap' : i # j => cachemap'[i].ptr # cachemap'[j].ptr
      BY <1>1, <1>4 DEF CacheInv, Owns, Stored
    <2> QED BY <1>1, <1>4, <1>8, <2>1 DEF CacheInv, Owns
  <1>10. Hands'
    <2>1. \A u \in CThread \ {t} : call[u].ptr # p
      BY <1>3 DEF CacheInv, Hands
    <2>2. \A u \in CThread : call'[u].ptr # NoPtr =>
            call'[u].ptr \in given' \ (Stored' \cup freed' \cup returned')
      BY <1>1, <1>6, <1>8, <2>1 DEF CacheInv, Hands
    <2>3. \A u, v \in CThread : u # v /\ call'[u].ptr # NoPtr => call'[u].ptr # call'[v].ptr
      BY <1>6 DEF CacheInv, Hands
    <2> QED BY <1>1, <1>4, <1>8, <2>2, <2>3 DEF CacheInv, Hands
  <1>11. Room'
    <2>1. t \in Inserting /\ Inserting' = Inserting \ {t}
      BY <1>1, <1>6 DEF Inserting
    <2>2. Cardinality(Inserting') = Cardinality(Inserting) - 1 /\ Cardinality(Inserting') \in Nat
      <3>1. IsFiniteSet(Inserting \ {t}) /\ Cardinality(Inserting \ {t}) = Cardinality(Inserting) - 1
        BY <2>1, SizesFinite, FS_RemoveElement DEF CacheInv
      <3> QED BY <2>1, <3>1, FS_CardinalityType
    <2>3. Size' \in Nat /\ Size' <= Size + 1
      <3>1. /\ IsFiniteSet(DOMAIN cachemap \cup {id})
            /\ Cardinality(DOMAIN cachemap \cup {id}) =
                 IF id \in DOMAIN cachemap THEN Size ELSE Size + 1
        BY SizesFinite, FS_AddElement DEF CacheInv, Size
      <3> QED BY <1>1, <3>1, SizesFinite DEF Size, CacheInv
    <2> QED BY <1>1, <2>2, <2>3, RoomKept, SizesFinite DEF CacheInv
  <1> QED BY <1>7, <1>9, <1>10, <1>11 DEF CacheInv

\* What a call becomes when evict() has returned true.
LEMMA EvictedCall ==
  ASSUME NEW c \in CallType
  PROVE  /\ Evicted(c) \in CallType
         /\ Evicted(c).ptr = c.ptr
         /\ Evicted(c).ptr # NoPtr => Evicted(c).id = c.id
         /\ Evicted(c).pc = IF c.ptr = NoPtr THEN "none" ELSE "insert"
  BY DEF Evicted, CallType, NoCall, Stages

\* needed is 0 only when there is room for exactly one more.
LEMMA NoneNeeded ==
  ASSUME CacheType, limit # 0, (Size + CacheUInt + 1 - limit) % CacheUInt = 0
  PROVE  Size + 1 = limit
  <1> DEFINE a == Size + CacheUInt + 1 - limit
  <1>1. /\ a \in Nat /\ CacheUInt \in Nat \ {0} /\ a > 0 /\ a < CacheUInt + CacheUInt
        /\ (a = CacheUInt => Size + 1 = limit) /\ a % CacheUInt = 0
    BY SizesFinite, CacheSizes
  <1> HIDE DEF a
  <1>2. a = CacheUInt
    BY <1>1
  <1> QED BY <1>1, <1>2

LEMMA EvictStartsKeeps ==
  ASSUME CacheInv, NEW t \in CThread, EvictStarts(t)
  PROVE  CacheInv'
  <1> DEFINE needed == (Size + CacheUInt + 1 - limit) % CacheUInt
             c == call[t]
             next == IF needed # 0 THEN [c EXCEPT !.pc = "worst", !.needed = needed]
                                   ELSE Evicted(c)
  <1>1. call \in [CThread -> CallType] /\ c \in CallType
    BY DEF CacheInv, CacheType, CallType
  <1>2. /\ call' = [call EXCEPT ![t] = next] /\ c.pc = "evict"
        /\ UNCHANGED <<cachemap, limit, peak, time, given, freed, returned, twice>>
    BY DEF EvictStarts
  <1>3. needed \in Nat
    <2> DEFINE a == Size + CacheUInt + 1 - limit
    <2>1. a \in Nat /\ CacheUInt \in Nat \ {0}
      BY SizesFinite, CacheSizes DEF CacheInv
    <2> HIDE DEF a
    <2>2. a % CacheUInt \in Nat
      BY <2>1
    <2> QED BY <2>2 DEF a
  <1>4. needed = 0 /\ limit # 0 => Size + 1 = limit
    BY NoneNeeded DEF CacheInv
  <1> HIDE DEF needed, c
  <1>5. /\ next \in CallType /\ next.ptr = c.ptr /\ (next.ptr # NoPtr => next.id = c.id)
        /\ next.pc \in {"worst", "none", "insert"}
        /\ next.pc = "insert" => needed = 0 /\ next.ptr # NoPtr
        /\ next.pc = "worst" => next.needed # 0
    BY <1>1, <1>3, EvictedCall DEF CallType, Stages
  <1> HIDE DEF next
  <1>6. call'[t] = next /\ \A u \in CThread \ {t} : call'[u] = call[u]
    BY <1>1, <1>2
  <1>7. CacheType'
    <2>1. call' \in [CThread -> CallType]
      BY <1>1, <1>2, <1>5
    <2>2. \A u \in CThread :
            /\ call'[u].pc \in {"replace", "test", "insert"} => call'[u].ptr # NoPtr
            /\ call'[u].pc = "worst" => call'[u].needed # 0
            /\ call'[u].ptr # NoPtr => call'[u].id \in Id
      BY <1>5, <1>6 DEF CacheInv, CacheType, c
    <2> QED BY <1>2, <2>1, <2>2 DEF CacheInv, CacheType, CallType
  <1>8. Stored' = Stored /\ Size' = Size /\ Owns'
    BY <1>2 DEF CacheInv, Owns, Stored, Size
  <1>9. Hands'
    <2>1. \A u \in CThread : call'[u].ptr = call[u].ptr
      BY <1>5, <1>6 DEF c
    <2> QED BY <1>2, <1>8, <2>1, HandsKept
  <1>10. Room'
    <2>1. t \notin Inserting
      BY <1>2 DEF Inserting, c
    <2>2. CASE next.pc # "insert"
      <3>1. Inserting' = Inserting
        BY <1>6, <2>1, <2>2 DEF Inserting
      <3> QED BY <1>2, <1>8, <3>1, RoomKept, SizesFinite DEF CacheInv
    <2>3. CASE next.pc = "insert"
      <3>1. Inserting' \subseteq Inserting \cup {t}
        BY <1>6 DEF Inserting
      <3>2. Cardinality(Inserting') \in Nat /\ Cardinality(Inserting') <= Cardinality(CThread)
        BY <2>1, <3>1, InsertingMore DEF CacheInv
      <3>3. limit # 0 => Size + 1 = limit
        BY <1>4, <1>5, <2>3
      <3> QED BY <1>2, <1>8, <3>2, <3>3, SizesFinite DEF CacheInv, Room
    <2> QED BY <2>2, <2>3
  <1> QED BY <1>7, <1>8, <1>9, <1>10 DEF CacheInv

LEMMA EvictOneKeeps ==
  ASSUME CacheInv, NEW t \in CThread, EvictOne(t)
  PROVE  CacheInv'
  <1> DEFINE c == call[t]
             out == Worst
             next == IF out = {} THEN NoCall
                     ELSE IF c.needed = 1 THEN Evicted(c)
                     ELSE [c EXCEPT !.needed = c.needed - 1]
  <1>1. call \in [CThread -> CallType] /\ c \in CallType
    BY DEF CacheInv, CacheType, CallType
  <1>2. /\ cachemap' = Without(out) /\ Delete({cachemap[i].ptr : i \in out})
        /\ call' = [call EXCEPT ![t] = next] /\ c.pc = "worst"
        /\ UNCHANGED <<limit, peak, time, given, returned>>
        /\ out \in SUBSET DOMAIN cachemap
    <2>1. out \in SUBSET DOMAIN cachemap
      BY DEF Worst
    <2>2. /\ cachemap' = Without(out) /\ Delete({cachemap[i].ptr : i \in out})
          /\ c.pc = "worst" /\ UNCHANGED <<limit, peak, time, given, returned>>
      BY DEF EvictOne
    <2>3. call' = [call EXCEPT ![t] = next]
      BY DEF EvictOne
    <2> QED BY <2>1, <2>2, <2>3
  <1> HIDE DEF out, c
  <1>3. c.pc = "worst" => c.needed # 0
    BY DEF CacheInv, CacheType, c
  <1>4. /\ next \in CallType /\ next.ptr \in {c.ptr, NoPtr} /\ (next.ptr # NoPtr => next.id = c.id)
        /\ next.pc \in {"worst", "none", "insert"}
        /\ next.pc = "insert" => out # {} /\ next.ptr # NoPtr
        /\ next.pc = "worst" => next.needed # 0
    BY <1>1, <1>2, <1>3, EvictedCall DEF CallType, Stages, NoCall
  <1> HIDE DEF next
  <1>5. call'[t] = next /\ \A u \in CThread \ {t} : call'[u] = call[u]
    BY <1>1, <1>2
  <1>6. /\ Owns' /\ freed' \subseteq given /\ twice' \in BOOLEAN
        /\ Stored' \cup freed' \cup returned' \subseteq Stored \cup freed \cup returned
    BY <1>2, RemovalOwns
  <1>7. /\ DOMAIN cachemap' \subseteq DOMAIN cachemap
        /\ cachemap' \in [DOMAIN cachemap' -> [ptr : Ptr, use : 0..MaxTime]]
        /\ Stored' \subseteq Stored /\ Size' \in Nat /\ Size' <= Size
        /\ out # {} => Size' < Size
    BY <1>2, Removal DEF CacheInv
  <1>8. CacheType'
    <2>1. call' \in [CThread -> CallType]
      BY <1>1, <1>2, <1>4
    <2>2. \A u \in CThread :
            /\ call'[u].pc \in {"replace", "test", "insert"} => call'[u].ptr # NoPtr
            /\ call'[u].pc = "worst" => call'[u].needed # 0
            /\ call'[u].ptr # NoPtr => call'[u].id \in Id
      BY <1>4, <1>5 DEF CacheInv, CacheType, c
    <2> QED BY <1>2, <1>6, <1>7, <2>1, <2>2 DEF CacheInv, CacheType, CallType
  <1>9. Hands'
    <2>1. \A u \in CThread : call'[u].ptr \in {call[u].ptr, NoPtr}
      BY <1>4, <1>5 DEF c
    <2> QED BY <1>2, <1>6, <1>7, <2>1, HandsKept
  <1>10. Room'
    <2>1. t \notin Inserting
      BY <1>2 DEF Inserting, c
    <2>2. CASE next.pc # "insert"
      <3>1. Inserting' = Inserting
        BY <1>5, <2>1, <2>2 DEF Inserting
      <3> QED BY <1>2, <1>7, <3>1, RoomKept, SizesFinite DEF CacheInv
    <2>3. CASE next.pc = "insert"
      <3>1. Inserting' \subseteq Inserting \cup {t}
        BY <1>5 DEF Inserting
      <3>2. Cardinality(Inserting') \in Nat /\ Cardinality(Inserting') <= Cardinality(Inserting) + 1
        BY <2>1, <3>1, InsertingMore DEF CacheInv
      <3> QED BY <1>2, <1>4, <1>7, <2>3, <3>2, RoomKept, SizesFinite DEF CacheInv
    <2> QED BY <2>2, <2>3
  <1> QED BY <1>6, <1>8, <1>9, <1>10 DEF CacheInv

-----------------------------------------------------------------------------
(* The calls with one section *)

LEMMA SetLimitKeeps ==
  ASSUME CacheInv, NEW t \in CThread, NEW l \in CLimits, SetLimit(t, l)
  PROVE  CacheInv'
  <1> DEFINE new == [NoCall EXCEPT !.pc = "evict"]
  <1>1. new \in CallType /\ new.pc = "evict" /\ new.ptr = NoPtr
    BY DEF NoCall, CallType, Stages
  <1> HIDE DEF new
  <1>2. /\ call' = [call EXCEPT ![t] = new] /\ call[t] = NoCall /\ limit' = l
        /\ peak' = IF l = 0 \/ (peak # 0 /\ l > peak) THEN l ELSE peak
        /\ UNCHANGED <<cachemap, time, given, freed, returned, twice>>
    BY DEF SetLimit, new
  <1>3. call \in [CThread -> CallType] /\ NoCall.ptr = NoPtr /\ NoCall.pc = "none"
    BY DEF CacheInv, CacheType, CallType, NoCall
  <1>4. call'[t] = new /\ \A u \in CThread \ {t} : call'[u] = call[u]
    BY <1>2, <1>3
  <1>5. CacheType'
    <2>1. call' \in [CThread -> CallType]
      BY <1>1, <1>2, <1>3
    <2>2. \A u \in CThread :
            /\ call'[u].pc \in {"replace", "test", "insert"} => call'[u].ptr # NoPtr
            /\ call'[u].pc = "worst" => call'[u].needed # 0
            /\ call'[u].ptr # NoPtr => call'[u].id \in Id
      BY <1>1, <1>4 DEF CacheInv, CacheType
    <2> QED BY <1>2, <2>1, <2>2 DEF CacheInv, CacheType, CallType
  <1>6. Stored' = Stored /\ Size' = Size /\ Owns'
    BY <1>2 DEF CacheInv, Owns, Stored, Size
  <1>7. Hands'
    <2>1. \A u \in CThread : call'[u].ptr = call[u].ptr
      BY <1>1, <1>2, <1>3, <1>4
    <2> QED BY <1>2, <1>6, <2>1, HandsKept
  <1>8. Inserting' = Inserting
    BY <1>1, <1>2, <1>3, <1>4 DEF Inserting
  <1>9. Room'
    <2>1. l \in Nat
      BY CacheSizes
    <2> QED BY <1>2, <1>6, <1>8, <2>1, SizesFinite DEF CacheInv, Room
  <1> QED BY <1>5, <1>6, <1>7, <1>9 DEF CacheInv

LEMMA TouchKeeps ==
  ASSUME CacheInv, NEW t \in CThread, NEW i \in Id, TouchEntry(t, i)
  PROVE  CacheInv'
  <1>1. /\ cachemap' = [cachemap EXCEPT ![i].use = time] /\ i \in DOMAIN cachemap
        /\ UNCHANGED <<limit, peak, time, call, given, freed, returned, twice>>
    BY DEF TouchEntry
  <1>2. /\ DOMAIN cachemap' = DOMAIN cachemap
        /\ cachemap' \in [DOMAIN cachemap' -> [ptr : Ptr, use : 0..MaxTime]]
        /\ \A j \in DOMAIN cachemap : cachemap'[j].ptr = cachemap[j].ptr
    BY <1>1 DEF CacheInv, CacheType
  <1>3. CacheType'
    BY <1>1, <1>2 DEF CacheInv, CacheType
  <1>4. Stored' = Stored /\ Size' = Size
    BY <1>2 DEF Stored, Size
  <1>5. Owns'
    BY <1>1, <1>2, <1>4 DEF CacheInv, Owns
  <1>6. Hands'
    BY <1>1, <1>4 DEF CacheInv, Hands
  <1>7. Room'
    BY <1>1, <1>4 DEF CacheInv, Room, Inserting
  <1> QED BY <1>3, <1>5, <1>6, <1>7 DEF CacheInv

LEMMA DetachKeeps ==
  ASSUME CacheInv, NEW t \in CThread, NEW i \in Id, Detach(t, i)
  PROVE  CacheInv'
  <1>1. /\ cachemap' = Without({i}) /\ {i} \in SUBSET DOMAIN cachemap
        /\ returned' = returned \cup {cachemap[i].ptr}
        /\ UNCHANGED <<limit, peak, time, call, given, freed, twice>>
    BY DEF Detach
  <1>2. /\ DOMAIN cachemap' = DOMAIN cachemap \ {i}
        /\ \A j \in DOMAIN cachemap' : cachemap'[j] = cachemap[j]
        /\ cachemap' \in [DOMAIN cachemap' -> [ptr : Ptr, use : 0..MaxTime]]
        /\ Stored' \subseteq Stored /\ Size' \in Nat /\ Size' <= Size
    BY <1>1, Removal DEF CacheInv
  <1>3. cachemap[i].ptr \in Stored
    BY <1>1 DEF Stored
  <1>4. cachemap[i].ptr \notin Stored'
    BY <1>1, <1>2, ZenonT(30) DEF CacheInv, Owns, Stored
  <1>5. CacheType'
    BY <1>1, <1>2, <1>3 DEF CacheInv, CacheType, Hands
  <1>6. Owns'
    <2>1. \A j, k \in DOMAIN cachemap' : j # k => cachemap'[j].ptr # cachemap'[k].ptr
      BY <1>2 DEF CacheInv, Owns
    <2> QED BY <1>1, <1>2, <1>3, <1>4, <2>1 DEF CacheInv, Owns
  <1>7. Hands'
    BY <1>1, <1>2, <1>3, HandsKept
  <1>8. Room'
    BY <1>1, <1>2, RoomKept, SizesFinite DEF CacheInv, Inserting
  <1> QED BY <1>5, <1>6, <1>7, <1>8 DEF CacheInv

LEMMA DiscardKeeps ==
  ASSUME CacheInv, NEW t \in CThread, Discard(t)
  PROVE  CacheInv'
  <1>1. PICK ids \in SUBSET DOMAIN cachemap :
          cachemap' = Without(ids) /\ Delete({cachemap[i].ptr : i \in ids})
    <2>1. Expired \subseteq DOMAIN cachemap
      BY DEF Expired
    <2> QED BY <2>1 DEF Discard
  <1>2. UNCHANGED <<limit, peak, time, call, given, returned>>
    BY DEF Discard
  <1>3. /\ Owns' /\ freed' \subseteq given /\ twice' \in BOOLEAN
        /\ Stored' \cup freed' \cup returned' \subseteq Stored \cup freed \cup returned
    BY <1>1, <1>2, RemovalOwns
  <1>4. /\ DOMAIN cachemap' \subseteq DOMAIN cachemap
        /\ cachemap' \in [DOMAIN cachemap' -> [ptr : Ptr, use : 0..MaxTime]]
        /\ Stored' \subseteq Stored /\ Size' \in Nat /\ Size' <= Size
    BY <1>1, Removal DEF CacheInv
  <1>5. CacheType'
    BY <1>2, <1>3, <1>4 DEF CacheInv, CacheType
  <1>6. Hands'
    BY <1>2, <1>3, <1>4, HandsKept
  <1>7. Room'
    BY <1>2, <1>4, RoomKept, SizesFinite DEF CacheInv, Inserting
  <1> QED BY <1>3, <1>5, <1>6, <1>7 DEF CacheInv

LEMMA TimeKeeps ==
  ASSUME CacheInv, TimePasses
  PROVE  CacheInv'
  <1>1. time' \in 0..MaxTime
    BY CacheAssumption DEF CacheInv, CacheType, TimePasses
  <1> QED BY <1>1 DEF CacheInv, CacheType, Owns, Hands, Room, Stored, Size, Inserting, TimePasses

-----------------------------------------------------------------------------
\* The invariant of the cache, whatever order the sections of add(), evict(),
\* set_limit(), touch(), detach(), remove(), tidy() and clear() take.
THEOREM CacheInvariant == CacheSpec => []CacheInv
  <1>1. CacheInit => CacheInv
    <2> SUFFICES ASSUME CacheInit PROVE CacheInv
      OBVIOUS
    <2>1. DOMAIN cachemap = {} /\ Stored = {}
      BY DEF CacheInit, Stored
    <2>2. \A t \in CThread : call[t] = NoCall
      BY DEF CacheInit
    <2>3. NoCall \in CallType /\ NoCall.ptr = NoPtr /\ NoCall.pc = "none"
      BY DEF NoCall, CallType, Stages
    <2>4. CacheType
      <3>1. cachemap \in [DOMAIN cachemap -> [ptr : Ptr, use : 0..MaxTime]]
        BY DEF CacheInit
      <3>2. call \in [CThread -> CallType]
        BY <2>3 DEF CacheInit
      <3>3. \A t \in CThread :
              /\ call[t].pc \in {"replace", "test", "insert"} => call[t].ptr # NoPtr
              /\ call[t].pc = "worst" => call[t].needed # 0
              /\ call[t].ptr # NoPtr => call[t].id \in Id
        BY <2>2, <2>3
      <3>4. limit \in CLimits /\ peak \in CLimits /\ time \in 0..MaxTime
        BY CacheAssumption DEF CacheInit
      <3>5. /\ given \subseteq Ptr /\ freed \subseteq given /\ returned \subseteq given
            /\ twice \in BOOLEAN
        BY DEF CacheInit
      <3> QED BY <2>1, <3>1, <3>2, <3>3, <3>4, <3>5 DEF CacheType, CallType
    <2>5. Owns
      BY <2>1 DEF CacheInit, Owns
    <2>6. Hands
      BY <2>1, <2>2, <2>3 DEF CacheInit, Hands
    <2>7. Room
      <3>1. Size = 0 /\ Inserting = {} /\ Cardinality({}) = 0
        BY <2>1, <2>2, <2>3, FS_EmptySet DEF Size, Inserting
      <3> QED BY <2>4, <3>1, SizesFinite DEF CacheInit, Room
    <2> QED BY <2>4, <2>5, <2>6, <2>7 DEF CacheInv
  <1>2. CacheInv /\ [CacheNext]_cacheVars => CacheInv'
    <2> SUFFICES ASSUME CacheInv, [CacheNext]_cacheVars PROVE CacheInv'
      OBVIOUS
    <2>1. CASE UNCHANGED cacheVars
      BY <2>1 DEF CacheInv, CacheType, Owns, Hands, Room, Stored, Size, Inserting, cacheVars
    <2>2. CASE CacheNext
      BY <2>2, AddKeeps, DropOldKeeps, TestLimitKeeps, StoreKeeps, EvictStartsKeeps,
         EvictOneKeeps, SetLimitKeeps, TouchKeeps, DetachKeeps, DiscardKeeps, TimeKeeps
         DEF CacheNext
    <2> QED BY <2>1, <2>2
  <1> QED BY <1>1, <1>2, PTL DEF CacheSpec

\* PointerCache never holds a pointer twice, nor one that it has deleted or
\* given away with detach(), and deletes none twice, for any number of threads.
THEOREM CacheOwns == CacheSpec => []Owns
  <1>1. CacheInv => Owns
    BY DEF CacheInv
  <1> QED BY <1>1, CacheInvariant, PTL

\* add() tests the limit without the lock, and still the cache never holds
\* more than the largest limit and one entry for each other thread.
THEOREM CacheBounded == CacheSpec => []SizeBounded
  <1>1. CacheInv => SizeBounded
    <2> SUFFICES ASSUME CacheInv PROVE SizeBounded
      OBVIOUS
    <2> QED BY SizesFinite DEF CacheInv, Room, SizeBounded
  <1> QED BY <1>1, CacheInvariant, PTL

-----------------------------------------------------------------------------
(***************************************************************************)
(* The ring, for any length: put() and get() alternate in any order and    *)
(* the items between the indices are those of a bounded queue.  The slot   *)
(* that the putter writes is outside that part until it is published, and  *)
(* an index that flush_from_get() has loaded stays inside it until it is   *)
(* stored.                                                                 *)
(***************************************************************************)

\* The slot that a number up to twice the ring's length stands for.
Slot(n) == IF n > Length THEN n - (Length + 1) ELSE n

\* How many steps round the ring from a to b.
Distance(a, b) == IF a <= b THEN b - a ELSE b + Length + 1 - a

\* The items from o to i.
Part(its, o, i) == [n \in 1 .. Distance(o, i) |-> its[Slot(o + n - 1)]]

Item == 0 .. MaxPuts

RingType ==
  /\ items \in [Slots -> Item] /\ in_index \in Slots /\ out_index \in Slots
  /\ puts \in 1 .. (MaxPuts + 1) /\ got \in Item /\ latest \in Item
  /\ putter \in [pc : {"rest", "write", "publish"}, index : Slots]
  /\ getter \in [pc : {"rest", "copy", "release", "flush"}, index : Slots]

RingInv ==
  /\ RingType
  /\ putter.pc # "rest" => putter.index = inc(in_index) /\ ~Full /\ puts <= MaxPuts
  /\ putter.pc = "publish" => items[in_index] = puts
  /\ getter.pc \in {"copy", "release"} => out_index # in_index
  /\ getter.pc = "release" => got = items[out_index]
  /\ getter.pc = "flush" => Distance(out_index, getter.index) <= Distance(out_index, in_index)

LEMMA Wraps ==
  ASSUME NEW n \in Nat, n <= Length + Length + 1
  PROVE  n % (Length + 1) = Slot(n) /\ Slot(n) \in Slots
  <1> DEFINE m == Length + 1
  <1>1. m \in Nat \ {0} /\ n < m + m /\ (n > Length <=> n >= m)
    BY RingAssumption
  <1>2. Slot(n) = IF n >= m THEN n - m ELSE n
    BY <1>1, RingAssumption DEF Slot
  <1>3. Slot(n) \in Slots
    BY RingAssumption DEF Slot, Slots
  <1> HIDE DEF m
  <1>4. n % m = IF n >= m THEN n - m ELSE n
    BY <1>1
  <1> QED BY <1>2, <1>3, <1>4 DEF m

LEMMA Spans ==
  ASSUME NEW a \in Slots, NEW b \in Slots
  PROVE  /\ Distance(a, b) \in 0 .. Length
         /\ Distance(a, b) = 0 <=> a = b
         /\ inc(b) \in Slots
         /\ inc(b) # a => Distance(a, inc(b)) = Distance(a, b) + 1
         /\ a # b => Distance(inc(a), b) = Distance(a, b) - 1
         /\ Slot(a + Distance(a, b)) = b
         /\ \A n \in 1 .. Distance(a, b) : Slot(a + n - 1) \in Slots \ {b}
         /\ \A n \in 1 .. Distance(a, b) : n < Distance(a, b) => Slot(inc(a) + n - 1) = Slot(a + n)
  BY RingAssumption DEF Distance, Slots, inc, Slot

\* Three slots met in this order going round the ring.
LEMMA Between ==
  ASSUME NEW a \in Slots, NEW b \in Slots, NEW c \in Slots, Distance(a, b) <= Distance(a, c)
  PROVE  /\ Distance(a, c) = Distance(a, b) + Distance(b, c)
         /\ \A n \in 1 .. Distance(b, c) : Slot(b + n - 1) = Slot(a + (Distance(a, b) + n) - 1)
  BY RingAssumption DEF Distance, Slots, Slot

LEMMA Parts ==
  ASSUME NEW f \in [Slots -> Item], NEW o \in Slots, NEW i \in Slots
  PROVE  /\ Part(f, o, i) \in Seq(Item)
         /\ Len(Part(f, o, i)) = Distance(o, i)
         /\ \A n \in 1 .. Distance(o, i) : Part(f, o, i)[n] = f[Slot(o + n - 1)]
         /\ Part(f, o, i) = << >> <=> o = i
  <1>1. Distance(o, i) \in Nat /\ \A n \in 1 .. Distance(o, i) : Slot(o + n - 1) \in Slots
    BY Spans, RingAssumption
  <1>2. Part(f, o, i) \in [1 .. Distance(o, i) -> Item]
    BY <1>1 DEF Part
  <1>3. Part(f, o, i) \in Seq(Item) /\ Len(Part(f, o, i)) = Distance(o, i)
    BY <1>1, <1>2, IsASeq, LenProperties
  <1>4. \A n \in 1 .. Distance(o, i) : Part(f, o, i)[n] = f[Slot(o + n - 1)]
    BY DEF Part
  <1>5. Part(f, o, i) = << >> <=> Len(Part(f, o, i)) = 0
    BY <1>3, EmptySeq
  <1> QED BY <1>3, <1>4, <1>5, Spans

\* What a put, a get and a flush make of the items between the indices.
LEMMA PartPut ==
  ASSUME NEW f \in [Slots -> Item], NEW o \in Slots, NEW i \in Slots, inc(i) # o
  PROVE  /\ Part(f, o, inc(i)) = Append(Part(f, o, i), f[i])
         /\ Len(Part(f, o, i)) < Length
  <1> DEFINE q == Part(f, o, i)
             r == Part(f, o, inc(i))
             k == Distance(o, i)
  <1>1. /\ inc(i) \in Slots /\ k \in Nat /\ Distance(o, inc(i)) = k + 1 /\ k + 1 \in 0 .. Length
        /\ Slot(o + (k + 1) - 1) = i /\ f[i] \in Item
    <2>1. k \in 0 .. Length /\ inc(i) \in Slots /\ Distance(o, inc(i)) = k + 1 /\ Slot(o + k) = i
      BY Spans
    <2>2. Distance(o, inc(i)) \in 0 .. Length
      BY <2>1, Spans
    <2> HIDE DEF k
    <2>3. k \in Nat /\ o + (k + 1) - 1 = o + k
      BY <2>1, RingAssumption DEF Slots
    <2> QED BY <2>1, <2>2, <2>3
  <1>2. /\ q \in Seq(Item) /\ Len(q) = k
        /\ \A n \in 1 .. k : q[n] = f[Slot(o + n - 1)]
    BY Parts
  <1>3. /\ r \in Seq(Item) /\ Len(r) = k + 1
        /\ \A n \in 1 .. (k + 1) : r[n] = f[Slot(o + n - 1)]
    BY <1>1, Parts
  <1> HIDE DEF q, r, k
  <1>4. /\ Append(q, f[i]) \in Seq(Item) /\ Len(Append(q, f[i])) = k + 1
        /\ \A n \in 1 .. k : Append(q, f[i])[n] = q[n]
        /\ Append(q, f[i])[k + 1] = f[i]
    BY <1>1, <1>2, AppendProperties
  <1>5. \A n \in 1 .. (k + 1) : r[n] = Append(q, f[i])[n]
    <2> SUFFICES ASSUME NEW n \in 1 .. (k + 1) PROVE r[n] = Append(q, f[i])[n]
      OBVIOUS
    <2>1. n \in 1 .. k \/ n = k + 1
      BY <1>1
    <2> QED BY <1>1, <1>2, <1>3, <1>4, <2>1
  <1>6. r = Append(q, f[i])
    BY <1>3, <1>4, <1>5, SeqEqual
  <1> QED BY <1>1, <1>2, <1>6, RingAssumption DEF q, r, k

LEMMA PartGet ==
  ASSUME NEW f \in [Slots -> Item], NEW o \in Slots, NEW i \in Slots, o # i
  PROVE  /\ Part(f, o, i) # << >>
         /\ Head(Part(f, o, i)) = f[o]
         /\ Part(f, inc(o), i) = Tail(Part(f, o, i))
  <1> DEFINE q == Part(f, o, i)
             r == Part(f, inc(o), i)
             k == Distance(o, i)
  <1>1. /\ inc(o) \in Slots /\ k \in Nat \ {0} /\ Distance(inc(o), i) = k - 1
        /\ \A n \in 1 .. (k - 1) : Slot(inc(o) + n - 1) = Slot(o + n)
        /\ Slot(o + 1 - 1) = o
    <2>1. /\ k \in 0 .. Length /\ k # 0 /\ inc(o) \in Slots /\ Distance(inc(o), i) = k - 1
          /\ \A n \in 1 .. k : n < k => Slot(inc(o) + n - 1) = Slot(o + n)
      BY Spans
    <2>2. Slot(o + 1 - 1) = o
      BY RingAssumption DEF Slots, Slot
    <2> HIDE DEF k
    <2>3. \A n \in 1 .. (k - 1) : n \in 1 .. k /\ n < k
      BY <2>1, RingAssumption
    <2> QED BY <2>1, <2>2, <2>3, RingAssumption
  <1>2. /\ q \in Seq(Item) /\ Len(q) = k /\ q # << >>
        /\ \A n \in 1 .. k : q[n] = f[Slot(o + n - 1)]
    BY Parts
  <1>3. /\ r \in Seq(Item) /\ Len(r) = k - 1
        /\ \A n \in 1 .. (k - 1) : r[n] = f[Slot(inc(o) + n - 1)]
    BY <1>1, Parts, SMTT(20)
  <1> HIDE DEF q, r, k
  <1>4. /\ Tail(q) \in Seq(Item) /\ Len(Tail(q)) = k - 1
        /\ \A n \in 1 .. (k - 1) : Tail(q)[n] = q[n + 1]
    BY <1>2, HeadTailProperties
  <1>5. \A n \in 1 .. (k - 1) : r[n] = Tail(q)[n]
    <2> SUFFICES ASSUME NEW n \in 1 .. (k - 1) PROVE r[n] = Tail(q)[n]
      OBVIOUS
    <2>1. n + 1 \in 1 .. k /\ o + (n + 1) - 1 = o + n
      BY <1>1 DEF Slots
    <2>2. r[n] = f[Slot(o + n)]
      BY <1>1, <1>3
    <2>3. q[n + 1] = f[Slot(o + (n + 1) - 1)]
      BY <1>2, <2>1
    <2>4. Tail(q)[n] = q[n + 1]
      BY <1>4
    <2> QED BY <2>1, <2>2, <2>3, <2>4
  <1>6. r = Tail(q)
    BY <1>3, <1>4, <1>5, SeqEqual
  <1>7. Head(q) = q[1] /\ 1 \in 1 .. k
    BY <1>1, <1>2
  <1> QED BY <1>1, <1>2, <1>6, <1>7 DEF q, r

LEMMA PartSkip ==
  ASSUME NEW f \in [Slots -> Item], NEW o \in Slots, NEW i \in Slots, NEW to \in Slots,
         Distance(o, to) <= Distance(o, i)
  PROVE  Part(f, to, i) =
           SubSeq(Part(f, o, i), Distance(o, to) + 1, Len(Part(f, o, i)))
  <1> DEFINE q == Part(f, o, i)
             r == Part(f, to, i)
             k == Distance(o, i)
             d == Distance(o, to)
             s == SubSeq(q, d + 1, k)
  <1>1. /\ k \in Nat /\ d \in Nat /\ d <= k /\ Distance(to, i) = k - d
        /\ \A n \in 1 .. (k - d) : Slot(to + n - 1) = Slot(o + (d + n) - 1)
    BY Spans, Between, RingAssumption
  <1>2. /\ q \in Seq(Item) /\ Len(q) = k
        /\ \A n \in 1 .. k : q[n] = f[Slot(o + n - 1)]
    BY Parts, SMTT(20)
  <1>3. /\ r \in Seq(Item) /\ Len(r) = k - d
        /\ \A n \in 1 .. (k - d) : r[n] = f[Slot(to + n - 1)]
    <2>1. /\ r \in Seq(Item) /\ Len(r) = Distance(to, i)
          /\ \A n \in 1 .. Distance(to, i) : r[n] = f[Slot(to + n - 1)]
      BY Parts, SMTT(20)
    <2> HIDE DEF r, k, d
    <2> QED BY <1>1, <2>1
  <1> HIDE DEF q, r, k, d
  <1>4. /\ s \in Seq(Item) /\ Len(s) = k - d
        /\ \A n \in 1 .. (k - d) : s[n] = q[d + n]
    <2>1. \A n \in (d + 1) .. k : q[n] \in Item
      BY <1>1, <1>2, ElementOfSeq
    <2>2. /\ s \in Seq(Item) /\ Len(s) = IF d + 1 <= k THEN k - (d + 1) + 1 ELSE 0
          /\ \A n \in 1 .. (k - (d + 1) + 1) : s[n] = q[(d + 1) + n - 1]
      BY <1>1, <2>1, SubSeqProperties
    <2> HIDE DEF s
    <2>3. k - (d + 1) + 1 = k - d /\ \A n \in 1 .. (k - d) : (d + 1) + n - 1 = d + n
      BY <1>1
    <2>4. Len(s) = k - d
      BY <1>1, <2>2
    <2> QED BY <2>2, <2>3, <2>4
  <1> HIDE DEF s
  <1>5. \A n \in 1 .. (k - d) : r[n] = s[n]
    <2> SUFFICES ASSUME NEW n \in 1 .. (k - d) PROVE r[n] = s[n]
      OBVIOUS
    <2>1. d + n \in 1 .. k
      BY <1>1
    <2> QED BY <1>1, <1>2, <1>3, <1>4, <2>1
  <1>6. r = s
    BY <1>3, <1>4, <1>5, SeqEqual
  <1> QED BY <1>2, <1>6 DEF s, r, q, k, d

\* The slot at in_index is none of those between the indices.
LEMMA PartWrite ==
  ASSUME NEW f \in [Slots -> Item], NEW o \in Slots, NEW i \in Slots, NEW v \in Item
  PROVE  Part([f EXCEPT ![i] = v], o, i) = Part(f, o, i)
  <1>1. \A n \in 1 .. Distance(o, i) : Slot(o + n - 1) \in Slots \ {i}
    BY Spans
  <1>2. \A n \in 1 .. Distance(o, i) : [f EXCEPT ![i] = v][Slot(o + n - 1)] = f[Slot(o + n - 1)]
    BY <1>1
  <1> QED BY <1>2 DEF Part

LEMMA ContentsPart ==
  ASSUME NEW f, NEW o \in Slots, NEW i \in Slots
  PROVE  [n \in 1 .. Distance(o, i) |-> f[(o + n - 1) % (Length + 1)]] = Part(f, o, i)
  <1>1. Distance(o, i) \in 0 .. Length
    BY Spans
  <1>2. \A n \in 1 .. Distance(o, i) : (o + n - 1) % (Length + 1) = Slot(o + n - 1)
    <2> SUFFICES ASSUME NEW n \in 1 .. Distance(o, i)
                 PROVE  (o + n - 1) % (Length + 1) = Slot(o + n - 1)
      OBVIOUS
    <2> DEFINE m == o + n - 1
    <2>1. m \in Nat /\ m <= Length + Length + 1
      BY <1>1, RingAssumption DEF Slots
    <2> HIDE DEF m
    <2>2. m % (Length + 1) = Slot(m)
      BY <2>1, Wraps
    <2> QED BY <2>2 DEF m
  <1> QED BY <1>2 DEF Part

-----------------------------------------------------------------------------
(* The invariant of the ring *)

LEMMA RingInitial ==
  ASSUME RingInit
  PROVE  RingInv
  BY RingAssumption DEF RingInit, RingInv, RingType, Slots, Item, Rest

LEMMA PutterKeeps ==
  ASSUME RingInv, PutLooks \/ PutWrites \/ PutPublishes
  PROVE  RingInv'
  <1>1. inc(in_index) \in Slots
    BY Spans DEF RingInv, RingType
  <1>2. CASE PutLooks
    BY <1>1, <1>2 DEF RingInv, RingType, PutLooks, Full
  <1>3. CASE PutWrites
    <2>1. /\ items' = [items EXCEPT ![in_index] = puts] /\ putter.pc = "write"
          /\ putter' = [putter EXCEPT !.pc = "publish"]
          /\ UNCHANGED <<in_index, out_index, puts, getter, got, latest>>
      BY <1>3 DEF PutWrites
    <2>2. puts \in Item
      BY <2>1, RingAssumption DEF RingInv, RingType, Item
    <2>3. RingType'
      BY <2>1, <2>2 DEF RingInv, RingType
    <2>4. items'[in_index] = puts
      BY <2>1 DEF RingInv, RingType
    <2>5. getter.pc = "release" => items'[out_index] = items[out_index]
      BY <2>1 DEF RingInv, RingType
    <2>6. putter'.index = putter.index
      BY <2>1 DEF RingInv, RingType
    <2> QED BY <2>1, <2>3, <2>4, <2>5, <2>6 DEF RingInv, Full
  <1>4. CASE PutPublishes
    <2>1. /\ in_index' = inc(in_index) /\ puts' = puts + 1 /\ putter' = Rest
          /\ UNCHANGED <<items, out_index, getter, got, latest>>
          /\ inc(in_index) # out_index /\ puts <= MaxPuts
      BY <1>4 DEF PutPublishes, RingInv, Full
    <2>2. puts' \in 1 .. (MaxPuts + 1)
      BY <2>1, RingAssumption DEF RingInv, RingType
    <2>3. Rest \in [pc : {"rest", "write", "publish"}, index : Slots] /\ Rest.pc = "rest"
      BY RingAssumption DEF Rest, Slots
    <2>4. RingType'
      BY <1>1, <2>1, <2>2, <2>3 DEF RingInv, RingType
    <2>5. getter.pc = "flush" => Distance(out_index, getter.index) <= Distance(out_index, inc(in_index))
      <3>1. Distance(out_index, inc(in_index)) = Distance(out_index, in_index) + 1
        BY <2>1, Spans DEF RingInv, RingType
      <3>2. getter.index \in Slots
        BY DEF RingInv, RingType
      <3>3. Distance(out_index, getter.index) \in Nat /\ Distance(out_index, in_index) \in Nat
        BY <3>2, Spans, RingAssumption DEF RingInv, RingType
      <3> QED BY <3>1, <3>3 DEF RingInv
    <2> QED BY <2>1, <2>3, <2>4, <2>5 DEF RingInv
  <1> QED BY <1>2, <1>3, <1>4

LEMMA GetterKeeps ==
  ASSUME RingInv, GetLooks \/ GetCopies \/ GetReleases
  PROVE  RingInv'
  <1>1. inc(out_index) \in Slots
    BY Spans DEF RingInv, RingType
  <1>2. CASE GetLooks
    BY <1>2 DEF RingInv, RingType, GetLooks, Full
  <1>3. CASE GetCopies
    BY <1>3 DEF RingInv, RingType, GetCopies, Full
  <1>4. CASE GetReleases
    <2>1. /\ out_index' = inc(out_index) /\ latest' = got /\ getter' = Rest
          /\ UNCHANGED <<items, in_index, puts, putter, got>> /\ out_index # in_index
      BY <1>4 DEF GetReleases, RingInv
    <2>2. Rest \in [pc : {"rest", "copy", "release", "flush"}, index : Slots] /\ Rest.pc = "rest"
      BY RingAssumption DEF Rest, Slots
    <2>3. RingType'
      BY <1>1, <2>1, <2>2 DEF RingInv, RingType
    <2>4. inc(in_index) # inc(out_index)
      BY <2>1, RingAssumption DEF RingInv, RingType, inc, Slots
    <2> QED BY <2>1, <2>2, <2>3, <2>4 DEF RingInv, Full
  <1> QED BY <1>2, <1>3, <1>4

LEMMA FlushKeeps ==
  ASSUME RingInv, FlushGetLoads \/ FlushGetStores \/ FlushPut
  PROVE  RingInv'
  <1>1. CASE FlushGetLoads
    <2>1. Distance(out_index, in_index) \in Nat
      BY Spans, RingAssumption DEF RingInv, RingType
    <2> QED BY <1>1, <2>1 DEF RingInv, RingType, FlushGetLoads, Full
  <1>2. CASE FlushGetStores
    <2>1. /\ out_index' = getter.index /\ getter' = Rest
          /\ UNCHANGED <<items, in_index, puts, putter, got, latest>>
          /\ getter.index \in Slots
          /\ Distance(out_index, getter.index) <= Distance(out_index, in_index)
      BY <1>2 DEF FlushGetStores, RingInv, RingType
    <2>2. Rest \in [pc : {"rest", "copy", "release", "flush"}, index : Slots] /\ Rest.pc = "rest"
      BY RingAssumption DEF Rest, Slots
    <2>3. RingType'
      BY <2>1, <2>2 DEF RingInv, RingType
    <2>4. inc(in_index) # out_index => inc(in_index) # getter.index
      BY <2>1, RingAssumption DEF RingInv, RingType, inc, Slots, Distance
    <2> QED BY <2>1, <2>2, <2>3, <2>4 DEF RingInv, Full
  <1>3. CASE FlushPut
    <2>1. puts' \in 1 .. (MaxPuts + 1)
      BY <1>3, RingAssumption DEF RingInv, RingType, FlushPut
    <2> QED BY <1>3, <2>1 DEF RingInv, RingType, FlushPut
  <1> QED BY <1>1, <1>2, <1>3

\* The invariant of the ring, whatever order the two threads' loads, copies
\* and stores take.
THEOREM RingInvariant == RingSpec => []RingInv
  <1>1. RingInv /\ [RingNext]_ringVars => RingInv'
    <2> SUFFICES ASSUME RingInv, [RingNext]_ringVars PROVE RingInv'
      OBVIOUS
    <2>1. CASE UNCHANGED ringVars
      BY <2>1 DEF RingInv, RingType, Full, ringVars
    <2> QED BY <2>1, PutterKeeps, GetterKeeps, FlushKeeps DEF RingNext
  <1> QED BY <1>1, RingInitial, PTL DEF RingSpec

-----------------------------------------------------------------------------
(* The ring is a bounded queue *)

LEMMA ContentsNow ==
  ASSUME RingInv, RingInv'
  PROVE  /\ Contents = Part(items, out_index, in_index)
         /\ Contents' = Part(items', out_index', in_index')
         /\ items \in [Slots -> Item] /\ in_index \in Slots /\ out_index \in Slots
  <1>1. /\ items \in [Slots -> Item] /\ in_index \in Slots /\ out_index \in Slots
        /\ in_index' \in Slots /\ out_index' \in Slots
    BY DEF RingInv, RingType
  <1>2. Contents = [n \in 1 .. Distance(out_index, in_index) |->
                      items[(out_index + n - 1) % (Length + 1)]]
    BY DEF Contents, used, Distance
  <1>3. Contents' = [n \in 1 .. Distance(out_index', in_index') |->
                       items'[(out_index' + n - 1) % (Length + 1)]]
    BY DEF Contents, used, Distance
  <1> QED BY <1>1, <1>2, <1>3, ContentsPart

\* Ring::Buffer, with one thread that puts and one that gets and no lock,
\* implements the bounded queue Fifo for every length: put() appends where it
\* stores in_index, get() and flush_from_get() take from the front where they
\* store out_index.
THEOREM RingRefinesFifo == RingSpec => ImplementsFifo
  <1>1. RingInit => Abstract!FifoInit
    <2> SUFFICES ASSUME RingInit PROVE Contents = << >> /\ latest = 0
      BY DEF Abstract!FifoInit
    <2>1. used = 0
      BY DEF RingInit, used
    <2> QED BY <2>1 DEF Contents, RingInit
  <1>2. RingInv /\ RingInv' /\ [RingNext]_ringVars => [Abstract!FifoNext]_<<Contents, latest>>
    <2> SUFFICES ASSUME RingInv, RingInv', [RingNext]_ringVars
                 PROVE  [Abstract!FifoNext]_<<Contents, latest>>
      OBVIOUS
    <2> USE ContentsNow
    <2>1. CASE UNCHANGED ringVars
      BY <2>1 DEF ringVars
    <2>2. CASE PutLooks \/ GetLooks \/ GetCopies \/ FlushGetLoads
      BY <2>2 DEF PutLooks, GetLooks, GetCopies, FlushGetLoads
    <2>3. CASE PutWrites
      <3>1. puts \in Item
        BY <2>3, RingAssumption DEF PutWrites, RingInv, RingType, Item
      <3> QED BY <2>3, <3>1, PartWrite DEF PutWrites
    <2>4. CASE PutPublishes
      <3>1. /\ in_index' = inc(in_index) /\ UNCHANGED <<items, out_index, latest>>
            /\ inc(in_index) # out_index /\ items[in_index] \in 1 .. MaxPuts
        BY <2>4, RingAssumption DEF PutPublishes, RingInv, RingType, Full
      <3>2. /\ Contents' = Append(Contents, items[in_index])
            /\ Len(Contents) < Length /\ latest' = latest
        BY <3>1, PartPut
      <3> QED BY <3>1, <3>2 DEF Abstract!FifoNext, Abstract!Put
    <2>5. CASE GetReleases
      <3>1. /\ out_index' = inc(out_index) /\ UNCHANGED <<items, in_index>>
            /\ latest' = items[out_index] /\ out_index # in_index
        BY <2>5 DEF GetReleases, RingInv
      <3>2. Contents # << >> /\ latest' = Head(Contents) /\ Contents' = Tail(Contents)
        BY <3>1, PartGet
      <3> QED BY <3>2 DEF Abstract!FifoNext, Abstract!Get
    <2>6. ASSUME NEW to \in Slots, Distance(out_index, to) <= Distance(out_index, in_index),
                 Contents' = Part(items, to, in_index), latest' = latest
          PROVE  [Abstract!FifoNext]_<<Contents, latest>>
      <3>1. Distance(out_index, to) \in Nat /\ (Distance(out_index, to) = 0 => to = out_index)
        BY Spans, RingAssumption
      <3>2. Len(Contents) = Distance(out_index, in_index) /\ Len(Contents) \in Nat
        BY Parts, Spans, RingAssumption, SMTT(20)
      <3>3. Contents' = SubSeq(Contents, Distance(out_index, to) + 1, Len(Contents))
        BY <2>6, PartSkip
      <3>4. CASE Distance(out_index, to) = 0
        BY <2>6, <3>1, <3>4
      <3>5. CASE Distance(out_index, to) # 0
        <4>1. Distance(out_index, to) \in 1 .. Len(Contents)
          BY <2>6, <3>1, <3>2, <3>5
        <4> QED BY <2>6, <3>3, <4>1 DEF Abstract!FifoNext, Abstract!Skip
      <3> QED BY <3>4, <3>5
    <2>7. CASE FlushGetStores
      <3>1. /\ out_index' = getter.index /\ UNCHANGED <<items, in_index, latest>>
            /\ getter.index \in Slots
            /\ Distance(out_index, getter.index) <= Distance(out_index, in_index)
        BY <2>7 DEF FlushGetStores, RingInv, RingType
      <3> QED BY <2>6, <3>1
    <2>8. CASE FlushPut
      <3>1. in_index' = out_index /\ UNCHANGED <<items, out_index, latest>>
        BY <2>8 DEF FlushPut
      <3>2. Contents' = << >> /\ Part(items, in_index, in_index) = << >>
        BY <3>1, Parts
      <3>3. Distance(out_index, in_index) <= Distance(out_index, in_index)
        BY Spans, RingAssumption
      <3> QED BY <2>6, <3>1, <3>2, <3>3
    <2> QED BY <2>1, <2>2, <2>3, <2>4, <2>5, <2>7, <2>8 DEF RingNext
  <1> QED BY <1>1, <1>2, RingInvariant, PTL DEF RingSpec, ImplementsFifo, Abstract!FifoSpec

-----------------------------------------------------------------------------
(***************************************************************************)
(* The range set, for any offsets: no two ranges touch, and together they  *)
(* are the set that the calls ask for.  insert() and remove() are loops,   *)
(* which the model defines by a recursive function of the turns: the loop  *)
(* invariants (Absorbing, Eating) hold after every turn, by induction in   *)
(* the form that a set of numbers without a least one is empty (LeastOf),  *)
(* and each turn goes to a range that starts later, so that the loops end. *)
(***************************************************************************)

(* The ordered set *)

Rng == {r \in [start : Nat, length : Nat] : r.length > 0 /\ r.start + r.length <= MaxOffset + 1}

Past(r) == r.start + r.length
Within(v, r) == v \in Nat /\ r.start <= v /\ v < Past(r)

\* No two ranges overlap or touch.
Apart(R) ==
  /\ R \subseteq Rng
  /\ \A r, x \in R : r = x \/ r.start > Past(x) \/ x.start > Past(r)

LEMMA RangeFacts ==
  ASSUME NEW r \in Rng
  PROVE  /\ r.start \in Nat /\ r.length \in Nat /\ Past(r) \in Nat
         /\ r.start < Past(r) /\ r.start <= MaxOffset /\ Past(r) <= MaxOffset + 1
         /\ End(r) = Past(r) /\ r # NoRange
         /\ MaxOffset \in Nat /\ OffsetSize \in Nat /\ MaxOffset + 1 < OffsetSize
  <1>1. /\ r.start \in Nat /\ r.length \in Nat /\ r.length > 0 /\ r.start + r.length <= MaxOffset + 1
        /\ MaxOffset \in Nat /\ OffsetSize \in Nat /\ MaxOffset + 1 < OffsetSize
    BY OffsetAssumption DEF Rng
  <1>2. (r.start + r.length) % OffsetSize = r.start + r.length
    <2>1. PICK a \in Nat : a = r.start + r.length
      BY <1>1
    <2>2. a < OffsetSize
      BY <1>1, <2>1
    <2> QED BY <1>1, <2>1, <2>2
  <1>3. NoRange.length = 0
    BY DEF NoRange
  <1> QED BY <1>1, <1>2, <1>3 DEF Past, End, Plus

LEMMA SpanFacts ==
  ASSUME NEW s \in Nat, NEW e \in Nat, s < e, e <= MaxOffset + 1
  PROVE  Span(s, e) \in Rng /\ Span(s, e).start = s /\ Past(Span(s, e)) = e
  <1>1. MaxOffset \in Nat /\ OffsetSize \in Nat /\ e < OffsetSize
    BY OffsetAssumption
  <1>2. (e + OffsetSize - s) % OffsetSize = e - s
    BY <1>1
  <1>3. Span(s, e) = [start |-> s, length |-> e - s]
    BY <1>2 DEF Span, RangeOf, Minus
  <1> QED BY <1>3 DEF Rng, Past

LEMMA RangeOfFacts ==
  ASSUME NEW s \in Nat, NEW l \in Nat, l > 0, s + l <= MaxOffset + 1
  PROVE  RangeOf(s, l) \in Rng /\ RangeOf(s, l).start = s /\ Past(RangeOf(s, l)) = s + l
  BY DEF RangeOf, Rng, Past

LEMMA ValuesMember ==
  ASSUME NEW R, R \subseteq Rng, NEW v
  PROVE  v \in Values(R) <=> \E r \in R : Within(v, r)
  <1>1. ASSUME NEW r \in R
        PROVE  v \in r.start .. r.start + r.length - 1 <=> Within(v, r)
    <2>1. r.start \in Nat /\ r.length \in Nat
      BY RangeFacts
    <2> QED BY <2>1 DEF Within, Past
  <1>2. v \in Values(R) <=> \E r \in R : v \in r.start .. r.start + r.length - 1
    BY DEF Values
  <1> QED BY <1>1, <1>2

LEMMA ApartStarts ==
  ASSUME NEW R, Apart(R), NEW x \in R, NEW y \in R
  PROVE  /\ x.start = y.start => x = y
         /\ x.start < y.start => Past(x) < y.start
         /\ \A v : Within(v, x) /\ Within(v, y) => x = y
  <1>1. x \in Rng /\ y \in Rng /\ (x = y \/ x.start > Past(y) \/ y.start > Past(x))
    BY DEF Apart
  <1> QED BY <1>1, RangeFacts DEF Within

LEMMA LeastOf ==
  ASSUME NEW T \in SUBSET Nat, T # {}
  PROVE  \E n \in T : \A m \in T : n <= m
  <1>1. PICK n \in T : \A m \in T : ~(<<m, n>> \in OpToRel(<, Nat))
    BY NatLessThanWellFounded, WFMin
  <1>2. \A m \in T : ~(m < n)
    BY <1>1 DEF OpToRel
  <1> QED BY <1>2

LEMMA FromIs ==
  ASSUME NEW R, R \subseteq Rng, NEW s \in Nat
  PROVE  \/ From(R, s) = NoRange /\ \A x \in R : x.start < s
         \/ /\ From(R, s) \in R /\ From(R, s).start >= s
            /\ \A y \in R : y.start >= s => From(R, s).start <= y.start
  <1>1. CASE \E x \in R : x.start >= s
    <2> DEFINE starts == {n \in Nat : \E x \in R : x.start = n /\ n >= s}
    <2>1. starts \subseteq Nat /\ starts # {}
      BY <1>1, RangeFacts
    <2>3. PICK n \in starts : \A m \in starts : n <= m
      BY <2>1, LeastOf
    <2>4. PICK x \in R : x.start = n /\ n >= s
      OBVIOUS
    <2>5. \A y \in R : y.start >= s => x.start <= y.start
      BY <2>3, <2>4, RangeFacts
    <2>6. \E z \in R : z.start >= s /\ \A y \in R : y.start >= s => z.start <= y.start
      BY <2>4, <2>5
    <2> QED BY <1>1, <2>6 DEF From
  <1>2. CASE ~ \E x \in R : x.start >= s
    BY <1>2, RangeFacts DEF From
  <1> QED BY <1>1, <1>2

LEMMA BeforeIs ==
  ASSUME NEW R, R \subseteq Rng, NEW s \in Nat, \E x \in R : x.start < s
  PROVE  /\ Before(R, s) \in R /\ Before(R, s).start < s
         /\ \A y \in R : y.start < s => y.start <= Before(R, s).start
  <1> DEFINE gaps == {n \in Nat : \E x \in R : x.start + n = s /\ x.start < s}
  <1>1. ASSUME NEW x \in R, x.start < s PROVE s - x.start \in gaps
    BY <1>1, RangeFacts
  <1>2. gaps \subseteq Nat /\ gaps # {}
    BY <1>1
  <1>4. PICK n \in gaps : \A m \in gaps : n <= m
    BY <1>2, LeastOf
  <1>5. PICK x \in R : x.start + n = s /\ x.start < s
    OBVIOUS
  <1>6. ASSUME NEW y \in R, y.start < s PROVE y.start <= x.start
    <2>1. n <= s - y.start
      BY <1>1, <1>4, <1>6
    <2> QED BY <1>5, <2>1, RangeFacts
  <1>7. \E z \in R : z.start < s /\ \A y \in R : y.start < s => y.start <= z.start
    BY <1>5, <1>6
  <1> QED BY <1>7 DEF Before

LEMMA FollowsIs ==
  ASSUME NEW R, Apart(R), NEW it \in R
  PROVE  \/ Follows(R, it) = NoRange /\ \A x \in R : x.start <= it.start
         \/ /\ Follows(R, it) \in R /\ Follows(R, it) # it /\ Past(it) < Follows(R, it).start
            /\ \A x \in R : x.start < Follows(R, it).start => x.start <= it.start
  <1>1. R \subseteq Rng /\ it \in Rng /\ it.start + 1 \in Nat /\ it.start \in Nat
    BY RangeFacts DEF Apart
  <1>2. PICK f : f = Follows(R, it)
    OBVIOUS
  <1>3. \/ f = NoRange /\ \A x \in R : x.start < it.start + 1
        \/ /\ f \in R /\ f.start >= it.start + 1
           /\ \A y \in R : y.start >= it.start + 1 => f.start <= y.start
    BY <1>1, <1>2, FromIs DEF Follows
  <1>4. CASE f = NoRange /\ \A x \in R : x.start < it.start + 1
    BY <1>1, <1>2, <1>4, RangeFacts
  <1>5. CASE f \in R /\ f.start >= it.start + 1 /\ \A y \in R : y.start >= it.start + 1 => f.start <= y.start
    <2>1. f.start \in Nat /\ it.start < f.start
      BY <1>1, <1>5, RangeFacts
    <2>2. Past(it) < f.start /\ f # it
      BY <1>5, <2>1, ApartStarts
    <2>3. \A x \in R : x.start < f.start => x.start <= it.start
      BY <1>1, <1>5, <2>1, RangeFacts
    <2> QED BY <1>2, <1>5, <2>2, <2>3
  <1> QED BY <1>3, <1>4, <1>5

\* Something that starts nowhere yet is added.
LEMMA PutIs ==
  ASSUME NEW R, Apart(R), NEW r \in Rng, \A x \in R : r.start > Past(x) \/ x.start > Past(r)
  PROVE  Put(R, r) = R \cup {r} /\ Apart(R \cup {r})
  <1>1. \A x \in R : x.start # r.start
    BY RangeFacts DEF Apart
  <1> QED BY <1>1 DEF Put, Apart

-----------------------------------------------------------------------------
(* insert() *)

\* The turns of the loop are what its recursive definition says.
LEMMA AbsorbTurns ==
  ASSUME NEW R, NEW first, NEW r
  PROVE  \E f : /\ f[0] = [set |-> R, it |-> first, new |-> r]
                /\ \A n \in 1 .. OffsetSize : f[n] = AbsorbOne(f[n - 1])
                /\ Absorb(R, first, r) = f[OffsetSize]
  <1> DEFINE start == [set |-> R, it |-> first, new |-> r]
             Turns(g, n) == g = [k \in 0 .. n |-> IF k = 0 THEN start ELSE AbsorbOne(g[k - 1])]
             bad == {n \in Nat : ~ \E g : Turns(g, n)}
  <1> HIDE DEF start
  <1>1. bad = {}
    <2> SUFFICES ASSUME bad # {} PROVE FALSE
      OBVIOUS
    <2>1. PICK n \in bad : \A m \in bad : n <= m
      BY LeastOf
    <2>2. n # 0
      <3>1. ASSUME n = 0 PROVE FALSE
        <4>1. PICK g : g = [k \in 0 .. 0 |-> start]
          OBVIOUS
        <4>2. Turns(g, 0)
          BY <4>1
        <4> QED BY <3>1, <4>2
      <3> QED BY <3>1
    <2>3. n - 1 \in Nat /\ n - 1 \notin bad
      <3>1. n \in Nat
        OBVIOUS
      <3> HIDE DEF bad
      <3> QED BY <2>1, <2>2, <3>1
    <2>4. PICK g : Turns(g, n - 1)
      BY <2>3
    <2>5. PICK h : h = [k \in 0 .. n |-> IF k = 0 THEN start ELSE AbsorbOne(g[k - 1])]
      OBVIOUS
    <2>6. \A k \in 0 .. n - 1 : h[k] = g[k]
      BY <2>3, <2>4, <2>5
    <2>7. \A k \in 0 .. n : k # 0 => h[k - 1] = g[k - 1]
      BY <2>3, <2>6
    <2>8. Turns(h, n)
      BY <2>5, <2>7
    <2> QED BY <2>8
  <1>2. OffsetSize \in Nat
    BY OffsetAssumption
  <1>3. \E g : Turns(g, OffsetSize)
    BY <1>1, <1>2
  <1>4. PICK f : f = CHOOSE g : Turns(g, OffsetSize)
    OBVIOUS
  <1>5. Turns(f, OffsetSize)
    BY <1>3, <1>4
  <1>6. Absorb(R, first, r) = f[OffsetSize]
    BY <1>4 DEF Absorb, start
  <1>7. f[0] = start /\ \A n \in 1 .. OffsetSize : f[n] = AbsorbOne(f[n - 1])
    BY <1>2, <1>5
  <1> QED BY <1>6, <1>7 DEF start

\* The loop of insert() at work on R and [s, e): what is behind the iterator is
\* apart from the new range, and nothing is lost or gained.
Absorbing(R, s, e, p) ==
  /\ p.set \subseteq R /\ p.new \in Rng
  /\ p.it = NoRange \/ (p.it \in p.set /\ Past(p.it) >= p.new.start)
  /\ \A x \in p.set : p.it = NoRange \/ x.start < p.it.start => Past(x) < p.new.start
  /\ \A v \in Nat : (\E x \in p.set : Within(v, x)) \/ Within(v, p.new) <=>
                   (\E x \in R : Within(v, x)) \/ (s <= v /\ v < e)

AbsorbEnds(p) == p.it = NoRange \/ ~ OverlapsWith(p.it, p.new)

\* Where the loop starts.
LEMMA BeginIs ==
  ASSUME NEW R, Apart(R), NEW s \in Nat, s <= MaxOffset, NEW first, first = Begin(R, s)
  PROVE  /\ first = NoRange \/ (first \in R /\ Past(first) >= s)
         /\ \A x \in R : first = NoRange \/ x.start < first.start => Past(x) < s
  <1>1. R \subseteq Rng
    BY DEF Apart
  <1>2. NoRange.start = OffsetSize
    BY DEF NoRange
  <1>3. PICK near : near = Nearest(R, s)
    OBVIOUS
  <1>4. PICK from : from = From(R, s)
    OBVIOUS
  <1>5. \/ from = NoRange /\ \A x \in R : x.start < s
        \/ from \in R /\ from.start >= s /\ \A y \in R : y.start >= s => from.start <= y.start
    BY <1>1, <1>4, FromIs
  <1>6. CASE from.start # s /\ \E x \in R : x.start < s
    <2>1. near = Before(R, s)
      BY <1>3, <1>4, <1>6 DEF Nearest
    <2>2. near \in R /\ near.start < s /\ \A y \in R : y.start < s => y.start <= near.start
      BY <1>1, <1>6, <2>1, BeforeIs
    <2>3. near \in Rng /\ End(near) = Past(near) /\ near.start \in Nat /\ Past(near) \in Nat /\ near.start < Past(near)
      BY <1>1, <2>2, RangeFacts
    <2>4. \A x \in R : x.start \in Nat /\ Past(x) \in Nat /\ x.start < Past(x)
      BY <1>1, RangeFacts
    <2>5. \A x \in R : x.start < near.start => Past(x) < near.start
      BY <2>2, ApartStarts
    <2>6. \A x \in R : x.start = near.start => x = near
      BY <2>2, ApartStarts
    <2>7. CASE Past(near) < s
      <3>1. first = Follows(R, near)
        BY <1>3, <2>2, <2>3, <2>7 DEF Begin
      <3>2. \/ first = NoRange /\ \A x \in R : x.start <= near.start
            \/ /\ first \in R /\ first # near /\ Past(near) < first.start
               /\ \A x \in R : x.start < first.start => x.start <= near.start
        BY <2>2, <3>1, FollowsIs
      <3>3. \A x \in R : x.start <= near.start => Past(x) < s
        <4> SUFFICES ASSUME NEW x \in R, x.start <= near.start PROVE Past(x) < s
          OBVIOUS
        <4>1. CASE x.start < near.start
          BY <2>3, <2>4, <2>5, <2>7, <4>1
        <4>2. CASE x.start = near.start
          BY <2>6, <2>7, <4>2
        <4> QED BY <2>3, <2>4, <4>1, <4>2
      <3>4. CASE first = NoRange /\ \A x \in R : x.start <= near.start
        BY <3>3, <3>4
      <3>5. CASE /\ first \in R /\ first # near /\ Past(near) < first.start
                 /\ \A x \in R : x.start < first.start => x.start <= near.start
        <4>1. Past(first) >= s
          BY <2>2, <2>3, <2>4, <3>5
        <4>2. first # NoRange
          BY <1>1, <3>5, RangeFacts
        <4> QED BY <3>3, <3>5, <4>1, <4>2
      <3> QED BY <3>2, <3>4, <3>5
    <2>8. CASE ~(Past(near) < s)
      <3>1. first = near
        BY <1>3, <2>3, <2>8 DEF Begin
      <3>2. near # NoRange
        BY <2>3, RangeFacts
      <3> QED BY <2>2, <2>3, <2>4, <2>5, <2>8, <3>1, <3>2
    <2> QED BY <2>7, <2>8
  <1>7. CASE ~(from.start # s /\ \E x \in R : x.start < s)
    <2>1. near = from
      BY <1>3, <1>4, <1>7 DEF Nearest
    <2>2. ~(near.start < s)
      <3>1. CASE from = NoRange
        <4>1. \A x \in R : s > x.start
          BY <1>5, <3>1, <1>1, RangeFacts
        <4>2. R = {} \/ OffsetSize = s
          BY <1>2, <1>7, <3>1, <4>1
        <4> QED BY <1>2, <2>1, <3>1, <4>1, <4>2, OffsetAssumption, RangeFacts
      <3>2. CASE from \in R /\ from.start >= s
        BY <1>1, <2>1, <3>2, RangeFacts
      <3> QED BY <1>5, <3>1, <3>2
    <2>3. first = from
      BY <1>3, <2>1, <2>2 DEF Begin
    <2>4. CASE from = NoRange
      BY <1>1, <1>2, <1>5, <1>7, <2>3, <2>4, OffsetAssumption, RangeFacts
    <2>5. CASE from \in R /\ from.start >= s /\ \A y \in R : y.start >= s => from.start <= y.start
      <3>1. Past(from) >= s
        BY <1>1, <2>5, RangeFacts
      <3>2. ASSUME NEW x \in R, x.start < from.start PROVE Past(x) < s
        <4>1. x.start < s
          BY <1>1, <2>5, <3>2, RangeFacts
        <4>2. from.start = s
          BY <1>7, <4>1
        <4> QED BY <2>5, <3>2, <4>2, ApartStarts
      <3>3. from # NoRange
        BY <1>1, <2>5, RangeFacts
      <3> QED BY <2>3, <2>5, <3>1, <3>2, <3>3
    <2> QED BY <1>5, <2>4, <2>5
  <1> QED BY <1>6, <1>7

LEMMA MergeFacts ==
  ASSUME NEW a \in Rng, NEW b \in Rng, OverlapsWith(b, a), NEW m, m = Merge(a, b)
  PROVE  /\ m \in Rng
         /\ (m.start = a.start /\ m.start <= b.start) \/ (m.start = b.start /\ m.start <= a.start)
         /\ \A v \in Nat : Within(v, m) <=> Within(v, a) \/ Within(v, b)
  <1>1. /\ a.start \in Nat /\ Past(a) \in Nat /\ a.start < Past(a) /\ End(a) = Past(a)
        /\ b.start \in Nat /\ Past(b) \in Nat /\ b.start < Past(b) /\ End(b) = Past(b)
        /\ Past(a) <= MaxOffset + 1 /\ Past(b) <= MaxOffset + 1
    BY RangeFacts
  <1>2. PICK s : s = Least(a.start, b.start)
    OBVIOUS
  <1>3. PICK e : e = Greatest(End(a), End(b))
    OBVIOUS
  <1>4. /\ s \in Nat /\ s <= a.start /\ s <= b.start /\ (s = a.start \/ s = b.start)
        /\ e \in Nat /\ e >= Past(a) /\ e >= Past(b) /\ (e = Past(a) \/ e = Past(b))
    BY <1>1, <1>2, <1>3 DEF Least, Greatest
  <1>5. s < e /\ e <= MaxOffset + 1
    BY <1>1, <1>4
  <1>6. m \in Rng /\ m.start = s /\ Past(m) = e
    BY <1>2, <1>3, <1>4, <1>5, SpanFacts DEF Merge
  <1>7. b.start <= Past(a) /\ a.start <= Past(b)
    BY <1>1 DEF OverlapsWith
  <1>8. \A v \in Nat : Within(v, m) <=> Within(v, a) \/ Within(v, b)
    BY <1>1, <1>4, <1>6, <1>7 DEF Within
  <1> QED BY <1>4, <1>6, <1>8

LEMMA AbsorbOneKeeps ==
  ASSUME NEW R, Apart(R), NEW s \in Nat, NEW e \in Nat, NEW p, Absorbing(R, s, e, p),
         NEW n \in Nat, AbsorbEnds(p) \/ p.it.start >= n,
         NEW q, q = AbsorbOne(p)
  PROVE  Absorbing(R, s, e, q) /\ (AbsorbEnds(q) \/ q.it.start >= n + 1)
  <1>1. CASE AbsorbEnds(p)
    BY <1>1 DEF AbsorbOne, AbsorbEnds
  <1>2. CASE ~ AbsorbEnds(p)
    <2> DEFINE it == p.it
               next == Follows(p.set, it)
               new == Merge(p.new, it)
    <2>1. q = [set |-> p.set \ {it}, it |-> next, new |-> new]
      BY <1>2 DEF AbsorbOne, AbsorbEnds
    <2>2. /\ p.set \subseteq R /\ Apart(p.set) /\ p.set \subseteq Rng
          /\ it \in p.set /\ it \in Rng /\ p.new \in Rng /\ OverlapsWith(it, p.new)
      BY <1>2 DEF Absorbing, AbsorbEnds, Apart
    <2>3. \A x \in p.set : x.start \in Nat /\ Past(x) \in Nat /\ x.start < Past(x) /\ x # NoRange
      BY <2>2, RangeFacts
    <2>4. /\ new \in Rng /\ new.start \in Nat /\ p.new.start \in Nat
          /\ \/ new.start = p.new.start /\ new.start <= it.start
             \/ new.start = it.start /\ new.start <= p.new.start
      BY <2>2, MergeFacts, RangeFacts
    <2>5. \A v \in Nat : Within(v, new) <=> Within(v, p.new) \/ Within(v, it)
      BY <2>2, MergeFacts
    <2>6. \/ next = NoRange /\ \A x \in p.set : x.start <= it.start
          \/ /\ next \in p.set /\ next # it /\ Past(it) < next.start
             /\ \A x \in p.set : x.start < next.start => x.start <= it.start
      BY <2>2, FollowsIs
    <2>7. \A x \in p.set : x.start < it.start => Past(x) < p.new.start /\ Past(x) < it.start
      BY <2>2, ApartStarts DEF Absorbing
    <2>8. \A x \in p.set \ {it} : x.start <= it.start => Past(x) < new.start
      <3> SUFFICES ASSUME NEW x \in p.set \ {it}, x.start <= it.start PROVE Past(x) < new.start
        OBVIOUS
      <3>1. x.start # it.start
        BY <2>2, ApartStarts
      <3>2. Past(x) < p.new.start /\ Past(x) < it.start
        BY <2>2, <2>3, <2>7, <3>1
      <3> QED BY <2>4, <3>2
    <2>9. ~AbsorbEnds(p) => it.start >= n
      OBVIOUS
    <2>10. \A v \in Nat : (\E x \in p.set \ {it} : Within(v, x)) \/ Within(v, new) <=>
                         (\E x \in p.set : Within(v, x)) \/ Within(v, p.new)
      BY <2>2, <2>5
    <2> HIDE DEF next, new
    <2>11. next = NoRange \/ (next \in p.set \ {it} /\ Past(next) >= new.start /\ next.start >= n + 1)
      BY <1>2, <2>2, <2>3, <2>4, <2>6, <2>9
    <2>12. \A x \in p.set \ {it} : next = NoRange \/ x.start < next.start => Past(x) < new.start
      BY <2>3, <2>6, <2>8
    <2>13. Absorbing(R, s, e, q)
      BY <2>1, <2>2, <2>4, <2>10, <2>11, <2>12 DEF Absorbing
    <2> QED BY <2>1, <2>11, <2>13 DEF AbsorbEnds
  <1> QED BY <1>1, <1>2

LEMMA AbsorbLoop ==
  ASSUME NEW R, Apart(R), NEW s \in Nat, NEW l \in Nat, l > 0, s + l <= MaxOffset + 1,
         NEW end, end = Absorb(R, Begin(R, s), RangeOf(s, l))
  PROVE  Absorbing(R, s, s + l, end) /\ AbsorbEnds(end)
  <1> DEFINE first == Begin(R, s)
             r == RangeOf(s, l)
  <1>1. PICK f : /\ f[0] = [set |-> R, it |-> first, new |-> r]
                 /\ \A n \in 1 .. OffsetSize : f[n] = AbsorbOne(f[n - 1])
                 /\ end = f[OffsetSize]
    BY AbsorbTurns
  <1>2. MaxOffset \in Nat /\ OffsetSize \in Nat /\ MaxOffset < OffsetSize /\ s <= MaxOffset /\ s + l \in Nat
    BY OffsetAssumption
  <1> DEFINE Good(n) == Absorbing(R, s, s + l, f[n]) /\ (AbsorbEnds(f[n]) \/ f[n].it.start >= n)
             bad == {n \in 0 .. OffsetSize : ~Good(n)}
  <1>3. Good(0)
    <2>1. r \in Rng /\ r.start = s /\ Past(r) = s + l
      BY RangeOfFacts
    <2>2. /\ first = NoRange \/ (first \in R /\ Past(first) >= s)
          /\ \A x \in R : first = NoRange \/ x.start < first.start => Past(x) < s
      BY <1>2, BeginIs
    <2>3. \A v \in Nat : Within(v, r) <=> s <= v /\ v < s + l
      BY <2>1 DEF Within
    <2> HIDE DEF first, r
    <2>4. Absorbing(R, s, s + l, f[0])
      BY <1>1, <2>1, <2>2, <2>3 DEF Absorbing
    <2>5. first = NoRange \/ first.start \in Nat
      BY <2>2, RangeFacts DEF Apart
    <2> QED BY <1>1, <2>4, <2>5 DEF AbsorbEnds
  <1>4. ASSUME NEW n \in 1 .. OffsetSize, Good(n - 1) PROVE Good(n)
    <2>1. n - 1 \in Nat /\ (n - 1) + 1 = n /\ f[n] = AbsorbOne(f[n - 1])
      BY <1>1, <1>2
    <2> QED BY <1>2, <1>4, <2>1, AbsorbOneKeeps
  <1>5. bad = {}
    <2> SUFFICES ASSUME bad # {} PROVE FALSE
      OBVIOUS
    <2>1. bad \in SUBSET Nat
      BY <1>2
    <2>2. PICK n \in bad : \A m \in bad : n <= m
      BY <2>1, LeastOf
    <2>3. n \in 0 .. OffsetSize /\ ~Good(n)
      OBVIOUS
    <2>4. n \in 1 .. OffsetSize /\ n - 1 \in 0 .. OffsetSize
      BY <1>2, <1>3, <2>3
    <2>5. n - 1 \in bad
      BY <1>4, <2>3, <2>4
    <2> HIDE DEF bad
    <2> QED BY <2>2, <2>4, <2>5
  <1>6. Good(OffsetSize)
    BY <1>2, <1>5
  <1>7. end.it \in R => end.it.start < OffsetSize /\ end.it.start \in Nat
    BY <1>2, RangeFacts DEF Apart
  <1>8. AbsorbEnds(end)
    BY <1>1, <1>2, <1>6, <1>7 DEF Absorbing, AbsorbEnds
  <1> QED BY <1>1, <1>6, <1>8

LEMMA InsertedIs ==
  ASSUME NEW R, Apart(R), NEW s \in Nat, NEW l \in Nat, l > 0, s + l <= MaxOffset + 1,
         NEW end, end = Absorb(R, Begin(R, s), RangeOf(s, l)),
         NEW made, made = Put(end.set, end.new)
  PROVE  /\ Apart(made) /\ end.new \in Rng
         /\ \A x \in made : x \in R \/ x = end.new
         /\ Values(made) = Values(R) \cup (s .. s + l - 1)
  <1>1. Absorbing(R, s, s + l, end) /\ AbsorbEnds(end)
    BY AbsorbLoop
  <1>2. /\ end.set \subseteq R /\ Apart(end.set) /\ end.set \subseteq Rng /\ end.new \in Rng /\ R \subseteq Rng
        /\ end.it = NoRange \/ (end.it \in end.set /\ Past(end.it) >= end.new.start)
        /\ \A x \in end.set : end.it = NoRange \/ x.start < end.it.start => Past(x) < end.new.start
    BY <1>1 DEF Absorbing, Apart
  <1>3. \A x \in Rng : x.start \in Nat /\ Past(x) \in Nat /\ x.start < Past(x) /\ End(x) = Past(x)
    BY RangeFacts
  <1>4. ASSUME NEW x \in end.set PROVE end.new.start > Past(x) \/ x.start > Past(end.new)
    <2>1. CASE end.it = NoRange
      BY <1>2, <1>3, <2>1
    <2>2. CASE end.it # NoRange
      <3>1. end.it.start > Past(end.new)
        BY <1>1, <1>2, <1>3, <2>2 DEF AbsorbEnds, OverlapsWith
      <3>2. CASE x.start < end.it.start
        BY <1>2, <1>3, <3>2
      <3>3. CASE ~(x.start < end.it.start)
        BY <1>2, <1>3, <2>2, <3>1, <3>3
      <3> QED BY <3>2, <3>3
    <2> QED BY <2>1, <2>2
  <1>5. Put(end.set, end.new) = end.set \cup {end.new} /\ Apart(end.set \cup {end.new})
    BY <1>2, <1>4, PutIs
  <1>6. ASSUME NEW v PROVE v \in Values(end.set \cup {end.new}) <=> v \in Values(R) \cup (s .. s + l - 1)
    <2>1. v \in Values(end.set \cup {end.new}) <=> \E x \in end.set \cup {end.new} : Within(v, x)
      BY <1>5, ValuesMember DEF Apart
    <2>2. v \in Values(R) <=> \E x \in R : Within(v, x)
      BY <1>2, ValuesMember
    <2>3. v \in s .. s + l - 1 <=> v \in Nat /\ s <= v /\ v < s + l
      OBVIOUS
    <2>4. CASE v \in Nat
      BY <1>1, <2>1, <2>2, <2>3, <2>4 DEF Absorbing
    <2>5. CASE v \notin Nat
      BY <2>1, <2>2, <2>3, <2>5 DEF Within
    <2> QED BY <2>4, <2>5
  <1> QED BY <1>2, <1>5, <1>6

-----------------------------------------------------------------------------
(* remove() *)

\* The turns of the loop are what its recursive definition says.
LEMMA EatTurns ==
  ASSUME NEW R, NEW first, NEW b
  PROVE  \E f : /\ f[0] = [set |-> R, it |-> first]
                /\ \A n \in 1 .. OffsetSize : f[n] = EatOne(f[n - 1], b)
                /\ Eat(R, first, b) = f[OffsetSize]
  <1> DEFINE start == [set |-> R, it |-> first]
             Turns(g, n) == g = [k \in 0 .. n |-> IF k = 0 THEN start ELSE EatOne(g[k - 1], b)]
             bad == {n \in Nat : ~ \E g : Turns(g, n)}
  <1> HIDE DEF start
  <1>1. bad = {}
    <2> SUFFICES ASSUME bad # {} PROVE FALSE
      OBVIOUS
    <2>1. PICK n \in bad : \A m \in bad : n <= m
      BY LeastOf
    <2>2. n # 0
      <3>1. ASSUME n = 0 PROVE FALSE
        <4>1. PICK g : g = [k \in 0 .. 0 |-> start]
          OBVIOUS
        <4>2. Turns(g, 0)
          BY <4>1
        <4> QED BY <3>1, <4>2
      <3> QED BY <3>1
    <2>3. n - 1 \in Nat /\ n - 1 \notin bad
      <3>1. n \in Nat
        OBVIOUS
      <3> HIDE DEF bad
      <3> QED BY <2>1, <2>2, <3>1
    <2>4. PICK g : Turns(g, n - 1)
      BY <2>3
    <2>5. PICK h : h = [k \in 0 .. n |-> IF k = 0 THEN start ELSE EatOne(g[k - 1], b)]
      OBVIOUS
    <2>6. \A k \in 0 .. n - 1 : h[k] = g[k]
      BY <2>3, <2>4, <2>5
    <2>7. \A k \in 0 .. n : k # 0 => h[k - 1] = g[k - 1]
      BY <2>3, <2>6
    <2>8. Turns(h, n)
      BY <2>5, <2>7
    <2> QED BY <2>8
  <1>2. OffsetSize \in Nat
    BY OffsetAssumption
  <1>3. \E g : Turns(g, OffsetSize)
    BY <1>1, <1>2
  <1>4. PICK f : f = CHOOSE g : Turns(g, OffsetSize)
    OBVIOUS
  <1>5. Turns(f, OffsetSize)
    BY <1>3, <1>4
  <1>6. Eat(R, first, b) = f[OffsetSize]
    BY <1>4 DEF Eat, start
  <1>7. f[0] = start /\ \A n \in 1 .. OffsetSize : f[n] = EatOne(f[n - 1], b)
    BY <1>2, <1>5
  <1> QED BY <1>6, <1>7 DEF start

\* The loop of remove() at work on R and [s, e): what is behind the iterator is
\* outside of [s, e), what is ahead is as it was.
Eating(R, s, e, p) ==
  /\ Apart(p.set)
  /\ p.it = NoRange \/ (p.it \in p.set /\ Past(p.it) > s)
  /\ \A x \in p.set : p.it = NoRange \/ x.start < p.it.start => Past(x) <= s \/ x.start >= e
  /\ \A x \in p.set : p.it # NoRange /\ x.start >= p.it.start => x \in R
  /\ \A v \in Nat : v < s \/ v >= e =>
       ((\E x \in p.set : Within(v, x)) <=> \E x \in R : Within(v, x))

EatEnds(p, b) == p.it = NoRange \/ ~ OverlapsWith(p.it, b)

\* Exactly, for the ranges R.
ExactEdges(R, s, e) ==
  /\ \A r \in R : Past(r) # s /\ r.start # e
  /\ (\A r \in R : r.start >= s) \/ (\E r \in R : r.start <= s /\ s < Past(r))

LEMMA NearestIs ==
  ASSUME NEW R, Apart(R), NEW s \in Nat, s <= MaxOffset, NEW e \in Nat, ExactEdges(R, s, e),
         NEW first, first = Nearest(R, s)
  PROVE  /\ first = NoRange \/ (first \in R /\ Past(first) > s)
         /\ \A x \in R : first = NoRange \/ x.start < first.start => Past(x) <= s
  <1>1. R \subseteq Rng
    BY DEF Apart
  <1>2. \A x \in R : x.start \in Nat /\ Past(x) \in Nat /\ x.start < Past(x) /\ x # NoRange
    BY <1>1, RangeFacts
  <1>3. PICK from : from = From(R, s)
    OBVIOUS
  <1>4. \/ from = NoRange /\ \A x \in R : x.start < s
        \/ from \in R /\ from.start >= s /\ \A y \in R : y.start >= s => from.start <= y.start
    BY <1>1, <1>3, FromIs
  <1>5. CASE \A r \in R : r.start >= s
    <2>1. ~ \E x \in R : x.start < s
      BY <1>2, <1>5
    <2>2. first = from
      BY <1>3, <2>1 DEF Nearest
    <2>3. CASE from = NoRange /\ \A x \in R : x.start < s
      BY <2>1, <2>2, <2>3
    <2>4. CASE from \in R /\ from.start >= s /\ \A y \in R : y.start >= s => from.start <= y.start
      BY <1>2, <1>5, <2>2, <2>4
    <2> QED BY <1>4, <2>3, <2>4
  <1>6. CASE \E r \in R : r.start <= s /\ s < Past(r)
    <2>1. PICK r \in R : r.start <= s /\ s < Past(r)
      BY <1>6
    <2>2. \A x \in R : x.start < r.start => Past(x) < r.start
      BY <2>1, ApartStarts
    <2>3. \A x \in R : x.start > r.start => x.start > Past(r)
      BY <2>1, ApartStarts
    <2>4. \A x \in R : x.start = r.start => x = r
      BY <2>1, ApartStarts
    <2>5. first = r
      <3>1. CASE r.start = s
        <4>1. from \in R /\ from.start = s
          BY <1>2, <1>4, <2>1, <3>1
        <4>2. from = r
          BY <2>4, <3>1, <4>1
        <4> QED BY <1>3, <4>1, <4>2 DEF Nearest
      <3>2. CASE r.start # s
        <4>1. r.start < s
          BY <1>2, <2>1, <3>2
        <4>2. from.start # s
          <5>1. CASE from = NoRange
            BY <5>1, OffsetAssumption DEF NoRange
          <5>2. CASE from \in R
            BY <1>2, <2>1, <2>3, <4>1, <5>2
          <5> QED BY <1>4, <5>1, <5>2
        <4>3. first = Before(R, s)
          BY <1>3, <4>1, <4>2 DEF Nearest
        <4>4. first \in R /\ first.start < s /\ \A y \in R : y.start < s => y.start <= first.start
          BY <1>1, <4>1, <4>3, BeforeIs
        <4>5. r.start <= first.start
          BY <4>1, <4>4
        <4>6. first.start = r.start
          BY <1>2, <2>1, <2>3, <4>4, <4>5
        <4> QED BY <2>4, <4>4, <4>6
      <3> QED BY <3>1, <3>2
    <2> QED BY <1>2, <2>1, <2>2, <2>5
  <1> QED BY <1>5, <1>6 DEF ExactEdges

\* Part of a range that was taken out may be put in its place.
LEMMA PiecePut ==
  ASSUME NEW R, Apart(R), NEW it \in Rng, NEW piece \in Rng,
         it.start <= piece.start, Past(piece) <= Past(it),
         \A x \in R : it.start > Past(x) \/ x.start > Past(it)
  PROVE  Put(R, piece) = R \cup {piece} /\ Apart(R \cup {piece})
  <1>1. \A x \in Rng : x.start \in Nat /\ Past(x) \in Nat /\ x.start < Past(x)
    BY RangeFacts
  <1>2. \A x \in R : piece.start > Past(x) \/ x.start > Past(piece)
    BY <1>1 DEF Apart
  <1> QED BY <1>2, PutIs

\* What is put back: ranges within it and outside of [s, e), which hold what
\* it held there.
Leaves(it, s, e, pieces) ==
  /\ pieces \subseteq Rng
  /\ \A y \in pieces :
       /\ it.start <= y.start /\ Past(y) <= Past(it)
       /\ Past(y) <= s \/ y.start >= e
  /\ \A v \in Nat : v < s \/ v >= e => (Within(v, it) <=> \E y \in pieces : Within(v, y))

LEMMA RemainsIs ==
  ASSUME NEW R, Apart(R), NEW it \in Rng, NEW s \in Nat, NEW e \in Nat, s < e, e <= MaxOffset + 1,
         NEW b, b \in Rng, b.start = s, Past(b) = e, it.start < e, Past(it) > s,
         \A x \in R : it.start > Past(x) \/ x.start > Past(it)
  PROVE  \E pieces : /\ Leaves(it, s, e, pieces)
                     /\ Remains(R, it, b) = R \cup pieces /\ Apart(R \cup pieces)
  <1>1. /\ it.start \in Nat /\ Past(it) \in Nat /\ it.start < Past(it) /\ End(it) = Past(it)
        /\ Past(it) <= MaxOffset + 1 /\ End(b) = e /\ MaxOffset \in Nat /\ s <= MaxOffset + 1
    BY RangeFacts
  <1> DEFINE left == Span(it.start, s)
             right == Span(e, Past(it))
  <1>2. it.start < s => left \in Rng /\ left.start = it.start /\ Past(left) = s
    BY <1>1, SpanFacts
  <1>3. Past(it) > e => right \in Rng /\ right.start = e /\ Past(right) = Past(it)
    BY <1>1, SpanFacts
  <1>4. /\ ContainedBy(it, b) <=> it.start >= s /\ Past(it) <= e
        /\ StartOverlappedBy(it, b) <=> it.start >= s /\ it.start < e
        /\ EndOverlappedBy(it, b) <=> Past(it) > s /\ Past(it) <= e
    BY <1>1 DEF ContainedBy, StartOverlappedBy, EndOverlappedBy
  <1> HIDE DEF left, right
  <1>5. CASE it.start >= s /\ Past(it) <= e
    <2>1. Remains(R, it, b) = R \cup {}
      BY <1>4, <1>5 DEF Remains
    <2>2. Leaves(it, s, e, {})
      BY <1>1, <1>5 DEF Leaves, Within
    <2> QED BY <2>1, <2>2
  <1>6. CASE it.start >= s /\ Past(it) > e
    <2>1. Remains(R, it, b) = Put(R, Span(Greatest(it.start, End(b)), End(it)))
      BY <1>1, <1>4, <1>6 DEF Remains
    <2>2. Greatest(it.start, End(b)) = e
      BY <1>1 DEF Greatest
    <2>3. Remains(R, it, b) = Put(R, right)
      BY <1>1, <2>1, <2>2 DEF right
    <2>4. Put(R, right) = R \cup {right} /\ Apart(R \cup {right})
      <3>1. right \in Rng /\ it.start <= right.start /\ Past(right) <= Past(it)
        BY <1>1, <1>3, <1>6
      <3> QED BY <3>1, PiecePut
    <2>5. Leaves(it, s, e, {right})
      BY <1>1, <1>3, <1>6 DEF Leaves, Within
    <2> QED BY <2>3, <2>4, <2>5
  <1>7. CASE it.start < s /\ Past(it) <= e
    <2>1. Remains(R, it, b) = Put(R, Span(it.start, Least(End(it), b.start)))
      BY <1>1, <1>4, <1>7 DEF Remains
    <2>2. Least(End(it), b.start) = s
      BY <1>1 DEF Least
    <2>3. Remains(R, it, b) = Put(R, left)
      BY <2>1, <2>2 DEF left
    <2>4. Put(R, left) = R \cup {left} /\ Apart(R \cup {left})
      <3>1. left \in Rng /\ it.start <= left.start /\ Past(left) <= Past(it)
        BY <1>1, <1>2, <1>7
      <3> QED BY <3>1, PiecePut
    <2>5. Leaves(it, s, e, {left})
      BY <1>1, <1>2, <1>7 DEF Leaves, Within
    <2> QED BY <2>3, <2>4, <2>5
  <1>8. CASE it.start < s /\ Past(it) > e
    <2>1. Remains(R, it, b) = Put(Put(R, left), right)
      BY <1>1, <1>4, <1>8 DEF Remains, left, right
    <2>2. Put(R, left) = R \cup {left} /\ Apart(R \cup {left})
      <3>1. left \in Rng /\ it.start <= left.start /\ Past(left) <= Past(it)
        BY <1>1, <1>2, <1>8
      <3> QED BY <3>1, PiecePut
    <2>3. \A x \in R : x.start \in Nat /\ Past(x) \in Nat /\ x.start < Past(x)
      BY RangeFacts DEF Apart
    <2>4. \A x \in R \cup {left} : right.start > Past(x) \/ x.start > Past(right)
      BY <1>1, <1>2, <1>3, <1>8, <2>3
    <2>5. Put(R \cup {left}, right) = (R \cup {left}) \cup {right} /\ Apart((R \cup {left}) \cup {right})
      BY <1>3, <1>8, <2>2, <2>4, PutIs
    <2>6. (R \cup {left}) \cup {right} = R \cup {left, right}
      OBVIOUS
    <2>7. Leaves(it, s, e, {left, right})
      BY <1>1, <1>2, <1>3, <1>8 DEF Leaves, Within
    <2>8. Remains(R, it, b) = R \cup {left, right} /\ Apart(R \cup {left, right})
      BY <2>1, <2>2, <2>5, <2>6
    <2> QED BY <2>7, <2>8
  <1>9. it.start >= s \/ it.start < s
    BY <1>1
  <1>10. Past(it) <= e \/ Past(it) > e
    BY <1>1
  <1> QED BY <1>5, <1>6, <1>7, <1>8, <1>9, <1>10

LEMMA EatOneKeeps ==
  ASSUME NEW R, Apart(R), NEW s \in Nat, NEW e \in Nat, s < e, e <= MaxOffset + 1, ExactEdges(R, s, e),
         NEW b, b \in Rng, b.start = s, Past(b) = e,
         NEW p, Eating(R, s, e, p), NEW n \in Nat, EatEnds(p, b) \/ p.it.start >= n,
         NEW q, q = EatOne(p, b)
  PROVE  Eating(R, s, e, q) /\ (EatEnds(q, b) \/ q.it.start >= n + 1)
  <1>1. CASE EatEnds(p, b)
    BY <1>1 DEF EatOne, EatEnds
  <1>2. CASE ~ EatEnds(p, b)
    <2> DEFINE it == p.it
               rest == p.set \ {it}
               next == Follows(p.set, it)
    <2>1. q = [set |-> Remains(rest, it, b), it |-> next]
      BY <1>2 DEF EatOne, EatEnds
    <2>2. /\ Apart(p.set) /\ p.set \subseteq Rng /\ Apart(rest)
          /\ it # NoRange /\ it \in p.set /\ it \in Rng /\ Past(it) > s /\ OverlapsWith(it, b)
      BY <1>2 DEF Eating, EatEnds, Apart
    <2>3. \A x \in Rng : /\ x.start \in Nat /\ Past(x) \in Nat /\ x.start < Past(x)
                         /\ End(x) = Past(x) /\ x # NoRange
      BY RangeFacts
    <2>4. it \in R
      BY <2>2, <2>3 DEF Eating
    <2>5. it.start < e
      <3>1. it.start <= e
        BY <2>2, <2>3 DEF OverlapsWith
      <3>2. it.start # e
        BY <2>4 DEF ExactEdges
      <3> QED BY <2>2, <2>3, <3>1, <3>2
    <2>6. \A x \in rest : it.start > Past(x) \/ x.start > Past(it)
      BY <2>2 DEF Apart
    <2>7. PICK pieces : /\ Leaves(it, s, e, pieces)
                        /\ Remains(rest, it, b) = rest \cup pieces /\ Apart(rest \cup pieces)
      BY <2>2, <2>5, <2>6, RemainsIs
    <2>8. \/ next = NoRange /\ \A x \in p.set : x.start <= it.start
          \/ /\ next \in p.set /\ next # it /\ Past(it) < next.start
             /\ \A x \in p.set : x.start < next.start => x.start <= it.start
      BY <2>2, FollowsIs
    <2>9. it.start >= n
      BY <1>2
    <2> HIDE DEF next
    <2>10. next = NoRange \/ (next \in rest /\ Past(next) > s /\ next.start >= n + 1)
      <3>1. CASE next = NoRange
        BY <3>1
      <3>2. CASE next \in p.set /\ next # it /\ Past(it) < next.start
        <4>1. next \in Rng
          BY <2>2, <3>2
        <4> QED BY <2>2, <2>3, <2>9, <3>2, <4>1
      <3> QED BY <2>8, <3>1, <3>2
    <2>11. ASSUME NEW x \in rest, next = NoRange \/ x.start < next.start PROVE Past(x) <= s \/ x.start >= e
      <3>1. x.start <= it.start
        BY <2>2, <2>3, <2>8, <2>11
      <3>2. x.start # it.start
        BY <2>2, ApartStarts
      <3>3. x.start < it.start
        BY <2>2, <2>3, <3>1, <3>2
      <3> QED BY <3>3 DEF Eating
    <2>12. ASSUME NEW x \in rest \cup pieces, next # NoRange, x.start >= next.start PROVE x \in R
      <3>1. next \in p.set /\ Past(it) < next.start
        BY <2>8, <2>12
      <3>2. next.start \in Nat /\ it.start < next.start
        BY <2>2, <2>3, <3>1
      <3>3. CASE x \in rest
        <4>1. x.start >= it.start
          BY <2>2, <2>3, <2>12, <3>2, <3>3
        <4> QED BY <2>2, <3>3, <4>1 DEF Eating
      <3>4. CASE x \in pieces
        <4>1. x \in Rng /\ Past(x) <= Past(it)
          BY <2>7, <3>4 DEF Leaves
        <4> QED BY <2>2, <2>3, <2>12, <3>1, <3>2, <4>1
      <3> QED BY <3>3, <3>4
    <2>13. ASSUME NEW v \in Nat, v < s \/ v >= e
           PROVE  (\E x \in rest \cup pieces : Within(v, x)) <=> \E x \in R : Within(v, x)
      <3>1. Within(v, it) <=> \E y \in pieces : Within(v, y)
        BY <2>7, <2>13 DEF Leaves
      <3>2. (\E x \in p.set : Within(v, x)) <=> \E x \in R : Within(v, x)
        BY <2>13 DEF Eating
      <3> QED BY <2>2, <3>1, <3>2
    <2>14. \A x \in pieces : Past(x) <= s \/ x.start >= e
      BY <2>7 DEF Leaves
    <2>15. q.set = rest \cup pieces /\ q.it = next
      <3>1. PICK left : left = Remains(rest, it, b)
        OBVIOUS
      <3>2. left = rest \cup pieces
        BY <2>7, <3>1
      <3>3. q = [set |-> left, it |-> next]
        BY <2>1, <3>1
      <3>4. q.set = left /\ q.it = next
        BY <3>3
      <3> QED BY <3>2, <3>4
    <2> HIDE DEF rest, it
    <2>16. Eating(R, s, e, q)
      BY <2>7, <2>10, <2>11, <2>12, <2>13, <2>14, <2>15 DEF Eating
    <2> QED BY <2>10, <2>15, <2>16 DEF EatEnds
  <1> QED BY <1>1, <1>2

LEMMA EatLoop ==
  ASSUME NEW R, Apart(R), NEW s \in Nat, NEW l \in Nat, l > 0, s + l <= MaxOffset + 1, ExactEdges(R, s, s + l),
         NEW end, end = Eat(R, Nearest(R, s), RangeOf(s, l))
  PROVE  Eating(R, s, s + l, end) /\ EatEnds(end, RangeOf(s, l))
  <1> DEFINE first == Nearest(R, s)
             b == RangeOf(s, l)
             e == s + l
  <1>1. PICK f : /\ f[0] = [set |-> R, it |-> first]
                 /\ \A n \in 1 .. OffsetSize : f[n] = EatOne(f[n - 1], b)
                 /\ end = f[OffsetSize]
    BY EatTurns
  <1>2. /\ MaxOffset \in Nat /\ OffsetSize \in Nat /\ MaxOffset + 1 < OffsetSize
        /\ s <= MaxOffset /\ e \in Nat /\ s < e /\ e <= MaxOffset + 1
    BY OffsetAssumption
  <1>3. b \in Rng /\ b.start = s /\ Past(b) = e
    BY RangeOfFacts
  <1> DEFINE Good(n) == Eating(R, s, e, f[n]) /\ (EatEnds(f[n], b) \/ f[n].it.start >= n)
             bad == {n \in 0 .. OffsetSize : ~Good(n)}
  <1>4. ExactEdges(R, s, e)
    OBVIOUS
  <1> HIDE DEF e, b
  <1>5. Good(0)
    <2>1. /\ first = NoRange \/ (first \in R /\ Past(first) > s)
          /\ \A x \in R : first = NoRange \/ x.start < first.start => Past(x) <= s
      BY <1>2, <1>4, NearestIs
    <2> HIDE DEF first
    <2>2. Eating(R, s, e, f[0])
      BY <1>1, <2>1 DEF Eating
    <2>3. first = NoRange \/ first.start \in Nat
      BY <2>1, RangeFacts DEF Apart
    <2> QED BY <1>1, <2>2, <2>3 DEF EatEnds
  <1>6. ASSUME NEW n \in 1 .. OffsetSize, Good(n - 1) PROVE Good(n)
    <2>1. n - 1 \in Nat /\ (n - 1) + 1 = n /\ f[n] = EatOne(f[n - 1], b)
      BY <1>1, <1>2
    <2> QED BY <1>2, <1>3, <1>4, <1>6, <2>1, EatOneKeeps
  <1>7. bad = {}
    <2> SUFFICES ASSUME bad # {} PROVE FALSE
      OBVIOUS
    <2>1. bad \in SUBSET Nat
      BY <1>2
    <2>2. PICK n \in bad : \A m \in bad : n <= m
      BY <2>1, LeastOf
    <2>3. n \in 0 .. OffsetSize /\ ~Good(n)
      OBVIOUS
    <2>4. n \in 1 .. OffsetSize /\ n - 1 \in 0 .. OffsetSize
      BY <1>2, <1>5, <2>3
    <2>5. n - 1 \in bad
      BY <1>6, <2>3, <2>4
    <2> HIDE DEF bad
    <2> QED BY <2>2, <2>4, <2>5
  <1>8. Good(OffsetSize)
    BY <1>2, <1>7
  <1>9. end.it \in end.set => end.it.start < OffsetSize /\ end.it.start \in Nat
    BY <1>1, <1>2, <1>8, RangeFacts DEF Eating, Apart
  <1>10. EatEnds(end, b)
    BY <1>1, <1>2, <1>8, <1>9 DEF Eating, EatEnds
  <1> QED BY <1>1, <1>8, <1>10 DEF e, b

LEMMA RemovedIs ==
  ASSUME NEW R, Apart(R), NEW s \in Nat, NEW l \in Nat, l > 0, s + l <= MaxOffset + 1, ExactEdges(R, s, s + l),
         NEW end, end = Eat(R, Nearest(R, s), RangeOf(s, l))
  PROVE  /\ Apart(end.set)
         /\ Values(end.set) = Values(R) \ (s .. s + l - 1)
  <1> DEFINE e == s + l
             b == RangeOf(s, l)
  <1>1. Eating(R, s, e, end) /\ EatEnds(end, b)
    BY EatLoop
  <1>2. b \in Rng /\ b.start = s /\ Past(b) = e /\ e \in Nat /\ s < e
    BY RangeOfFacts
  <1>3. /\ Apart(end.set) /\ end.set \subseteq Rng /\ R \subseteq Rng
        /\ end.it = NoRange \/ (end.it \in end.set /\ Past(end.it) > s)
    BY <1>1 DEF Eating, Apart
  <1> HIDE DEF e, b
  <1>4. \A x \in Rng : x.start \in Nat /\ Past(x) \in Nat /\ x.start < Past(x) /\ End(x) = Past(x)
    BY RangeFacts
  <1>5. ASSUME NEW x \in end.set PROVE Past(x) <= s \/ x.start >= e
    <2>1. CASE end.it = NoRange
      BY <1>1, <2>1 DEF Eating
    <2>2. CASE end.it # NoRange
      <3>1. end.it \in Rng /\ end.it.start > e
        BY <1>1, <1>2, <1>3, <1>4, <2>2 DEF EatEnds, OverlapsWith
      <3>2. CASE x.start < end.it.start
        BY <1>1, <3>2 DEF Eating
      <3>3. CASE ~(x.start < end.it.start)
        BY <1>2, <1>3, <1>4, <3>1, <3>3
      <3> QED BY <3>2, <3>3
    <2> QED BY <2>1, <2>2
  <1>6. ASSUME NEW v PROVE v \in Values(end.set) <=> v \in Values(R) \ (s .. s + l - 1)
    <2>1. v \in Values(end.set) <=> \E x \in end.set : Within(v, x)
      BY <1>3, ValuesMember
    <2>2. v \in Values(R) <=> \E x \in R : Within(v, x)
      BY <1>3, ValuesMember
    <2>3. v \in s .. s + l - 1 <=> v \in Nat /\ s <= v /\ v < e
      BY DEF e
    <2>4. CASE v \in Nat /\ (v < s \/ v >= e)
      <3>1. v \notin s .. s + l - 1
        BY <1>2, <2>3, <2>4
      <3>2. (\E x \in end.set : Within(v, x)) <=> \E x \in R : Within(v, x)
        BY <1>1, <2>4 DEF Eating
      <3> QED BY <2>1, <2>2, <3>1, <3>2
    <2>5. CASE v \in Nat /\ s <= v /\ v < e
      <3>1. \A x \in end.set : ~Within(v, x)
        BY <1>2, <1>3, <1>4, <1>5, <2>5 DEF Within
      <3> QED BY <2>1, <2>3, <2>5, <3>1
    <2>6. CASE v \notin Nat
      BY <2>1, <2>2, <2>3, <2>6 DEF Within
    <2> QED BY <1>2, <2>4, <2>5, <2>6
  <1> QED BY <1>3, <1>6

-----------------------------------------------------------------------------
(* The invariant of the range set *)

RSInv ==
  /\ Apart(ranges) /\ Values(ranges) = members
  /\ end_offset \in Nat /\ end_offset <= MaxOffset + 1
  /\ \A r \in ranges : Past(r) <= end_offset

LEMMA InsertKeeps ==
  ASSUME RSInv, NEW s \in Offsets, NEW l \in Lengths(s), Insert(s, l)
  PROVE  RSInv'
  <1>1. s \in Nat /\ l \in Nat /\ l > 0 /\ s + l <= MaxOffset + 1
    BY OffsetAssumption DEF Offsets, Lengths
  <1>2. PICK end : end = Absorb(ranges, Begin(ranges, s), RangeOf(s, l))
    OBVIOUS
  <1>3. PICK made : made = Put(end.set, end.new)
    OBVIOUS
  <1>4. /\ Apart(made) /\ end.new \in Rng
        /\ \A x \in made : x \in ranges \/ x = end.new
        /\ Values(made) = Values(ranges) \cup (s .. s + l - 1)
    <2>1. Apart(ranges)
      BY DEF RSInv
    <2> QED BY <1>1, <1>2, <1>3, <2>1, InsertedIs
  <1>5. /\ ranges' = made
        /\ end_offset' = Greatest(end_offset, End(end.new))
        /\ members' = members \cup (s .. s + l - 1)
    BY <1>2, <1>3 DEF Insert
  <1>6. Past(end.new) \in Nat /\ Past(end.new) <= MaxOffset + 1 /\ End(end.new) = Past(end.new)
    BY <1>4, RangeFacts
  <1>7. /\ end_offset' \in Nat /\ end_offset' <= MaxOffset + 1
        /\ end_offset' >= end_offset /\ end_offset' >= Past(end.new)
    BY <1>6, <1>5 DEF Greatest, RSInv
  <1>8. Apart(ranges') /\ Values(ranges') = members'
    BY <1>4, <1>5 DEF RSInv
  <1>9. \A r \in ranges' : Past(r) <= end_offset'
    <2> SUFFICES ASSUME NEW r \in ranges' PROVE Past(r) <= end_offset'
      OBVIOUS
    <2>1. r = end.new \/ r \in ranges
      BY <1>4, <1>5
    <2>2. CASE r = end.new
      BY <1>7, <2>2
    <2>3. CASE r \in ranges
      <3>1. Past(r) \in Nat /\ Past(r) <= end_offset /\ end_offset \in Nat
        BY <2>3, RangeFacts DEF RSInv, Apart
      <3> QED BY <1>7, <3>1
    <2> QED BY <2>1, <2>2, <2>3
  <1> QED BY <1>7, <1>8, <1>9 DEF RSInv

LEMMA RemoveKeeps ==
  ASSUME RSInv, NEW s \in Offsets, NEW l \in Lengths(s), Exactly(s, l), Remove(s, l)
  PROVE  RSInv'
  <1>1. s \in Nat /\ l \in Nat /\ l > 0 /\ s + l <= MaxOffset + 1
    BY OffsetAssumption DEF Offsets, Lengths
  <1>2. ranges \subseteq Rng /\ \A r \in ranges : End(r) = Past(r)
    BY RangeFacts DEF RSInv, Apart
  <1>3. ExactEdges(ranges, s, s + l)
    BY <1>2 DEF Exactly, ExactEdges
  <1>4. PICK end : end = Eat(ranges, Nearest(ranges, s), RangeOf(s, l))
    OBVIOUS
  <1>5. ranges' = end.set /\ members' = members \ (s .. s + l - 1) /\ end_offset' = end_offset
    BY <1>4 DEF Remove
  <1>6. Apart(end.set) /\ Values(end.set) = Values(ranges) \ (s .. s + l - 1)
    BY <1>1, <1>3, <1>4, RemovedIs DEF RSInv
  <1>7. ASSUME NEW x \in end.set PROVE Past(x) <= end_offset
    <2>1. x \in Rng /\ x.start \in Nat /\ Past(x) \in Nat /\ x.start < Past(x)
      BY <1>6, RangeFacts DEF Apart
    <2>2. PICK v \in Nat : v = Past(x) - 1
      BY <2>1
    <2>3. Within(v, x)
      BY <2>1, <2>2 DEF Within
    <2>4. v \in Values(end.set)
      BY <1>6, <2>3, ValuesMember DEF Apart
    <2>5. PICK r \in ranges : Within(v, r)
      BY <1>2, <1>6, <2>4, ValuesMember
    <2>6. Past(r) \in Nat /\ Past(r) <= end_offset /\ v < Past(r)
      BY <1>2, <2>5, RangeFacts DEF RSInv, Within
    <2> QED BY <2>1, <2>2, <2>6 DEF RSInv
  <1> QED BY <1>5, <1>6, <1>7 DEF RSInv

LEMMA RangesStep ==
  ASSUME RSInv, [RSNext]_svars
  PROVE  RSInv'
  <1>1. CASE UNCHANGED svars
    BY <1>1 DEF RSInv, svars
  <1>2. CASE Clear
    <2>1. Values({}) = {}
      BY DEF Values
    <2> QED BY <1>2, <2>1 DEF Clear, RSInv, Apart
  <1> QED BY <1>1, <1>2, InsertKeeps, RemoveKeeps DEF RSNext

LEMMA RangesInitial == RSInit => RSInv
  <1>1. Values({}) = {}
    BY DEF Values
  <1> QED BY <1>1, OffsetAssumption DEF RSInit, RSInv, Apart

\* contains() looks for one range: a run of members lies in one, as no two touch.
LEMMA ContainsIs ==
  ASSUME RSInv, NEW s \in Offsets, NEW l \in Lengths(s)
  PROVE  Contains(s, l) <=> (s .. s + l - 1) \subseteq members
  <1>1. s \in Nat /\ l \in Nat /\ l > 0 /\ s + l <= MaxOffset + 1
    BY OffsetAssumption DEF Offsets, Lengths
  <1>2. PICK b : b = RangeOf(s, l)
    OBVIOUS
  <1>3. b \in Rng /\ b.start = s /\ Past(b) = s + l /\ End(b) = s + l
    BY <1>1, <1>2, RangeOfFacts, RangeFacts
  <1>4. Apart(ranges) /\ ranges \subseteq Rng
    BY DEF RSInv, Apart
  <1>5. \A r \in ranges : /\ r.start \in Nat /\ Past(r) \in Nat /\ r.start < Past(r)
                          /\ ContainedBy(b, r) <=> (r.start <= s /\ s + l <= Past(r))
    BY <1>1, <1>3, <1>4, RangeFacts DEF ContainedBy
  <1>6. \A v : v \in members <=> \E r \in ranges : Within(v, r)
    BY <1>4, ValuesMember DEF RSInv
  <1>7. ASSUME Contains(s, l) PROVE (s .. s + l - 1) \subseteq members
    <2>1. PICK r \in ranges : r.start <= s /\ s + l <= Past(r)
      BY <1>2, <1>5, <1>7 DEF Contains
    <2>2. \A v \in s .. s + l - 1 : Within(v, r)
      BY <1>1, <1>5, <2>1 DEF Within
    <2> QED BY <1>6, <2>2
  <1>8. ASSUME (s .. s + l - 1) \subseteq members PROVE Contains(s, l)
    <2>1. s \in members
      BY <1>1, <1>8
    <2>2. PICK r \in ranges : Within(s, r)
      BY <1>6, <2>1
    <2>3. s + l <= Past(r)
      <3> SUFFICES ASSUME Past(r) < s + l PROVE FALSE
        BY <1>1, <1>5
      <3>1. Past(r) \in s .. s + l - 1
        BY <1>1, <1>5, <2>2 DEF Within
      <3>2. PICK x \in ranges : Within(Past(r), x)
        BY <1>6, <1>8, <3>1
      <3>3. x # r
        BY <1>5, <3>2 DEF Within
      <3>4. r.start > Past(x) \/ x.start > Past(r)
        BY <1>4, <3>3 DEF Apart
      <3> QED BY <1>5, <3>2, <3>4 DEF Within
    <2> QED BY <1>2, <1>5, <2>2, <2>3 DEF Contains, Within
  <1> QED BY <1>7, <1>8

\* What inverse() puts between two ranges, before the first and after the last.
Gaps == {Span(End(r), Follows(ranges, r).start) : r \in {x \in ranges : Follows(ranges, x) # NoRange}}
Leading == {RangeOf(0, r.start) : r \in {x \in ranges : x = From(ranges, 0) /\ x.start > 0}}
Trailing ==
  {Span(End(r), end_offset) : r \in {x \in ranges : Follows(ranges, x) = NoRange /\ end_offset > End(x)}}
Whole == IF ranges = {} /\ end_offset > 0 THEN {RangeOf(0, end_offset)} ELSE {}

Hole(h) == /\ h \in Rng /\ Past(h) <= end_offset
           /\ \A v : Within(v, h) => \A r \in ranges : ~Within(v, r)

LEMMA BetweenHoles ==
  ASSUME RSInv, NEW r \in ranges, NEW next, next = Follows(ranges, r), next # NoRange
  PROVE  /\ Hole(Span(End(r), next.start))
         /\ \A v \in Nat : Within(v, Span(End(r), next.start)) <=> Past(r) <= v /\ v < next.start
  <1>1. Apart(ranges) /\ end_offset \in Nat
    BY DEF RSInv
  <1>2. \A x \in ranges : /\ x.start \in Nat /\ Past(x) \in Nat /\ x.start < Past(x) /\ End(x) = Past(x)
                          /\ x.start <= MaxOffset /\ MaxOffset \in Nat /\ Past(x) <= end_offset
    BY <1>1, RangeFacts DEF RSInv, Apart
  <1>3. /\ next \in ranges /\ Past(r) < next.start
        /\ \A x \in ranges : x.start < next.start => x.start <= r.start
    BY <1>1, FollowsIs
  <1>4. PICK h : h = Span(End(r), next.start)
    OBVIOUS
  <1>5. h \in Rng /\ h.start = Past(r) /\ Past(h) = next.start
    BY <1>2, <1>3, <1>4, SpanFacts
  <1>6. ASSUME NEW v, Within(v, h), NEW x \in ranges PROVE ~Within(v, x)
    <2>1. x = r \/ x.start < r.start \/ x.start >= next.start
      <3>1. x.start = r.start => x = r
        BY <1>1, ApartStarts
      <3> QED BY <1>2, <1>3, <3>1
    <2>2. x.start < r.start => Past(x) < r.start
      BY <1>1, ApartStarts
    <2> QED BY <1>2, <1>3, <1>5, <1>6, <2>1, <2>2 DEF Within
  <1>7. Past(h) <= end_offset
    BY <1>1, <1>2, <1>3, <1>5
  <1>8. Hole(h)
    BY <1>5, <1>6, <1>7 DEF Hole
  <1>9. \A v \in Nat : Within(v, h) <=> Past(r) <= v /\ v < next.start
    BY <1>5 DEF Within
  <1> QED BY <1>4, <1>8, <1>9

LEMMA LeadingHoles ==
  ASSUME RSInv, NEW r \in ranges, r = From(ranges, 0), r.start > 0
  PROVE  /\ Hole(RangeOf(0, r.start))
         /\ \A v \in Nat : Within(v, RangeOf(0, r.start)) <=> v < r.start
  <1>1. Apart(ranges) /\ end_offset \in Nat /\ ranges \subseteq Rng
    BY DEF RSInv, Apart
  <1>2. \A x \in ranges : /\ x.start \in Nat /\ Past(x) \in Nat /\ x.start < Past(x) /\ x # NoRange
                          /\ x.start <= MaxOffset /\ MaxOffset \in Nat /\ Past(x) <= end_offset
    BY <1>1, RangeFacts DEF RSInv
  <1>3. \A x \in ranges : r.start <= x.start
    BY <1>1, <1>2, FromIs
  <1>4. PICK h : h = RangeOf(0, r.start)
    OBVIOUS
  <1>5. h \in Rng /\ h.start = 0 /\ Past(h) = r.start
    BY <1>2, <1>4, RangeOfFacts
  <1> QED BY <1>1, <1>2, <1>3, <1>4, <1>5 DEF Hole, Within

LEMMA TrailingHoles ==
  ASSUME RSInv, NEW r \in ranges, Follows(ranges, r) = NoRange, end_offset > End(r)
  PROVE  /\ Hole(Span(End(r), end_offset))
         /\ \A v \in Nat : Within(v, Span(End(r), end_offset)) <=> Past(r) <= v /\ v < end_offset
  <1>1. Apart(ranges) /\ end_offset \in Nat /\ end_offset <= MaxOffset + 1 /\ ranges \subseteq Rng
    BY DEF RSInv, Apart
  <1>2. \A x \in ranges : /\ x.start \in Nat /\ Past(x) \in Nat /\ x.start < Past(x) /\ x # NoRange
                          /\ End(x) = Past(x)
    BY <1>1, RangeFacts
  <1>3. \A x \in ranges : x.start <= r.start
    BY <1>1, <1>2, FollowsIs
  <1>4. PICK h : h = Span(End(r), end_offset)
    OBVIOUS
  <1>5. h \in Rng /\ h.start = Past(r) /\ Past(h) = end_offset
    BY <1>1, <1>2, <1>4, SpanFacts
  <1>6. ASSUME NEW x \in ranges PROVE Past(x) <= Past(r)
    <2>1. x.start = r.start => x = r
      BY <1>1, ApartStarts
    <2>2. x.start < r.start => Past(x) < r.start
      BY <1>1, ApartStarts
    <2> QED BY <1>2, <1>3, <2>1, <2>2
  <1> QED BY <1>1, <1>2, <1>4, <1>5, <1>6 DEF Hole, Within

LEMMA InverseIs ==
  ASSUME RSInv, end_offset > 0
  PROVE  Values(RangeInverse) = (0 .. end_offset - 1) \ members
  <1>1. /\ Apart(ranges) /\ ranges \subseteq Rng /\ end_offset \in Nat /\ end_offset <= MaxOffset + 1
        /\ MaxOffset \in Nat
    BY OffsetAssumption DEF RSInv, Apart
  <1>2. \A x \in ranges : /\ x.start \in Nat /\ Past(x) \in Nat /\ x.start < Past(x) /\ x # NoRange
                          /\ End(x) = Past(x) /\ Past(x) <= end_offset
    BY <1>1, RangeFacts DEF RSInv
  <1>3. RangeInverse = Gaps \cup Leading \cup Trailing \cup Whole
    BY DEF RangeInverse, Gaps, Leading, Trailing, Whole
  <1>4. \A h \in Gaps : Hole(h)
    BY BetweenHoles DEF Gaps
  <1>5. \A h \in Leading : Hole(h)
    BY LeadingHoles DEF Leading
  <1>6. \A h \in Trailing : Hole(h)
    BY TrailingHoles DEF Trailing
  <1>7. RangeOf(0, end_offset) \in Rng /\ RangeOf(0, end_offset).start = 0 /\ Past(RangeOf(0, end_offset)) = end_offset
    BY <1>1, RangeOfFacts
  <1>8. \A h \in Whole : Hole(h)
    BY <1>1, <1>7 DEF Whole, Hole
  <1>9. \A h \in RangeInverse : Hole(h)
    BY <1>3, <1>4, <1>5, <1>6, <1>8
  <1>10. RangeInverse \subseteq Rng
    BY <1>9 DEF Hole
  <1>11. \A v : v \in Values(RangeInverse) <=> \E h \in RangeInverse : Within(v, h)
    BY <1>10, ValuesMember
  <1>12. \A v : v \in members <=> \E r \in ranges : Within(v, r)
    BY <1>1, ValuesMember DEF RSInv
  <1>13. \A v : v \in 0 .. end_offset - 1 <=> v \in Nat /\ v < end_offset
    BY <1>1
  <1>14. ASSUME NEW v, v \in Values(RangeInverse) PROVE v \in (0 .. end_offset - 1) \ members
    <2>1. PICK h \in RangeInverse : Within(v, h)
      BY <1>11, <1>14
    <2>2. Hole(h) /\ Past(h) \in Nat
      BY <1>9, RangeFacts DEF Hole
    <2>3. v \in Nat /\ v < end_offset
      BY <1>1, <2>1, <2>2 DEF Hole, Within
    <2> QED BY <1>12, <1>13, <2>1, <2>2, <2>3 DEF Hole
  <1>15. ASSUME NEW v, v \in (0 .. end_offset - 1) \ members PROVE \E h \in RangeInverse : Within(v, h)
    <2>1. v \in Nat /\ v < end_offset /\ v + 1 \in Nat /\ \A r \in ranges : ~Within(v, r)
      BY <1>12, <1>13, <1>15
    <2>2. CASE ranges = {}
      <3>1. RangeOf(0, end_offset) \in RangeInverse
        BY <1>3, <2>2 DEF Whole
      <3> QED BY <1>7, <2>1, <3>1 DEF Within
    <2>3. CASE ranges # {} /\ \A x \in ranges : ~(x.start < v + 1)
      <3>1. PICK r : r = From(ranges, 0)
        OBVIOUS
      <3>2. r \in ranges
        BY <1>1, <1>2, <2>3, <3>1, FromIs
      <3>3. v < r.start /\ r.start > 0
        BY <1>2, <2>1, <2>3, <3>2
      <3>4. RangeOf(0, r.start) \in RangeInverse
        BY <1>3, <3>1, <3>2, <3>3 DEF Leading
      <3> QED BY <2>1, <3>1, <3>2, <3>3, <3>4, LeadingHoles
    <2>4. CASE \E x \in ranges : x.start < v + 1
      <3>1. PICK r : r = Before(ranges, v + 1)
        OBVIOUS
      <3>2. r \in ranges /\ r.start < v + 1 /\ \A y \in ranges : y.start < v + 1 => y.start <= r.start
        BY <1>1, <2>1, <2>4, <3>1, BeforeIs
      <3>3. Past(r) <= v
        BY <1>2, <2>1, <3>2 DEF Within
      <3>4. PICK next : next = Follows(ranges, r)
        OBVIOUS
      <3>5. CASE next = NoRange
        <4>1. end_offset > End(r)
          BY <1>1, <1>2, <2>1, <3>2, <3>3
        <4>2. Span(End(r), end_offset) \in RangeInverse
          BY <1>3, <3>2, <3>4, <3>5, <4>1 DEF Trailing
        <4> QED BY <2>1, <3>2, <3>3, <3>4, <3>5, <4>1, <4>2, TrailingHoles
      <3>6. CASE next # NoRange
        <4>1. next \in ranges /\ Past(r) < next.start
          BY <1>1, <3>2, <3>4, <3>6, FollowsIs
        <4>2. v < next.start
          BY <1>2, <2>1, <3>2, <4>1
        <4>3. Span(End(r), next.start) \in RangeInverse
          BY <1>3, <3>2, <3>4, <3>6 DEF Gaps
        <4> QED BY <2>1, <3>2, <3>3, <3>4, <3>6, <4>2, <4>3, BetweenHoles
      <3> QED BY <3>5, <3>6
    <2> QED BY <2>2, <2>3, <2>4
  <1> QED BY <1>11, <1>14, <1>15

\* The invariant of the RangeSet: insert(), remove() where it is exact and
\* clear() keep the ranges apart, and the set that they stand for.
THEOREM RangesInvariant == RSSpec => []RSInv
  BY RangesInitial, RangesStep, PTL DEF RSSpec

\* The ranges of a RangeSet are the set that was inserted and removed, no two
\* overlap or touch, contains() and inverse() tell the truth about it: for any
\* offsets whose ends the offset type can hold, with the loops of insert() and
\* remove() over any number of ranges.
THEOREM RangesAreExact == RSSpec => []RangesExact
  <1>1. RSInv => RangesExact
    <2> SUFFICES ASSUME RSInv PROVE RangesExact
      OBVIOUS
    <2>1. ASSUME NEW r \in ranges
          PROVE  r.length > 0 /\ \A x \in ranges \ {r} :
                   r.start > x.start + x.length \/ x.start > r.start + r.length
      BY DEF RSInv, Apart, Past, Rng
    <2>2. Values(ranges) = members
      BY DEF RSInv
    <2> QED BY <2>1, <2>2, ContainsIs, InverseIs DEF RangesExact
  <1> QED BY <1>1, RangesInvariant, PTL
=============================================================================
