------------------------------- MODULE Cache --------------------------------
(***************************************************************************)
(* ObTools::Cache::PointerCache (libs/cache/ot-cache.h) with the LRU       *)
(* evictor and the use-timeout tidy policy, used by several threads.  Each *)
(* section under the RWMutex is one step; add() and evict() are made of    *)
(* several, with a test of the limit that takes no lock.                   *)
(*                                                                         *)
(* A pointer is a model value given to add() once.  Times are in seconds.  *)
(***************************************************************************)
EXTENDS Naturals, FiniteSets

CONSTANTS CThread,    \* threads that use the cache
          Id,         \* keys: the numbers 1 .. n, in the order of the map
          Ptr,        \* objects given to the cache
          NoPtr,
          CLimits,    \* limits that set_limit() may set; 0 means none
          Timeout,    \* timeout of the tidy policy, 0 for none
          MaxTime,    \* bound on the clock
          CacheUInt   \* number of values of an unsigned int

ASSUME CacheAssumption ==
  /\ NoPtr \notin Ptr /\ Id \subseteq Nat
  /\ Timeout \in Nat /\ MaxTime \in Nat
ASSUME CacheSizes ==
  /\ IsFiniteSet(CThread) /\ IsFiniteSet(Id)
  /\ CacheUInt \in Nat /\ Cardinality(Id) < CacheUInt
  /\ CLimits \subseteq 0..(CacheUInt - 1)

VARIABLES
  cachemap,   \* id -> [ptr, use] of the entries
  limit,
  peak,       \* the largest limit there has been, 0 for none
  time,
  call,       \* call[t]: pc, and the id, pointer and number needed of a call
  given,      \* pointers passed to add()
  freed,      \* pointers deleted by the cache
  returned,   \* pointers that detach() has given back
  twice       \* some pointer has been deleted twice

cacheVars == <<cachemap, limit, peak, time, call, given, freed, returned, twice>>

NoCall == [pc |-> "none", id |-> 0, ptr |-> NoPtr, needed |-> 0]
Size == Cardinality(DOMAIN cachemap)
Stored == {cachemap[i].ptr : i \in DOMAIN cachemap}

Without(ids) == [i \in DOMAIN cachemap \ ids |-> cachemap[i]]

\* The pointers are deleted after the lock has been given back.
Delete(ptrs) ==
  /\ freed' = freed \cup ptrs
  /\ twice' = (twice \/ ptrs \cap freed # {})

CacheInit ==
  /\ cachemap = [i \in {} |-> 0]
  /\ limit \in CLimits /\ peak = limit
  /\ time = 0
  /\ call = [t \in CThread |-> NoCall]
  /\ given = {} /\ freed = {} /\ returned = {} /\ twice = FALSE

\* evict() returns true: to add(), or to set_limit().
Evicted(c) == IF c.ptr = NoPtr THEN NoCall ELSE [c EXCEPT !.pc = "insert", !.needed = 0]

-----------------------------------------------------------------------------
(* add(): remove(), test of the limit, evict(), insertion *)

Add(t, i, p) ==
  /\ call[t] = NoCall /\ p \notin given
  /\ given' = given \cup {p}
  /\ call' = [call EXCEPT ![t] = [NoCall EXCEPT !.pc = "replace", !.id = i, !.ptr = p]]
  /\ UNCHANGED <<cachemap, limit, peak, time, freed, returned, twice>>

DropOld(t) ==
  LET old == {call[t].id} \cap DOMAIN cachemap
  IN /\ call[t].pc = "replace"
     /\ cachemap' = Without(old)
     /\ Delete({cachemap[i].ptr : i \in old})
     /\ call' = [call EXCEPT ![t].pc = "test"]
     /\ UNCHANGED <<limit, peak, time, given, returned>>

\* Mutant: the entry to come is not counted.
TestLimitOff(t) ==
  /\ call[t].pc = "test"
  /\ call' = [call EXCEPT ![t].pc =
                IF limit # 0 /\ Size > limit THEN "evict" ELSE "insert"]
  /\ UNCHANGED <<cachemap, limit, peak, time, given, freed, returned, twice>>

TestLimit(t) ==
  /\ call[t].pc = "test"
  /\ call' = [call EXCEPT ![t].pc =
                IF limit # 0 /\ Size >= limit THEN "evict" ELSE "insert"]
  /\ UNCHANGED <<cachemap, limit, peak, time, given, freed, returned, twice>>

\* Another thread may have added the same id since remove().
Store(t) ==
  /\ call[t].pc = "insert"
  /\ cachemap' = [i \in DOMAIN cachemap \cup {call[t].id} |->
                    IF i = call[t].id THEN [ptr |-> call[t].ptr, use |-> time] ELSE cachemap[i]]
  /\ call' = [call EXCEPT ![t] = NoCall]
  /\ UNCHANGED <<limit, peak, time, given, freed, returned, twice>>

-----------------------------------------------------------------------------
(* evict(): the number needed, then one entry under each lock *)

\* size() - limit + 1 as an unsigned int: below the limit it wraps.
EvictStarts(t) ==
  LET needed == (Size + CacheUInt + 1 - limit) % CacheUInt
  IN /\ call[t].pc = "evict"
     /\ call' = [call EXCEPT ![t] = IF needed # 0 THEN [@ EXCEPT !.pc = "worst", !.needed = needed]
                                   ELSE Evicted(@)]
     /\ UNCHANGED <<cachemap, limit, peak, time, given, freed, returned, twice>>

\* check_worst() against an entry made now: the first of the least recently
\* used, if it was not used in this second.
Worst == {i \in DOMAIN cachemap :
  /\ cachemap[i].use < time
  /\ \A j \in DOMAIN cachemap :
       cachemap[j].use > cachemap[i].use \/ (cachemap[j].use = cachemap[i].use /\ j >= i)}

\* Without one add() returns false, and has lost the pointer it was given.
\* prepare_to_die(), which may refuse in a subclass, is true in PointerCache.
EvictOne(t) ==
  /\ call[t].pc = "worst"
  /\ cachemap' = Without(Worst)
  /\ Delete({cachemap[i].ptr : i \in Worst})
  /\ call' = [call EXCEPT ![t] =
       IF Worst = {} THEN NoCall
       ELSE IF @.needed = 1 THEN Evicted(@) ELSE [@ EXCEPT !.needed = call[t].needed - 1]]
  /\ UNCHANGED <<limit, peak, time, given, returned>>

SetLimit(t, l) ==
  /\ call[t] = NoCall
  /\ limit' = l
  /\ peak' = IF l = 0 \/ (peak # 0 /\ l > peak) THEN l ELSE peak
  /\ call' = [call EXCEPT ![t] = [NoCall EXCEPT !.pc = "evict"]]
  /\ UNCHANGED <<cachemap, time, given, freed, returned, twice>>

-----------------------------------------------------------------------------
(* The other calls have one section each *)

TouchEntry(t, i) ==
  /\ call[t] = NoCall /\ i \in DOMAIN cachemap
  /\ cachemap' = [cachemap EXCEPT ![i].use = time]
  /\ UNCHANGED <<limit, peak, time, call, given, freed, returned, twice>>

\* Mutant: detach() leaves the entry in the map.
DetachKept(t, i) ==
  /\ call[t] = NoCall /\ i \in DOMAIN cachemap
  /\ returned' = returned \cup {cachemap[i].ptr}
  /\ UNCHANGED <<cachemap, limit, peak, time, call, given, freed, twice>>

Detach(t, i) ==
  /\ call[t] = NoCall /\ i \in DOMAIN cachemap
  /\ cachemap' = Without({i})
  /\ returned' = returned \cup {cachemap[i].ptr}
  /\ UNCHANGED <<limit, peak, time, call, given, freed, twice>>

\* remove() of one entry, tidy() of those not used for the timeout, clear().
Expired == {i \in DOMAIN cachemap : Timeout # 0 /\ time - cachemap[i].use >= Timeout}

Discard(t) ==
  /\ call[t] = NoCall
  /\ \E ids \in {{i} : i \in DOMAIN cachemap} \cup {Expired, DOMAIN cachemap} :
       /\ ids # {}
       /\ cachemap' = Without(ids)
       /\ Delete({cachemap[i].ptr : i \in ids})
  /\ UNCHANGED <<limit, peak, time, call, given, returned>>

TimePasses ==
  /\ time < MaxTime
  /\ time' = time + 1
  /\ UNCHANGED <<cachemap, limit, peak, call, given, freed, returned, twice>>

-----------------------------------------------------------------------------
CacheNext ==
  \/ \E t \in CThread :
       \/ \E i \in Id, p \in Ptr : Add(t, i, p)
       \/ DropOld(t) \/ TestLimit(t) \/ Store(t)
       \/ EvictStarts(t) \/ EvictOne(t)
       \/ \E l \in CLimits : SetLimit(t, l)
       \/ \E i \in Id : TouchEntry(t, i) \/ Detach(t, i)
       \/ Discard(t)
  \/ TimePasses

CacheSpec == CacheInit /\ [][CacheNext]_cacheVars

-----------------------------------------------------------------------------
\* The cache owns what it holds: however the sections of adds, evictions and
\* removals of several threads alternate, it holds no pointer twice, none that
\* it has deleted or that detach() has given away, and deletes none twice.
Owns ==
  /\ \A i, j \in DOMAIN cachemap : i # j => cachemap[i].ptr # cachemap[j].ptr
  /\ Stored \cap (freed \cup returned) = {}
  /\ freed \cap returned = {} /\ ~twice

\* The test of the limit takes no lock, so that each other thread may add one
\* entry after it; the cache never grows beyond that.
SizeBounded == peak # 0 => Size <= peak + Cardinality(CThread) - 1

\* add() of an id that is in use, by whichever thread, deletes the content that
\* the id had.
OldDeleted == [][\A i \in DOMAIN cachemap \cap DOMAIN cachemap' :
  cachemap'[i].ptr # cachemap[i].ptr => cachemap[i].ptr \in freed']_cacheVars

\* set_limit() and add() evict only while the cache has no room for one more.
EvictsExcessOnly == [][\A t \in CThread :
  (call[t].pc = "worst" /\ Size' < Size) => Size >= limit]_cacheVars
=============================================================================
