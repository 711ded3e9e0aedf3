-------------------------- MODULE ThreadPoolProofs --------------------------
(***************************************************************************)
(* Proofs about the thread pool, for any threads, clients and settings.    *)
(*                                                                         *)
(* Two things hold always, through a shutdown too: the mutex is held       *)
(* across steps exactly by a replace() that joins the thread it kills, or  *)
(* by shutdown() (Mutex), and a thread that exists is in one of the lists, *)
(* being killed, or on its way from one list to the other (Covered).       *)
(* fill() counts the lists alone; it is right because it holds the mutex,  *)
(* so that nothing is on its way.                                          *)
(*                                                                         *)
(* Until a shutdown each of these places says what its threads do          *)
(* (InOrder): spares wait, with in_use clear; actives work, or wait for    *)
(* their kick(); only the one that a replace() kills is told to die.       *)
(***************************************************************************)
EXTENDS ThreadPool, ListTheorems

WorkerPlaces == {"none", "wait", "run", "clear", "ending", "exited", "replace", "lock", "join"}
ClientPlaces == {"idle", "waiting", "remove", "got", "replace", "lock", "join"}
MainPlaces   == {"idle", "lock", "next", "delete", "join", "down"}

User == Worker \cup Client

Places ==
  /\ \A w \in Worker : pc[w] \in WorkerPlaces
  /\ \A c \in Client : pc[c] \in ClientPlaces
  /\ pc[Main] \in MainPlaces
  /\ pc[Main] # "idle" => shutting_down
  /\ \A c \in Client : pc[c] \in {"got", "replace", "lock", "join"} <=> got[c] # Nobody

Mutex ==
  /\ \A p \in User : pc[p] = "join" <=> mymutex = p
  /\ pc[Main] \in {"next", "delete", "join"} <=> mymutex = Main
  /\ victim # Nobody <=> mymutex \in User
  /\ pc[Main] \in {"delete", "join"} => actives # << >> \/ spares # << >>

Covered ==
  \A w \in Allocated :
    \/ w \in Range(spares) \/ w \in Range(actives) \/ w = victim
    \/ mymutex \in User /\ Replacing(mymutex) = w

\* The places of the threads before a shutdown, and what they do there.
ListsApart ==
  /\ Distinct(spares) /\ Distinct(actives)
  /\ \A w \in Range(spares) : w \notin Range(actives)

SparesWait ==
  \A w \in Range(spares) : pc[w] = "wait" /\ ~in_use[w] /\ ~dying[w] /\ running[w]

ActivesWork ==
  \A w \in Range(actives) :
    /\ pc[w] \in {"wait", "run", "clear", "replace", "lock"} /\ ~dying[w] /\ running[w]
    /\ pc[w] \in {"replace", "lock"} => ~in_use[w]

Killed ==
  victim # Nobody =>
    /\ pc[victim] \in {"wait", "ending", "exited"} /\ dying[victim]
    /\ victim \notin Range(spares) /\ victim \notin Range(actives)

Moving ==
  mymutex \in User =>
    LET w == Replacing(mymutex)
    IN  /\ w \notin Range(spares) /\ w \notin Range(actives) /\ w # victim
        /\ ~dying[w] /\ ~in_use[w] /\ running[w]
        /\ pc[w] = IF mymutex \in Client THEN "wait" ELSE "join"

Handed ==
  \A c \in Client : got[c] # Nobody =>
    /\ pc[got[c]] = "wait" /\ ~in_use[got[c]]
    /\ pc[c] # "join" => got[c] \in Range(actives)
    /\ \A d \in Client \ {c} : got[d] # got[c]

InOrder == ListsApart /\ SparesWait /\ ActivesWork /\ Killed /\ Moving /\ Handed

PoolInv ==
  /\ TypeOK /\ Places /\ Mutex /\ Covered /\ ThreadLimit
  /\ ~shutting_down => InOrder

-----------------------------------------------------------------------------
(* fill() *)

LEMMA Smallest ==
  ASSUME NEW a \in Int, NEW b \in Int, NEW c \in Int
  PROVE  Min({a, b, c}) \in {a, b, c} /\ Min({a, b, c}) <= a
         /\ Min({a, b, c}) <= b /\ Min({a, b, c}) <= c
<1>1. \E x \in {a, b, c} : \A y \in {a, b, c} : x <= y
  <2>1. CASE a <= b /\ a <= c BY <2>1
  <2>2. CASE b <= a /\ b <= c BY <2>2
  <2>3. CASE c <= a /\ c <= b BY <2>3
  <2> QED BY <2>1, <2>2, <2>3
<1> QED BY <1>1 DEF Min

LEMMA AtLeastZero ==
  ASSUME NEW a \in Int
  PROVE  Max({0, a}) = IF a > 0 THEN a ELSE 0
<1>1. \E x \in {0, a} : \A y \in {0, a} : x >= y
  <2>1. CASE a > 0 BY <2>1
  <2>2. CASE ~ (a > 0) BY <2>2
  <2> QED BY <2>1, <2>2
<1>2. Max({0, a}) \in {0, a} /\ \A y \in {0, a} : Max({0, a}) >= y
  BY <1>1 DEF Max
<1> QED BY <1>2

\* fill() creates nothing, or keeps to the limit.
LEMMA ShortfallBounds ==
  ASSUME NEW spare \in Nat, NEW active \in Nat, NEW wanted \in Nat,
         NEW limit \in Nat, NEW free \in Nat
  PROVE  LET n == Shortfall(spare, active, wanted, limit, free)
         IN  /\ n \in Nat
             /\ n > 0 /\ limit # 0 => spare + active + n <= limit
<1> DEFINE room == IF limit = 0 THEN free ELSE limit - spare - active
           least == Min({wanted - spare, room, free})
<1>1. room \in Int /\ (limit # 0 => room = limit - spare - active) OBVIOUS
<1> HIDE DEF room
<1>2. least \in Int /\ least <= room
  <2> DEFINE lacking == wanted - spare
  <2>1. lacking \in Int /\ free \in Int OBVIOUS
  <2> HIDE DEF lacking
  <2>2. Min({lacking, room, free}) \in {lacking, room, free} /\ Min({lacking, room, free}) <= room
    BY <1>1, <2>1, Smallest
  <2> QED BY <1>1, <2>1, <2>2 DEF lacking
<1>3. Shortfall(spare, active, wanted, limit, free) = Max({0, least})
  BY DEF Shortfall, room
<1> HIDE DEF least
<1>4. Max({0, least}) = IF least > 0 THEN least ELSE 0 BY <1>2, AtLeastZero
<1> QED BY <1>1, <1>2, <1>3, <1>4

LEMMA NewThreadsDistinct ==
  ASSUME NEW from \in SUBSET Worker, NEW n \in Nat, NEW s \in NewThreads(from, n)
  PROVE  s \in Seq(from) /\ Len(s) = n /\ Distinct(s) /\ Range(s) \subseteq from
<1>1. s \in [1..n -> from] /\ \A i \in 1..n : Cardinality({w \in from : w < s[i]}) = i - 1
  BY DEF NewThreads
<1>2. s \in Seq(from) /\ Len(s) = n BY <1>1
<1>3. Distinct(s)
  <2> SUFFICES ASSUME NEW i \in 1..n, NEW j \in 1..n, s[i] = s[j] PROVE i = j
    BY <1>2 DEF Distinct
  <2>1. i - 1 = j - 1 BY <1>1
  <2> QED BY <2>1
<1>4. Range(s) \subseteq from BY <1>1 DEF Range
<1> QED BY <1>2, <1>3, <1>4

LEMMA LargestLimit ==
  ASSUME NEW m \in MaxChoices
  PROVE  Max(MaxChoices) \in Nat /\ m <= Max(MaxChoices)
<1> DEFINE above == {u \in Nat : \A x \in MaxChoices : x <= u}
           R == OpToRel(<, Nat)
<1>1. MaxChoices \subseteq Nat /\ UIntSize \in Nat /\ \A x \in MaxChoices : x <= UIntSize
  BY SizeAssumption
<1>2. UIntSize \in above BY <1>1
<1>3. \E u \in above : \A v \in above : ~ (<<v, u>> \in R)
  BY <1>2, WFMin, NatLessThanWellFounded
<1>4. PICK u \in above : \A v \in above : ~ (v < u)
  BY <1>3 DEF OpToRel
<1>5. u \in MaxChoices
  <2> SUFFICES ASSUME u \notin MaxChoices PROVE FALSE OBVIOUS
  <2>1. \A x \in MaxChoices : x < u BY <1>1, <1>4
  <2>2. u - 1 \in above BY <1>1, <2>1
  <2> QED BY <1>4, <2>2
<1>6. \E x \in MaxChoices : \A y \in MaxChoices : x >= y BY <1>1, <1>4, <1>5
<1> QED BY <1>1, <1>6 DEF Max

LEMMA Finite ==
  /\ \A W \in SUBSET Worker : IsFiniteSet(W) /\ Cardinality(W) \in Nat
  /\ \A W \in SUBSET Worker : \A V \in SUBSET W : Cardinality(V) <= Cardinality(W)
<1>1. \A W \in SUBSET Worker : IsFiniteSet(W) BY ProcAssumption, FS_Subset
<1>2. \A W \in SUBSET Worker : Cardinality(W) \in Nat BY <1>1, FS_CardinalityType
<1>3. \A W \in SUBSET Worker : \A V \in SUBSET W : Cardinality(V) <= Cardinality(W)
  BY <1>1, FS_Subset
<1> QED BY <1>1, <1>2, <1>3

LEMMA UnionBound ==
  ASSUME NEW A, NEW B, IsFiniteSet(A), IsFiniteSet(B)
  PROVE  /\ IsFiniteSet(A \cup B) /\ Cardinality(A \cup B) \in Nat
         /\ Cardinality(A \cup B) <= Cardinality(A) + Cardinality(B)
<1>1. IsFiniteSet(A \cup B) /\ IsFiniteSet(A \cap B) BY FS_Union, FS_Intersection
<1>2. Cardinality(A) \in Nat /\ Cardinality(B) \in Nat /\ Cardinality(A \cap B) \in Nat
  BY <1>1, FS_CardinalityType
<1>3. Cardinality(A \cup B) = Cardinality(A) + Cardinality(B) - Cardinality(A \cap B)
  BY FS_Union
<1>4. Cardinality(A \cup B) \in Nat BY <1>1, FS_CardinalityType
<1> QED BY <1>1, <1>2, <1>3, <1>4

\* What fill() appends: new threads, each once.
LEMMA FillNew ==
  ASSUME TypeOK, NEW min \in MinChoices, NEW new \in Fill(min)
  PROVE  /\ new \in Seq(Worker) /\ Distinct(new)
         /\ Range(new) \subseteq Unallocated /\ Unallocated \subseteq Worker
         /\ Len(new) > 0 /\ max_threads # 0 =>
              Len(spares) + Len(actives) + Len(new) <= max_threads
<1> DEFINE free == Cardinality(Unallocated)
           n == Shortfall(Len(spares), Len(actives), WantedSpares(min), max_threads, free)
<1>1. Unallocated \in SUBSET Worker BY DEF Unallocated
<1>2. free \in Nat BY <1>1, Finite
<1>3. /\ Len(spares) \in Nat /\ Len(actives) \in Nat /\ max_threads \in Nat
      /\ WantedSpares(min) \in Nat
  BY SizeAssumption DEF TypeOK, WantedSpares
<1>4. n \in Nat /\ (n > 0 /\ max_threads # 0 => Len(spares) + Len(actives) + n <= max_threads)
  <2> HIDE DEF free
  <2> QED BY <1>2, <1>3, ShortfallBounds
<1>5. new \in NewThreads(Unallocated, n) BY DEF Fill
<1> HIDE DEF n
<1>6. /\ new \in Seq(Unallocated) /\ Len(new) = n /\ Distinct(new)
      /\ Range(new) \subseteq Unallocated
  BY <1>1, <1>4, <1>5, NewThreadsDistinct
<1>7. new \in Seq(Worker) BY <1>1, <1>6
<1> QED BY <1>1, <1>4, <1>6, <1>7

\* fill() keeps to the limit although it counts only the lists: while it has
\* the mutex nothing is on its way from one list to the other.
LEMMA FillLimit ==
  ASSUME PoolInv, mymutex = Nobody, NEW min \in MinChoices, NEW new \in Fill(min),
         0 \notin MaxChoices
  PROVE  Cardinality(Allocated \cup Range(new)) <= Max(MaxChoices)
<1> USE DEF PoolInv
<1>1. Allocated \in SUBSET Worker BY DEF Allocated
<1>2. Allocated \subseteq Range(spares) \cup Range(actives)
  <2>1. Nobody \notin User BY ProcAssumption DEF User
  <2>2. victim = Nobody BY <2>1 DEF Mutex
  <2> QED BY <1>1, <2>1, <2>2, ProcAssumption DEF Covered
<1>3. CASE Len(new) = 0
  <2>1. Range(new) = {} BY <1>3, FillNew DEF Range
  <2> QED BY <2>1 DEF ThreadLimit
<1>4. CASE Len(new) # 0
  <2>1. /\ new \in Seq(Worker) /\ spares \in Seq(Worker) /\ actives \in Seq(Worker)
        /\ Len(new) \in Nat /\ Len(spares) \in Nat /\ Len(actives) \in Nat
    BY FillNew DEF TypeOK
  <2> DEFINE A == Range(spares)  B == Range(actives)  C == Range(new)
  <2>2. /\ IsFiniteSet(A) /\ Cardinality(A) \in Nat /\ Cardinality(A) <= Len(spares)
        /\ IsFiniteSet(B) /\ Cardinality(B) \in Nat /\ Cardinality(B) <= Len(actives)
        /\ IsFiniteSet(C) /\ Cardinality(C) \in Nat /\ Cardinality(C) <= Len(new)
    BY <2>1, DistinctLength
  <2> HIDE DEF A, B, C
  <2>3. /\ IsFiniteSet(A \cup B) /\ Cardinality(A \cup B) \in Nat
        /\ Cardinality(A \cup B) <= Cardinality(A) + Cardinality(B)
    BY <2>2, UnionBound
  <2>5. /\ IsFiniteSet((A \cup B) \cup C)
        /\ Cardinality((A \cup B) \cup C) <= Cardinality(A \cup B) + Cardinality(C)
    BY <2>2, <2>3, UnionBound
  <2>6. Allocated \cup C \in SUBSET ((A \cup B) \cup C) BY <1>2 DEF A, B
  <2>7. /\ Cardinality(Allocated \cup C) <= Cardinality((A \cup B) \cup C)
        /\ Cardinality(Allocated \cup C) \in Nat /\ Cardinality((A \cup B) \cup C) \in Nat
    BY <2>5, <2>6, FS_Subset, FS_CardinalityType
  <2>8. Len(spares) + Len(actives) + Len(new) <= max_threads /\ max_threads \in Nat
    BY <1>4, <2>1, FillNew, SizeAssumption DEF TypeOK
  <2>9. max_threads <= Max(MaxChoices) /\ Max(MaxChoices) \in Nat
    BY LargestLimit DEF TypeOK
  <2> QED BY <2>1, <2>2, <2>3, <2>5, <2>7, <2>8, <2>9 DEF C
<1>5. Len(new) \in Nat BY FillNew
<1> QED BY <1>3, <1>4

-----------------------------------------------------------------------------
(* The invariant *)

LEMMA LimitKept ==
  ASSUME TypeOK, ThreadLimit, Allocated' \subseteq Allocated
  PROVE  ThreadLimit'
<1>1. Allocated \in SUBSET Worker /\ Allocated' \in SUBSET Allocated BY DEF Allocated
<1>2. /\ Cardinality(Allocated') <= Cardinality(Allocated)
      /\ Cardinality(Allocated') \in Nat /\ Cardinality(Allocated) \in Nat
  BY <1>1, Finite
<1>3. 0 \notin MaxChoices => Cardinality(Allocated') <= Max(MaxChoices)
  <2> SUFFICES ASSUME 0 \notin MaxChoices PROVE Cardinality(Allocated') <= Max(MaxChoices)
    OBVIOUS
  <2>1. Cardinality(Allocated) <= Max(MaxChoices) /\ Max(MaxChoices) \in Nat
    BY LargestLimit DEF ThreadLimit, TypeOK
  <2> QED BY <1>2, <2>1
<1> QED BY <1>3 DEF ThreadLimit

\* The constructor's fill().
LEMMA InitPool ==
  Init => PoolInv
<1> SUFFICES ASSUME Init PROVE PoolInv OBVIOUS
<1> DEFINE n == Shortfall(0, 0, WantedSpares(min_spares), max_threads, Cardinality(Worker))
<1>1. Cardinality(Worker) \in Nat BY Finite
<1>2. WantedSpares(min_spares) \in Nat /\ max_threads \in Nat
  BY SizeAssumption DEF Init, WantedSpares
<1>3. n \in Nat /\ (n > 0 /\ max_threads # 0 => n <= max_threads)
  <2>1. n \in Nat /\ (n > 0 /\ max_threads # 0 => 0 + 0 + n <= max_threads)
    BY <1>1, <1>2, ShortfallBounds
  <2> HIDE DEF n
  <2> QED BY <2>1, <1>2
<1>4. spares \in NewThreads(Worker, n) BY DEF Init
<1> HIDE DEF n
<1>5. spares \in Seq(Worker) /\ Len(spares) = n /\ Distinct(spares) /\ Range(spares) \subseteq Worker
  BY <1>3, <1>4, NewThreadsDistinct
<1>6. actives = << >> /\ actives \in Seq(Worker) /\ Range(actives) = {} /\ Distinct(actives)
  BY DEF Init, Range, Distinct
<1>7. /\ Main \notin User /\ Nobody \notin User /\ Main # Nobody
      /\ \A p \in Worker : p \notin Client
  BY ProcAssumption DEF User
<1>0. /\ \A w \in Worker : pc[w] = IF w \in Range(spares) THEN "wait" ELSE "none"
      /\ \A p \in Client \cup {Main} : pc[p] = "idle"
      /\ DOMAIN pc = Proc /\ pc = [p \in Proc |-> pc[p]]
  BY <1>7 DEF Init, Proc, User
<1>8. TypeOK
  <2>1. pc \in [Proc -> {"none", "wait", "idle"}] BY <1>0 DEF Proc
  <2>2. running \in [Worker -> BOOLEAN] BY DEF Init
  <2> QED BY <1>5, <1>6, <2>1, <2>2 DEF Init, TypeOK
<1>9. Allocated = Range(spares)
  BY <1>5, <1>7 DEF Init, Allocated, Unallocated, Proc
<1>10. Places
  BY <1>0 DEF Init, Places, WorkerPlaces, ClientPlaces, MainPlaces
<1>11. Mutex
  BY <1>7, <1>5 DEF Init, Mutex, Proc, User
<1>12. Covered BY <1>9 DEF Covered
<1>13. ThreadLimit
  <2> SUFFICES ASSUME 0 \notin MaxChoices
               PROVE  Cardinality(Allocated) <= Max(MaxChoices)
    BY DEF ThreadLimit
  <2>1. Cardinality(Allocated) \in Nat /\ Cardinality(Allocated) <= n
    BY <1>5, <1>9, DistinctLength
  <2>2. max_threads \in MaxChoices BY DEF Init
  <2>3. max_threads <= Max(MaxChoices) /\ Max(MaxChoices) \in Nat /\ max_threads # 0
    BY <2>2, LargestLimit
  <2> QED BY <1>2, <1>3, <2>1, <2>3
<1>14. InOrder
  BY <1>5, <1>6, <1>7 DEF Init, InOrder, ListsApart, SparesWait, ActivesWork, Killed, Moving,
                          Handed, Proc, User
<1> QED BY <1>8, <1>10, <1>11, <1>12, <1>13, <1>14 DEF PoolInv

\* What the rest of the proof needs of the constants.
LEMMA Kinds ==
  /\ Main \notin User /\ Nobody \notin User /\ Main # Nobody
  /\ \A w \in Worker : w \notin Client /\ w # Main /\ w # Nobody
  /\ \A c \in Client : c \notin Worker /\ c # Main /\ c # Nobody
  /\ Worker \subseteq User /\ Client \subseteq User /\ User \subseteq Proc /\ Main \in Proc
  BY ProcAssumption DEF User, Proc

\* The steps of the thread function: a thread that works is one of the actives,
\* and one that ends is the one being killed.
LEMMA WorkerSteps ==
  ASSUME PoolInv, NEW w \in Worker, WorkerStep(w)
  PROVE  PoolInv'
<1> USE Kinds DEF PoolInv
<1>1. /\ UNCHANGED <<spares, actives, min_spares, max_threads, shutting_down, mymutex,
                     dying, got, victim>>
      /\ pc[w] \in {"wait", "run", "clear", "ending"}
      /\ \E l \in {"run", "clear", "replace", "ending", "exited"} : pc' = [pc EXCEPT ![w] = l]
  BY DEF WorkerStep, woken, run_returns, clear, ends, Goto, poolVars, workerVars
<1>2. PICK l \in {"run", "clear", "replace", "ending", "exited"} : pc' = [pc EXCEPT ![w] = l]
  BY <1>1
<1>3. pc'[w] = l /\ \A p \in Proc : p # w => pc'[p] = pc[p] /\ l # "none" /\ l # "join"
  BY <1>2 DEF TypeOK
<1>4. TypeOK'
  <2>1. in_use' \in [Worker -> BOOLEAN] /\ running' \in [Worker -> BOOLEAN]
    BY DEF TypeOK, WorkerStep, woken, run_returns, clear, ends, workerVars
  <2> QED BY <1>1, <1>2, <2>1 DEF TypeOK, Proc
<1>5. Places' BY <1>1, <1>3 DEF Places, WorkerPlaces
<1>6. Mutex' BY <1>1, <1>3 DEF Mutex, User
<1>7. Allocated' = Allocated BY <1>1, <1>3 DEF Allocated, Unallocated
<1>8. Covered' BY <1>1, <1>7 DEF Covered, Replacing
<1>9. ThreadLimit' BY <1>7, LimitKept
<1>10. ASSUME ~shutting_down PROVE InOrder'
  <2>1. InOrder BY <1>10
  <2>2. \/ w \in Range(spares) \/ w \in Range(actives) \/ w = victim
        \/ mymutex \in User /\ Replacing(mymutex) = w
    BY <1>1 DEF Covered, Allocated, Unallocated
  <2>3. \A c \in Client : got[c] \in Worker \cup {Nobody} BY DEF TypeOK
  <2>4. \A x \in Range(spares) : x \in Worker BY DEF TypeOK, Range
  <2>5. \A x \in Range(actives) : x \in Worker BY DEF TypeOK, Range
  <2>6. mymutex \in User => Replacing(mymutex) \in Worker
    BY <2>3 DEF Places, Mutex, Replacing, User
  <2>7. victim \in Worker \cup {Nobody} BY DEF TypeOK
  <2>8. ListsApart' BY <1>1, <2>1 DEF InOrder, ListsApart
  <2>9. /\ \A x \in Worker : x # w => in_use'[x] = in_use[x] /\ running'[x] = running[x]
        /\ l # "exited" => running'[w] = running[w]
        /\ l # "replace" => in_use'[w] = in_use[w]
        /\ l = "replace" => in_use'[w] = FALSE
    BY <1>3 DEF TypeOK, WorkerStep, woken, run_returns, clear, ends, workerVars, Goto
  <2>10. CASE pc[w] = "ending" \/ (pc[w] = "wait" /\ dying[w])
    <3>0. w = victim
      BY <2>1, <2>2, <2>10 DEF InOrder, SparesWait, ActivesWork, Moving
    <3>1. w = victim /\ l \in {"ending", "exited"} /\ l # "replace"
      <4>1. pc'[w] \in {"ending", "exited"}
        BY <2>10 DEF TypeOK, Proc, WorkerStep, woken, run_returns, clear, ends, Goto
      <4> QED BY <1>3, <3>0, <4>1
    <3>2. w \notin Range(spares) /\ w \notin Range(actives) /\ \A c \in Client : got[c] # w
      <4>1. w \notin Range(spares) /\ w \notin Range(actives)
        BY <2>1, <3>1 DEF InOrder, Killed
      <4>2. ASSUME NEW c \in Client, got[c] = w PROVE FALSE
        <5>1. pc[c] = "join" BY <2>1, <4>1, <4>2 DEF InOrder, Handed
        <5>2. mymutex = c BY <5>1 DEF Mutex
        <5> QED BY <2>1, <3>1, <4>2, <5>2 DEF InOrder, Moving, Replacing
      <4> QED BY <4>1, <4>2
    <3>3. SparesWait' BY <1>1, <1>3, <2>1, <2>4, <2>9, <3>2 DEF InOrder, SparesWait
    <3>4. ActivesWork' BY <1>1, <1>3, <2>1, <2>5, <2>9, <3>2 DEF InOrder, ActivesWork
    <3>5. Killed' BY <1>1, <1>3, <2>1, <3>1 DEF InOrder, Killed
    <3>6. Moving' BY <1>1, <1>3, <2>1, <2>6, <2>9, <3>1 DEF InOrder, Moving, Replacing
    <3>7. Handed' BY <1>1, <1>3, <2>1, <2>3, <2>9, <3>2 DEF InOrder, Handed
    <3> QED BY <2>8, <3>3, <3>4, <3>5, <3>6, <3>7 DEF InOrder
  <2>11. CASE ~ (pc[w] = "ending" \/ (pc[w] = "wait" /\ dying[w]))
    <3>1. w \in Range(actives) /\ (pc[w] = "wait" => in_use[w])
      BY <1>1, <2>1, <2>2, <2>11
         DEF InOrder, SparesWait, Killed, Moving, WorkerStep, woken, run_returns, clear, ends
    <3>2. /\ l \in {"run", "clear", "replace"}
          /\ w \notin Range(spares) /\ w # victim /\ \A c \in Client : got[c] # w
      BY <1>1, <1>3, <2>1, <2>5, <2>11, <3>1
         DEF InOrder, ListsApart, ActivesWork, Killed, Handed,
             WorkerStep, woken, run_returns, clear, ends, Goto
    <3>3. SparesWait' BY <1>1, <1>3, <2>1, <2>4, <2>9, <3>2 DEF InOrder, SparesWait
    <3>4. ActivesWork' BY <1>1, <1>3, <2>1, <2>5, <2>9, <3>2 DEF InOrder, ActivesWork
    <3>5. Killed' BY <1>1, <1>3, <2>1, <2>7, <3>2 DEF InOrder, Killed
    <3>6. Moving' BY <1>1, <1>3, <2>1, <2>6, <2>9, <3>1 DEF InOrder, Moving, Replacing
    <3>7. Handed' BY <1>1, <1>3, <2>1, <2>3, <2>9, <3>2 DEF InOrder, Handed
    <3> QED BY <2>8, <3>3, <3>4, <3>5, <3>6, <3>7 DEF InOrder
  <2> QED BY <2>10, <2>11
<1> QED BY <1>1, <1>4, <1>5, <1>6, <1>8, <1>9, <1>10

\* Facts of the types that the steps below share.
LEMMA Threads ==
  ASSUME PoolInv
  PROVE  /\ \A w \in Range(spares) : w \in Worker
         /\ \A w \in Range(actives) : w \in Worker
         /\ \A c \in Client : got[c] \in Worker \cup {Nobody}
         /\ victim \in Worker \cup {Nobody}
         /\ mymutex \in User => Replacing(mymutex) \in Worker
         /\ \A p \in User : pc[p] \in {"replace", "lock", "join"} => Replacing(p) \in Worker
<1>1. \A w \in Range(spares) : w \in Worker BY DEF PoolInv, TypeOK, Range
<1>2. \A w \in Range(actives) : w \in Worker BY DEF PoolInv, TypeOK, Range
<1>3. \A c \in Client : got[c] \in Worker \cup {Nobody} BY DEF PoolInv, TypeOK
<1>4. victim \in Worker \cup {Nobody} BY DEF PoolInv, TypeOK
<1>5. \A p \in User : pc[p] \in {"replace", "lock", "join"} => Replacing(p) \in Worker
  BY <1>3, Kinds DEF PoolInv, Places, Replacing, User
<1>6. mymutex \in User => Replacing(mymutex) \in Worker BY <1>5 DEF PoolInv, Mutex
<1> QED BY <1>1, <1>2, <1>3, <1>4, <1>5, <1>6

\* wait() and refuse(): only the client moves on.
LEMMA ClientMoves ==
  ASSUME PoolInv, NEW c \in Client, wait(c) \/ refuse(c)
  PROVE  PoolInv'
<1> USE Kinds, Threads DEF PoolInv
<1>1. UNCHANGED <<spares, actives, min_spares, max_threads, shutting_down, mymutex,
                  in_use, dying, running, got, victim>>
  BY DEF wait, refuse, poolVars, workerVars
<1>2. PICK l \in {"idle", "remove", "replace"} :
        /\ pc' = [pc EXCEPT ![c] = l]
        /\ \/ pc[c] \in {"idle", "waiting"} /\ l # "replace"
           \/ pc[c] = "got" /\ l = "replace"
  BY DEF wait, refuse, Goto
<1>3. pc'[c] = l /\ \A p \in Proc : p # c => pc'[p] = pc[p]
  BY <1>2 DEF TypeOK
<1>4. TypeOK' BY <1>1, <1>2 DEF TypeOK
<1>5. Places' BY <1>1, <1>2, <1>3 DEF Places, ClientPlaces
<1>6. Mutex' BY <1>1, <1>2, <1>3 DEF Mutex, User
<1>7. Allocated' = Allocated BY <1>1, <1>3 DEF Allocated, Unallocated
<1>8. Covered' BY <1>1, <1>7 DEF Covered, Replacing
<1>9. ThreadLimit' BY <1>7, LimitKept
<1>10. ASSUME ~shutting_down PROVE InOrder'
  <2>1. InOrder BY <1>10
  <2>2. \A w \in Worker : pc'[w] = pc[w] BY <1>3
  <2>3. ListsApart' BY <1>1, <2>1 DEF InOrder, ListsApart
  <2>4. SparesWait' BY <1>1, <2>1, <2>2 DEF InOrder, SparesWait
  <2>5. ActivesWork' BY <1>1, <2>1, <2>2 DEF InOrder, ActivesWork
  <2>6. Killed' BY <1>1, <2>1, <2>2 DEF InOrder, Killed
  <2>7. Moving' BY <1>1, <2>1, <2>2 DEF InOrder, Moving, Replacing
  <2>8. Handed' BY <1>1, <1>2, <1>3, <2>1, <2>2 DEF InOrder, Handed
  <2> QED BY <2>3, <2>4, <2>5, <2>6, <2>7, <2>8 DEF InOrder
<1> QED BY <1>1, <1>4, <1>5, <1>6, <1>8, <1>9, <1>10

\* kick(): before a shutdown the thread waits for it, and nobody else has it.
LEMMA Kicks ==
  ASSUME PoolInv, NEW c \in Client, kick(c)
  PROVE  PoolInv'
<1> USE Kinds, Threads DEF PoolInv
<1>1. /\ UNCHANGED <<spares, actives, min_spares, max_threads, shutting_down, mymutex,
                     dying, running, victim>>
      /\ pc[c] = "got" /\ pc' = [pc EXCEPT ![c] = "idle"]
      /\ got' = [got EXCEPT ![c] = Nobody]
  BY DEF kick, Goto, poolVars
<1>2. /\ pc'[c] = "idle" /\ \A p \in Proc : p # c => pc'[p] = pc[p]
      /\ got'[c] = Nobody /\ \A d \in Client : d # c => got'[d] = got[d]
      /\ mymutex # c
  BY <1>1 DEF TypeOK, Mutex
<1>3. /\ in_use' \in [Worker -> BOOLEAN]
      /\ \A w \in Worker : w # got[c] => in_use'[w] = in_use[w]
  BY DEF kick, TypeOK
<1>4. TypeOK' BY <1>1, <1>3 DEF TypeOK
<1>5. Places' BY <1>1, <1>2 DEF Places, ClientPlaces
<1>6. Mutex' BY <1>1, <1>2 DEF Mutex, User
<1>7. Allocated' = Allocated BY <1>1, <1>2 DEF Allocated, Unallocated
<1>8. mymutex \in User => Replacing(mymutex)' = Replacing(mymutex)
  BY <1>1, <1>2 DEF Replacing, User
<1>9. Covered' BY <1>1, <1>7, <1>8 DEF Covered
<1>10. ThreadLimit' BY <1>7, LimitKept
<1>11. ASSUME ~shutting_down PROVE InOrder'
  <2>1. InOrder BY <1>11
  <2>2. \A w \in Worker : pc'[w] = pc[w] BY <1>2
  <2>3. got[c] \in Worker /\ got[c] \in Range(actives) /\ pc[got[c]] = "wait"
    BY <1>1, <2>1 DEF InOrder, Handed, Places
  <2>4. ListsApart' BY <1>1, <2>1 DEF InOrder, ListsApart
  <2>5. SparesWait' BY <1>1, <1>3, <2>1, <2>2, <2>3 DEF InOrder, SparesWait, ListsApart
  <2>6. ActivesWork' BY <1>1, <1>3, <2>1, <2>2, <2>3 DEF InOrder, ActivesWork
  <2>7. Killed' BY <1>1, <2>1, <2>2 DEF InOrder, Killed
  <2>8. Moving' BY <1>1, <1>3, <1>8, <2>1, <2>2, <2>3 DEF InOrder, Moving
  <2>9. Handed' BY <1>1, <1>2, <1>3, <2>1, <2>2 DEF InOrder, Handed
  <2> QED BY <2>4, <2>5, <2>6, <2>7, <2>8, <2>9 DEF InOrder
<1> QED BY <1>1, <1>4, <1>5, <1>6, <1>9, <1>10, <1>11

\* The test of shutting_down in replace().
LEMMA ReplaceBegins ==
  ASSUME PoolInv, NEW p \in User, replace(p)
  PROVE  PoolInv'
<1> USE Kinds, Threads DEF PoolInv
<1>1. /\ UNCHANGED <<spares, actives, min_spares, max_threads, shutting_down, mymutex,
                     in_use, dying, running, victim>>
      /\ pc[p] = "replace"
  BY DEF replace, poolVars, workerVars
<1>2. PICK l \in {"wait", "idle", "lock"} :
        /\ pc' = [pc EXCEPT ![p] = l]
        /\ shutting_down => l = AfterReplace(p) /\ got' = Dropped(p)
        /\ ~shutting_down => l = "lock" /\ got' = got
  BY DEF replace, AfterReplace, Goto, TypeOK
<1>3. /\ pc'[p] = l /\ \A q \in Proc : q # p => pc'[q] = pc[q]
      /\ mymutex # p
  BY <1>1, <1>2 DEF TypeOK, Mutex
<1>4. /\ got' \in [Client -> Worker \cup {Nobody}]
      /\ \A d \in Client : d # p => got'[d] = got[d]
      /\ p \in Client => IF shutting_down THEN got'[p] = Nobody ELSE got'[p] = got[p]
  BY <1>2 DEF TypeOK, Dropped
<1>5. TypeOK' BY <1>1, <1>2, <1>4 DEF TypeOK
<1>6. Places'
  BY <1>1, <1>2, <1>3, <1>4 DEF Places, AfterReplace, User, WorkerPlaces, ClientPlaces
<1>7. Mutex' BY <1>1, <1>2, <1>3 DEF Mutex, User
<1>8. Allocated' = Allocated BY <1>1, <1>3, <1>2 DEF Allocated, Unallocated
<1>9. mymutex \in User => Replacing(mymutex)' = Replacing(mymutex)
  BY <1>1, <1>3, <1>4 DEF Replacing, User
<1>10. Covered' BY <1>1, <1>8, <1>9 DEF Covered
<1>11. ThreadLimit' BY <1>8, LimitKept
<1>12. ASSUME ~shutting_down PROVE InOrder'
  <2>1. InOrder BY <1>12
  <2>2. /\ got' = got /\ pc'[p] = "lock" /\ \A w \in Worker : w # p => pc'[w] = pc[w]
        /\ \A d \in Client : pc'[d] = "join" => pc[d] = "join"
    BY <1>2, <1>3, <1>12
  <2>3. ListsApart' BY <1>1, <2>1 DEF InOrder, ListsApart
  <2>4. SparesWait' BY <1>1, <2>1, <2>2 DEF InOrder, SparesWait
  <2>5. ActivesWork' BY <1>1, <2>1, <2>2 DEF InOrder, ActivesWork
  <2>6. Killed' BY <1>1, <2>1, <2>2 DEF InOrder, Killed
  <2>7. Moving' BY <1>1, <1>9, <2>1, <2>2 DEF InOrder, Moving
  <2>8. Handed' BY <1>1, <1>3, <2>1, <2>2 DEF InOrder, Handed
  <2> QED BY <2>3, <2>4, <2>5, <2>6, <2>7, <2>8 DEF InOrder
<1> QED BY <1>1, <1>5, <1>6, <1>7, <1>10, <1>11, <1>12

\* What the thread that replace() is given looks like before a shutdown, when
\* the mutex is taken and when a join has ended.
LEMMA GivenBack ==
  ASSUME PoolInv, ~shutting_down, NEW p \in User, pc[p] \in {"lock", "join"},
         NEW r, r = Replacing(p)
  PROVE  /\ r \in Worker /\ r \notin Range(spares) /\ r # victim
         /\ ~dying[r] /\ ~in_use[r] /\ running[r]
         /\ p \in Client => pc[r] = "wait"
         /\ p \in Worker => r = p
         /\ \A d \in Client : d # p => got[d] # r
<1> USE Kinds, Threads DEF PoolInv
<1>1. InOrder /\ r \in Worker /\ (p \in Worker => r = p) /\ (p \in Client => r = got[p])
  BY DEF Replacing
<1>2. \A d \in Client : d # p => got[d] # r
  BY <1>1 DEF InOrder, Handed, User
<1>3. CASE pc[p] = "join"
  <2>1. mymutex = p BY <1>3 DEF Mutex
  <2> QED BY <1>1, <1>2, <1>3, <2>1 DEF InOrder, Moving
<1>4. CASE pc[p] = "lock" /\ p \in Client
  <2>1. got[p] # Nobody BY <1>4 DEF Places
  <2>2. r \in Range(actives) /\ pc[r] = "wait" /\ ~in_use[r]
    BY <1>1, <1>4, <2>1 DEF InOrder, Handed
  <2> QED BY <1>1, <1>2, <1>4, <2>2 DEF InOrder, ListsApart, ActivesWork, Killed
<1>5. CASE pc[p] = "lock" /\ p \in Worker
  <2>1. p \in Allocated BY <1>5 DEF Allocated, Unallocated
  <2>2. p \in Range(actives)
    BY <1>1, <1>5, <2>1 DEF Covered, InOrder, SparesWait, Killed, Moving
  <2> QED BY <1>1, <1>2, <1>5, <2>2 DEF InOrder, ListsApart, ActivesWork, Killed
<1> QED BY <1>3, <1>4, <1>5 DEF User

\* The end of a turn of replace(), which has the mutex: the thread that it has
\* killed, if any, is deleted, and the thread it was given is in no list of
\* working threads any more.
Turn(p, r) ==
  /\ p \in User /\ r = Replacing(p) /\ pc[p] \in {"lock", "join"}
  /\ mymutex \in {Nobody, p} /\ victim # p
  /\ pc' = [q \in Proc |-> pc'[q]]
  /\ \A q \in Proc : q # p => pc'[q] = IF q = victim THEN "none" ELSE pc[q]
  /\ actives' \in Seq(Worker)
  /\ Range(actives') \subseteq Range(actives)
  /\ \A w \in Range(actives) : w # r => w \in Range(actives')
  /\ Distinct(actives) => Distinct(actives')
  /\ ~shutting_down => r \notin Range(actives')
  /\ UNCHANGED <<min_spares, max_threads, shutting_down, running>>

LEMMA TurnKinds ==
  ASSUME PoolInv, NEW p, NEW r, Turn(p, r)
  PROVE  /\ r \in Worker /\ pc'[Main] = pc[Main]
         /\ pc[Main] \notin {"next", "delete", "join"}
         /\ \A q \in User : q # p => pc'[q] # "join"
         /\ \A d \in Client : d # p => pc'[d] = pc[d] /\ pc[d] # "join"
         /\ \A w \in Worker : w # p => pc'[w] = IF w = victim THEN "none" ELSE pc[w]
<1> USE Kinds, Threads DEF PoolInv, Turn
<1>1. r \in Worker OBVIOUS
<1>2. mymutex # Main /\ \A q \in User : q # p => pc[q] # "join"
  BY DEF Mutex
<1>3. pc[Main] \notin {"next", "delete", "join"} BY <1>2 DEF Mutex
<1> QED BY <1>1, <1>2, <1>3

\* The thread goes back to the spares.
LEMMA Returned ==
  ASSUME PoolInv, NEW p, NEW r, Turn(p, r), Return(p, spares), pc'[p] = AfterReplace(p)
  PROVE  PoolInv'
<1> USE Kinds, Threads DEF PoolInv
<1>1. /\ p \in User /\ r = Replacing(p) /\ r \in Worker /\ pc[p] \in {"lock", "join"}
      /\ UNCHANGED <<min_spares, max_threads, shutting_down, running, dying, in_use>>
      /\ mymutex' = Nobody /\ victim' = Nobody
  BY TurnKinds DEF Turn, Return
<1>2. /\ got' \in [Client -> Worker \cup {Nobody}]
      /\ \A d \in Client : d # p => got'[d] = got[d]
      /\ p \in Client => got'[p] = Nobody
  BY DEF Return, Dropped, TypeOK
<1>3. /\ pc'[p] = IF p \in Worker THEN "wait" ELSE "idle"
      /\ \A w \in Worker : w # p => pc'[w] = IF w = victim THEN "none" ELSE pc[w]
      /\ \A d \in Client : d # p => pc'[d] = pc[d] /\ pc[d] # "join"
      /\ pc'[Main] = pc[Main] /\ pc[Main] \notin {"next", "delete", "join"}
  BY <1>1, TurnKinds DEF AfterReplace
<1>4. /\ spares' \in Seq(Worker) /\ Range(spares') = Range(spares) \cup {r}
      /\ Distinct(spares) /\ r \notin Range(spares) => Distinct(spares')
  BY <1>1, AppendElements DEF Return, TypeOK
<1>5. TypeOK'
  <2>1. pc' \in [Proc -> {"none", "wait", "run", "clear", "ending", "exited",
                          "idle", "waiting", "remove", "got", "replace", "lock",
                          "join", "next", "delete", "down"}]
    <3>1. pc' = [q \in Proc |-> pc'[q]]  BY DEF Turn
    <3>2. \A q \in Proc : pc'[q] \in {pc[q], "none", "wait", "idle"}
      BY <1>3 DEF Turn
    <3> QED BY <3>1, <3>2 DEF TypeOK
  <2>2. actives' \in Seq(Worker) BY DEF Turn
  <2> QED BY <1>1, <1>2, <1>4, <2>1, <2>2 DEF TypeOK
<1>6. Places'
  BY <1>1, <1>2, <1>3 DEF Places, User, WorkerPlaces, ClientPlaces, MainPlaces
<1>7. Mutex'
  <2>1. \A q \in User : pc'[q] # "join" BY <1>3, TurnKinds
  <2> QED BY <1>1, <1>3, <2>1 DEF Mutex
<1>8. Allocated' \subseteq Allocated /\ \A w \in Allocated' : w # victim
  BY <1>1, <1>3 DEF Allocated, Unallocated, Turn
<1>9. Covered'
  <2> SUFFICES ASSUME NEW w \in Allocated'
               PROVE  w \in Range(spares') \/ w \in Range(actives')
    BY DEF Covered
  <2> QED BY <1>1, <1>4, <1>8 DEF Covered, Turn
<1>10. ThreadLimit' BY <1>8, LimitKept
<1>11. ASSUME ~shutting_down PROVE InOrder'
  <2>1. InOrder BY <1>11
  <2>2. /\ r \notin Range(spares) /\ r # victim
        /\ ~dying[r] /\ ~in_use[r] /\ running[r]
        /\ p \in Client => pc[r] = "wait"
        /\ p \in Worker => r = p
        /\ \A d \in Client : d # p => got[d] # r
    BY <1>1, <1>11, GivenBack
  <2>3. pc'[r] = "wait" BY <1>1, <1>3, <2>2 DEF User
  <2>4. /\ Range(actives') \subseteq Range(actives) /\ r \notin Range(actives')
        /\ \A w \in Range(actives) : w # r => w \in Range(actives')
    BY <1>11 DEF Turn
  <2>5. \A w \in Range(actives') : w \in Worker /\ w \in Range(actives) /\ w # p /\ w # victim
    BY <2>1, <2>2, <2>4, <1>1 DEF InOrder, Killed, Replacing
  <2>6. \A w \in Range(spares) : w # p /\ w # victim
    BY <2>1, <2>2, <1>1 DEF InOrder, Killed
  <2>7. ListsApart'
    BY <1>4, <2>1, <2>2, <2>4, <2>5 DEF InOrder, ListsApart, Turn
  <2>8. SparesWait' BY <1>1, <1>3, <1>4, <2>1, <2>2, <2>3, <2>6 DEF InOrder, SparesWait
  <2>9. ActivesWork' BY <1>1, <1>3, <2>1, <2>5 DEF InOrder, ActivesWork
  <2>10. Killed' /\ Moving' BY <1>1 DEF Killed, Moving
  <2>11. Handed'
    <3> SUFFICES ASSUME NEW c \in Client, got'[c] # Nobody
                 PROVE  /\ pc'[got'[c]] = "wait" /\ ~in_use'[got'[c]]
                        /\ got'[c] \in Range(actives')
                        /\ \A d \in Client \ {c} : got'[d] # got'[c]
      BY DEF Handed
    <3>1. c # p /\ got'[c] = got[c] /\ got[c] # r /\ pc[c] # "join" BY <1>2, <1>3, <2>2
    <3>2. got[c] \in Range(actives) /\ pc[got[c]] = "wait" /\ ~in_use[got[c]]
      BY <2>1, <3>1 DEF InOrder, Handed
    <3>3. got[c] \in Range(actives') BY <2>4, <3>1, <3>2
    <3>4. \A d \in Client \ {c} : got'[d] # got'[c]
      BY <1>2, <2>1, <3>1 DEF InOrder, Handed
    <3> QED BY <1>1, <1>3, <2>5, <3>1, <3>2, <3>3, <3>4
  <2> QED BY <2>7, <2>8, <2>9, <2>10, <2>11 DEF InOrder
<1> QED BY <1>1, <1>5, <1>6, <1>7, <1>9, <1>10, <1>11

\* The last of the spares is told to die, and joined.
LEMMA Trimmed ==
  ASSUME PoolInv, NEW p, NEW r, Turn(p, r), Trim(p, spares), Len(spares) > 0,
         pc'[p] = "join"
  PROVE  PoolInv'
<1> USE Kinds, Threads DEF PoolInv
<1> DEFINE last == spares[Len(spares)]
<1>1. /\ p \in User /\ r = Replacing(p) /\ r \in Worker /\ pc[p] \in {"lock", "join"}
      /\ UNCHANGED <<min_spares, max_threads, shutting_down, running, got>>
      /\ mymutex' = p /\ victim' = last
  BY TurnKinds DEF Turn, Trim
<1>2. /\ spares' \in Seq(Worker) /\ last \in Worker
      /\ Range(spares) = Range(spares') \cup {last}
      /\ Distinct(spares) => Distinct(spares') /\ last \notin Range(spares')
  BY FrontElements DEF Trim, TypeOK
<1>3. /\ \A w \in Worker : w # p => pc'[w] = IF w = victim THEN "none" ELSE pc[w]
      /\ \A d \in Client : d # p => pc'[d] = pc[d] /\ pc[d] # "join"
      /\ pc'[Main] = pc[Main] /\ pc[Main] \notin {"next", "delete", "join"}
      /\ \A q \in User : q # p => pc'[q] # "join"
  BY <1>1, TurnKinds
<1> HIDE DEF last
<1>4. /\ dying' \in [Worker -> BOOLEAN] /\ in_use' \in [Worker -> BOOLEAN]
      /\ \A w \in Worker : w # last => dying'[w] = dying[w] /\ in_use'[w] = in_use[w]
      /\ running[last] => dying'[last]
  BY <1>2 DEF Trim, die, TypeOK, last
<1>5. TypeOK'
  <2>1. pc' \in [Proc -> {"none", "wait", "run", "clear", "ending", "exited",
                          "idle", "waiting", "remove", "got", "replace", "lock",
                          "join", "next", "delete", "down"}]
    <3>1. pc' = [q \in Proc |-> pc'[q]] BY DEF Turn
    <3>2. \A q \in Proc : pc'[q] \in {pc[q], "none", "join"}
      BY <1>3 DEF Turn
    <3> QED BY <3>1, <3>2 DEF TypeOK
  <2>2. actives' \in Seq(Worker) /\ p \in Proc BY DEF Turn
  <2> QED BY <1>1, <1>2, <1>4, <2>1, <2>2 DEF TypeOK
<1>6. Places'
  <2>1. p \in Client => pc[p] # "idle" /\ got[p] # Nobody BY <1>1 DEF Places
  <2> QED BY <1>1, <1>3, <2>1 DEF Places, User, WorkerPlaces, ClientPlaces, MainPlaces
<1>7. Mutex' BY <1>1, <1>2, <1>3 DEF Mutex
<1>8. Allocated' \subseteq Allocated /\ \A w \in Allocated' : w # victim
  BY <1>1, <1>3 DEF Allocated, Unallocated, Turn
<1>9. Replacing(p)' = r BY <1>1 DEF Replacing
<1>10. Covered'
  <2> SUFFICES ASSUME NEW w \in Allocated'
               PROVE  w \in Range(spares') \/ w \in Range(actives') \/ w = last \/ w = r
    BY <1>1, <1>9 DEF Covered
  <2> QED BY <1>1, <1>2, <1>8 DEF Covered, Turn
<1>11. ThreadLimit' BY <1>8, LimitKept
<1>12. ASSUME ~shutting_down PROVE InOrder'
  <2>1. InOrder BY <1>12
  <2>2. /\ r \notin Range(spares) /\ r # victim
        /\ ~dying[r] /\ ~in_use[r] /\ running[r]
        /\ p \in Client => pc[r] = "wait"
        /\ p \in Worker => r = p
        /\ \A d \in Client : d # p => got[d] # r
    BY <1>1, <1>12, GivenBack
  <2>3. pc'[r] = IF p \in Client THEN "wait" ELSE "join" BY <1>1, <1>3, <2>2 DEF User
  <2>4. /\ Range(actives') \subseteq Range(actives) /\ r \notin Range(actives')
        /\ \A w \in Range(actives) : w # r => w \in Range(actives')
    BY <1>12 DEF Turn
  <2>5. /\ last \in Range(spares) /\ last \notin Range(spares') /\ last # p /\ last # r
        /\ last # victim /\ last \notin Range(actives) /\ dying'[last] /\ pc'[last] = "wait"
    BY <1>1, <1>2, <1>3, <1>4, <2>1, <2>2
       DEF InOrder, ListsApart, SparesWait, Killed
  <2>6. \A w \in Range(actives') :
          w \in Worker /\ w \in Range(actives) /\ w # p /\ w # victim /\ w # last
    BY <2>1, <2>2, <2>4, <2>5, <1>1 DEF InOrder, Killed
  <2>7. \A w \in Range(spares') : w \in Range(spares) /\ w # p /\ w # victim /\ w # last
    BY <1>1, <1>2, <2>1, <2>2, <2>5 DEF InOrder, Killed
  <2>8. ListsApart'
    BY <1>2, <2>1, <2>4, <2>7 DEF InOrder, ListsApart, Turn
  <2>9. SparesWait' BY <1>1, <1>3, <1>4, <2>1, <2>7 DEF InOrder, SparesWait
  <2>10. ActivesWork' BY <1>1, <1>3, <1>4, <2>1, <2>6 DEF InOrder, ActivesWork
  <2>11. Killed' BY <1>1, <2>4, <2>5 DEF Killed
  <2>12. Moving'
    <3>1. r \notin Range(spares') BY <1>2, <2>2
    <3> QED BY <1>1, <1>4, <1>9, <2>2, <2>3, <2>4, <2>5, <3>1 DEF Moving
  <2>13. Handed'
    <3> SUFFICES ASSUME NEW c \in Client, got'[c] # Nobody
                 PROVE  /\ pc'[got'[c]] = "wait" /\ ~in_use'[got'[c]]
                        /\ pc'[c] # "join" => got'[c] \in Range(actives')
                        /\ \A d \in Client \ {c} : got'[d] # got'[c]
      BY DEF Handed
    <3>1. \A d \in Client \ {c} : got'[d] # got'[c]
      BY <1>1, <2>1 DEF InOrder, Handed
    <3>2. CASE c = p
      <4>1. got'[c] = r BY <1>1, <3>2 DEF Replacing
      <4> QED BY <1>1, <1>4, <2>2, <2>3, <2>5, <3>1, <3>2, <4>1
    <3>3. CASE c # p
      <4>1. got'[c] = got[c] /\ got[c] # r /\ pc[c] # "join" BY <1>1, <1>3, <2>2, <3>3
      <4>2. got[c] \in Range(actives) /\ pc[got[c]] = "wait" /\ ~in_use[got[c]]
        BY <1>1, <2>1, <4>1 DEF InOrder, Handed
      <4>3. got[c] \in Range(actives') BY <2>4, <4>1, <4>2
      <4> QED BY <1>3, <1>4, <2>6, <3>1, <4>1, <4>2, <4>3
    <3> QED BY <3>2, <3>3
  <2> QED BY <2>8, <2>9, <2>10, <2>11, <2>12, <2>13 DEF InOrder
<1> QED BY <1>1, <1>5, <1>6, <1>7, <1>10, <1>11, <1>12

\* The locked part of replace(), from the lock to the first join or the end.
LEMMA ReplaceLocked ==
  ASSUME PoolInv, NEW p \in User, replace_locked(p)
  PROVE  PoolInv'
<1> USE Kinds, Threads DEF PoolInv
<1>1. PICK r : r = Replacing(p) OBVIOUS
<1>2. r \in Worker /\ pc[p] = "lock" /\ mymutex = Nobody /\ victim = Nobody
  BY <1>1 DEF replace_locked, Mutex
<1>3. /\ actives' \in Seq(Worker) /\ Range(actives') = Range(actives) \ {r}
      /\ Distinct(actives) => Distinct(actives')
  <2>1. actives' = Keeping(actives, Worker \ {r}) /\ actives \in Seq(Worker)
    BY <1>1 DEF replace_locked, TypeOK
  <2>2. /\ actives' \in Seq(Worker) /\ Range(actives') = Range(actives) \cap (Worker \ {r})
        /\ Distinct(actives) => Distinct(actives')
    BY <2>1, KeepingElements, KeepingDistinct
  <2> QED BY <2>2
<1>4. /\ pc' = [pc EXCEPT ![p] = IF TooManySpares(spares) THEN "join" ELSE AfterReplace(p)]
      /\ UNCHANGED <<min_spares, max_threads, shutting_down, running>>
  BY DEF replace_locked, Goto
<1>5. Turn(p, r)
  <2>1. pc' = [q \in Proc |-> pc'[q]] BY <1>4 DEF TypeOK
  <2>2. \A q \in Proc : q # p => pc'[q] = IF q = victim THEN "none" ELSE pc[q]
    BY <1>2, <1>4, ProcAssumption DEF TypeOK, Proc
  <2> QED BY <1>1, <1>2, <1>3, <1>4, <2>1, <2>2 DEF Turn
<1>6. CASE TooManySpares(spares)
  <2>1. pc'[p] = "join" /\ Trim(p, spares) /\ Len(spares) > 0
    BY <1>4, <1>6 DEF TypeOK, replace_locked, TrimOrReturn, TooManySpares
  <2> QED BY <1>5, <2>1, Trimmed
<1>7. CASE ~TooManySpares(spares)
  <2>1. pc'[p] = AfterReplace(p) /\ Return(p, spares)
    BY <1>4, <1>7 DEF TypeOK, replace_locked, TrimOrReturn
  <2> QED BY <1>5, <2>1, Returned
<1> QED BY <1>6, <1>7

\* The thread that was told to die has been joined and is deleted.
LEMMA ReplaceJoined ==
  ASSUME PoolInv, NEW p \in User, replace_joined(p)
  PROVE  PoolInv'
<1> USE Kinds, Threads DEF PoolInv
<1>1. PICK r : r = Replacing(p) OBVIOUS
<1>2. /\ r \in Worker /\ pc[p] = "join" /\ mymutex = p
      /\ victim \in Worker /\ pc[victim] = "exited" /\ victim # p
  BY <1>1 DEF replace_joined, Mutex
<1>3. /\ pc' = [pc EXCEPT ![victim] = "none",
                          ![p] = IF TooManySpares(spares) THEN "join" ELSE AfterReplace(p)]
      /\ UNCHANGED <<actives, min_spares, max_threads, shutting_down, running>>
  BY DEF replace_joined
<1>4. Turn(p, r)
  <2>1. pc' = [q \in Proc |-> pc'[q]] BY <1>3 DEF TypeOK
  <2>2. \A q \in Proc : q # p => pc'[q] = IF q = victim THEN "none" ELSE pc[q]
    BY <1>2, <1>3 DEF TypeOK
  <2>3. ~shutting_down => r \notin Range(actives)
    BY <1>1, <1>2 DEF InOrder, Moving
  <2> QED BY <1>1, <1>2, <1>3, <2>1, <2>2, <2>3 DEF Turn, TypeOK
<1>5. CASE TooManySpares(spares)
  <2>1. pc'[p] = "join" /\ Trim(p, spares) /\ Len(spares) > 0
    BY <1>2, <1>3, <1>5 DEF TypeOK, replace_joined, TrimOrReturn, TooManySpares
  <2> QED BY <1>4, <2>1, Trimmed
<1>6. CASE ~TooManySpares(spares)
  <2>1. pc'[p] = AfterReplace(p) /\ Return(p, spares)
    BY <1>2, <1>3, <1>6 DEF TypeOK, replace_joined, TrimOrReturn
  <2> QED BY <1>4, <2>1, Returned
<1> QED BY <1>5, <1>6

\* What fill() does to the threads and the list of spares.
LEMMA Filled ==
  ASSUME PoolInv, mymutex = Nobody, NEW min \in MinChoices, NEW new \in Fill(min),
         Construct(Range(new)),
         \A w \in Worker : pc'[w] = IF w \in Range(new) THEN "wait" ELSE pc[w],
         NEW sp, sp = spares \o new
  PROVE  /\ victim = Nobody
         /\ \A q \in User : pc[q] # "join"
         /\ pc[Main] \notin {"next", "delete", "join"}
         /\ sp \in Seq(Worker) /\ new \in Seq(Worker) /\ Range(sp) = Range(spares) \cup Range(new)
         /\ \A w \in Range(new) : w \in Worker /\ pc[w] = "none"
         /\ in_use' \in [Worker -> BOOLEAN] /\ dying' \in [Worker -> BOOLEAN]
         /\ running' \in [Worker -> BOOLEAN]
         /\ \A w \in Worker : w \notin Range(new) =>
              in_use'[w] = in_use[w] /\ dying'[w] = dying[w] /\ running'[w] = running[w]
         /\ \A w \in Allocated' : w \in Range(sp) \/ w \in Range(actives)
         /\ ThreadLimit'
         /\ ~shutting_down =>
              /\ Distinct(sp)
              /\ \A w \in Range(sp) :
                   /\ w \in Worker /\ w \notin Range(actives)
                   /\ pc'[w] = "wait" /\ ~in_use'[w] /\ ~dying'[w] /\ running'[w]
              /\ \A w \in Range(actives) : w \in Worker /\ w \notin Range(new)
<1> USE Kinds, Threads DEF PoolInv
<1>1. /\ victim = Nobody /\ \A q \in User : pc[q] # "join"
      /\ pc[Main] \notin {"next", "delete", "join"}
  BY DEF Mutex
<1>2. /\ new \in Seq(Worker) /\ Distinct(new)
      /\ \A w \in Range(new) : w \in Worker /\ pc[w] = "none"
  BY FillNew DEF Unallocated
<1>3. /\ sp \in Seq(Worker) /\ Range(sp) = Range(spares) \cup Range(new)
      /\ Distinct(spares) /\ Range(spares) \cap Range(new) = {} => Distinct(sp)
  BY <1>2, ConcatElements DEF TypeOK
<1>4. /\ in_use' \in [Worker -> BOOLEAN] /\ dying' \in [Worker -> BOOLEAN]
      /\ running' \in [Worker -> BOOLEAN]
      /\ \A w \in Worker : w \notin Range(new) =>
           in_use'[w] = in_use[w] /\ dying'[w] = dying[w] /\ running'[w] = running[w]
      /\ \A w \in Worker : w \in Range(new) => ~in_use'[w] /\ ~dying'[w] /\ running'[w]
  BY DEF Construct, TypeOK
<1>5. Allocated' = Allocated \cup Range(new)
  BY <1>2 DEF Allocated, Unallocated
<1>6. \A w \in Allocated' : w \in Range(sp) \/ w \in Range(actives)
  <2>1. \A w \in Allocated : w \in Range(spares) \/ w \in Range(actives)
    BY <1>1 DEF Covered, Allocated
  <2> QED BY <1>3, <1>5, <2>1
<1>7. ThreadLimit' BY <1>5, FillLimit DEF ThreadLimit
<1>8. ASSUME ~shutting_down
      PROVE  /\ Distinct(sp)
             /\ \A w \in Range(sp) :
                  /\ w \in Worker /\ w \notin Range(actives)
                  /\ pc'[w] = "wait" /\ ~in_use'[w] /\ ~dying'[w] /\ running'[w]
             /\ \A w \in Range(actives) : w \in Worker /\ w \notin Range(new)
  <2>1. InOrder BY <1>8
  <2>2. \A w \in Range(spares) : w \notin Range(new) BY <1>2, <2>1 DEF InOrder, SparesWait
  <2>3. \A w \in Range(actives) : w \in Worker /\ w \notin Range(new)
    BY <1>2, <2>1 DEF InOrder, ActivesWork
  <2>4. Distinct(sp) BY <1>3, <2>1, <2>2 DEF InOrder, ListsApart
  <2>5. ASSUME NEW w \in Range(sp)
        PROVE  /\ w \in Worker /\ w \notin Range(actives)
               /\ pc'[w] = "wait" /\ ~in_use'[w] /\ ~dying'[w] /\ running'[w]
    <3>1. CASE w \in Range(new) BY <1>2, <1>4, <2>3, <3>1
    <3>2. CASE w \in Range(spares)
      BY <1>4, <2>1, <2>2, <3>2 DEF InOrder, SparesWait, ListsApart
    <3> QED BY <1>3, <3>1, <3>2
  <2> QED BY <2>3, <2>4, <2>5
<1> QED BY <1>1, <1>2, <1>3, <1>4, <1>6, <1>7, <1>8

\* set_min_spares() and its fill().
LEMMA MinSet ==
  ASSUME PoolInv, NEW m \in MinChoices, set_min_spares(m)
  PROVE  PoolInv'
<1> USE Kinds, Threads DEF PoolInv
<1>1. PICK new \in Fill(m) :
        spares' = spares \o new /\ Construct(Range(new)) /\ pc' = Started(Range(new), pc)
  BY DEF set_min_spares
<1>2. /\ mymutex = Nobody /\ min_spares' = m
      /\ UNCHANGED <<actives, max_threads, shutting_down, mymutex, got, victim>>
  BY DEF set_min_spares
<1>3. pc' = [p \in Proc |-> IF p \in Range(new) THEN "wait" ELSE pc[p]]
  BY <1>1 DEF Started
<1>4. \A w \in Worker : pc'[w] = IF w \in Range(new) THEN "wait" ELSE pc[w]
  BY <1>3
<1>5. PICK sp : sp = spares \o new OBVIOUS
<1>6. /\ victim = Nobody
      /\ \A q \in User : pc[q] # "join"
      /\ pc[Main] \notin {"next", "delete", "join"}
      /\ sp \in Seq(Worker) /\ Range(sp) = Range(spares) \cup Range(new)
      /\ \A w \in Range(new) : w \in Worker /\ pc[w] = "none"
      /\ in_use' \in [Worker -> BOOLEAN] /\ dying' \in [Worker -> BOOLEAN]
      /\ running' \in [Worker -> BOOLEAN]
      /\ \A w \in Worker : w \notin Range(new) =>
           in_use'[w] = in_use[w] /\ dying'[w] = dying[w] /\ running'[w] = running[w]
      /\ \A w \in Allocated' : w \in Range(sp) \/ w \in Range(actives)
      /\ ThreadLimit'
  BY <1>1, <1>2, <1>4, <1>5, Filled
<1>7. \A p \in Proc : p \notin Range(new) => pc'[p] = pc[p] BY <1>3
<1>8. (\A c \in Client : pc'[c] = pc[c]) /\ pc'[Main] = pc[Main] BY <1>6, <1>7
<1>9. TypeOK'
  <2>1. pc' \in [Proc -> {"none", "wait", "run", "clear", "ending", "exited",
                          "idle", "waiting", "remove", "got", "replace", "lock",
                          "join", "next", "delete", "down"}]
    BY <1>3 DEF TypeOK
  <2> QED BY <1>1, <1>2, <1>5, <1>6, <2>1 DEF TypeOK
<1>10. Places' BY <1>2, <1>4, <1>8 DEF Places, WorkerPlaces
<1>11. Mutex' BY <1>2, <1>4, <1>6, <1>8 DEF Mutex, User
<1>12. Covered' BY <1>1, <1>2, <1>5, <1>6 DEF Covered
<1>13. ASSUME ~shutting_down PROVE InOrder'
  <2>1. InOrder BY <1>13
  <2>2. /\ Distinct(sp)
        /\ \A w \in Range(sp) :
             /\ w \in Worker /\ w \notin Range(actives)
             /\ pc'[w] = "wait" /\ ~in_use'[w] /\ ~dying'[w] /\ running'[w]
        /\ \A w \in Range(actives) : w \in Worker /\ w \notin Range(new)
    BY <1>1, <1>2, <1>4, <1>5, <1>13, Filled
  <2>3. ListsApart' BY <1>1, <1>2, <1>5, <2>1, <2>2 DEF InOrder, ListsApart
  <2>4. SparesWait' BY <1>1, <1>5, <2>2 DEF SparesWait
  <2>5. ActivesWork' BY <1>2, <1>4, <1>6, <2>1, <2>2 DEF InOrder, ActivesWork
  <2>6. Killed' /\ Moving' BY <1>2, <1>6 DEF Killed, Moving
  <2>7. Handed' BY <1>2, <1>4, <1>6, <1>8, <2>1, <2>2 DEF InOrder, Handed
  <2> QED BY <2>3, <2>4, <2>5, <2>6, <2>7 DEF InOrder
<1> QED BY <1>2, <1>6, <1>9, <1>10, <1>11, <1>12, <1>13

\* remove(): the first of the spares is handed out.
LEMMA Removes ==
  ASSUME PoolInv, NEW c \in Client, remove(c)
  PROVE  PoolInv'
<1> USE Kinds, Threads DEF PoolInv
<1>1. /\ pc[c] = "remove" /\ mymutex = Nobody /\ min_spares \in MinChoices
      /\ UNCHANGED <<min_spares, max_threads, shutting_down, mymutex, victim>>
  BY DEF remove, TypeOK
<1>2. PICK new \in Fill(min_spares) :
        /\ Construct(Range(new))
        /\ IF spares \o new = << >>
           THEN /\ pc' = [Started(Range(new), pc) EXCEPT ![c] = "waiting"]
                /\ UNCHANGED <<spares, actives, got>>
           ELSE /\ pc' = [Started(Range(new), pc) EXCEPT ![c] = "got"]
                /\ spares' = Tail(spares \o new)
                /\ actives' = Append(actives, Head(spares \o new))
                /\ got' = [got EXCEPT ![c] = Head(spares \o new)]
  BY DEF remove
<1>3. PICK sp : sp = spares \o new OBVIOUS
<1>4. PICK l : l = IF sp = << >> THEN "waiting" ELSE "got" OBVIOUS
<1>5. pc' = [p \in Proc |-> IF p = c THEN l ELSE IF p \in Range(new) THEN "wait" ELSE pc[p]]
  BY <1>2, <1>3, <1>4 DEF Started
<1>6. \A w \in Worker : pc'[w] = IF w \in Range(new) THEN "wait" ELSE pc[w]
  BY <1>5
<1>7. /\ victim = Nobody
      /\ \A q \in User : pc[q] # "join"
      /\ pc[Main] \notin {"next", "delete", "join"}
      /\ sp \in Seq(Worker) /\ new \in Seq(Worker) /\ Range(sp) = Range(spares) \cup Range(new)
      /\ \A w \in Range(new) : w \in Worker /\ pc[w] = "none"
      /\ in_use' \in [Worker -> BOOLEAN] /\ dying' \in [Worker -> BOOLEAN]
      /\ running' \in [Worker -> BOOLEAN]
      /\ \A w \in Worker : w \notin Range(new) =>
           in_use'[w] = in_use[w] /\ dying'[w] = dying[w] /\ running'[w] = running[w]
      /\ \A w \in Allocated' : w \in Range(sp) \/ w \in Range(actives)
      /\ ThreadLimit'
  BY <1>1, <1>2, <1>3, <1>6, Filled
<1>8. pc'[c] = l /\ pc'[Main] = pc[Main] /\ \A d \in Client : d # c => pc'[d] = pc[d]
  BY <1>5, <1>7
<1>9. pc' \in [Proc -> {"none", "wait", "run", "clear", "ending", "exited",
                        "idle", "waiting", "remove", "got", "replace", "lock",
                        "join", "next", "delete", "down"}]
  BY <1>4, <1>5 DEF TypeOK
<1>10. \A q \in User : pc'[q] # "join" BY <1>4, <1>6, <1>7, <1>8 DEF User
<1>11. CASE sp = << >>
  <2>1. UNCHANGED <<spares, actives, got>> /\ l = "waiting" BY <1>2, <1>3, <1>4, <1>11
  <2>2. Range(sp) = {} BY <1>11 DEF Range
  <2>3. Range(new) = {} /\ Range(spares) = {} BY <1>7, <2>2
  <2>4. TypeOK' BY <1>1, <1>7, <1>9, <2>1 DEF TypeOK
  <2>5. Places' BY <1>1, <1>6, <1>8, <2>1, <2>3 DEF Places, ClientPlaces
  <2>6. Mutex' BY <1>1, <1>7, <1>8, <1>10 DEF Mutex, User
  <2>7. Covered' BY <1>1, <1>7, <2>1, <2>2 DEF Covered
  <2>8. ASSUME ~shutting_down PROVE InOrder'
    <3>1. InOrder BY <2>8
    <3>2. ListsApart' BY <2>1, <3>1 DEF InOrder, ListsApart
    <3>3. SparesWait' BY <2>1, <2>3 DEF SparesWait
    <3>4. ActivesWork' BY <1>6, <1>7, <2>1, <2>3, <3>1 DEF InOrder, ActivesWork
    <3>5. Killed' /\ Moving' BY <1>1, <1>7 DEF Killed, Moving
    <3>6. Handed' BY <1>6, <1>7, <1>8, <2>1, <2>3, <3>1 DEF InOrder, Handed
    <3> QED BY <3>2, <3>3, <3>4, <3>5, <3>6 DEF InOrder
  <2> QED BY <1>1, <1>7, <2>4, <2>5, <2>6, <2>7, <2>8
<1>12. CASE sp # << >>
  <2>1. PICK h : h = Head(sp) OBVIOUS
  <2>2. /\ spares' = Tail(sp) /\ actives' = Append(actives, h)
        /\ got' = [got EXCEPT ![c] = h] /\ l = "got"
    BY <1>2, <1>3, <1>4, <1>12, <2>1
  <2>3. /\ spares' \in Seq(Worker) /\ h \in Worker /\ Range(sp) = Range(spares') \cup {h}
        /\ Distinct(sp) => Distinct(spares') /\ h \notin Range(spares')
    BY <1>7, <1>12, <2>1, <2>2, TailElements
  <2>4. /\ actives' \in Seq(Worker) /\ Range(actives') = Range(actives) \cup {h}
        /\ Distinct(actives) /\ h \notin Range(actives) => Distinct(actives')
    BY <2>2, <2>3, AppendElements DEF TypeOK
  <2>5. /\ got' \in [Client -> Worker \cup {Nobody}] /\ got'[c] = h
        /\ \A d \in Client : d # c => got'[d] = got[d]
    BY <2>2, <2>3 DEF TypeOK
  <2>6. TypeOK' BY <1>1, <1>7, <1>9, <2>3, <2>4, <2>5 DEF TypeOK
  <2>7. Places' BY <1>1, <1>6, <1>8, <2>2, <2>3, <2>5 DEF Places, ClientPlaces, WorkerPlaces
  <2>8. Mutex' BY <1>1, <1>7, <1>8, <1>10 DEF Mutex, User
  <2>9. Covered' BY <1>1, <1>7, <2>3, <2>4 DEF Covered
  <2>10. ASSUME ~shutting_down PROVE InOrder'
    <3>1. InOrder BY <2>10
    <3>2. /\ Distinct(sp)
          /\ \A w \in Range(sp) :
               /\ w \in Worker /\ w \notin Range(actives)
               /\ pc'[w] = "wait" /\ ~in_use'[w] /\ ~dying'[w] /\ running'[w]
          /\ \A w \in Range(actives) : w \in Worker /\ w \notin Range(new)
      BY <1>1, <1>2, <1>3, <1>6, <2>10, Filled
    <3>3. ListsApart' BY <2>3, <2>4, <3>1, <3>2 DEF InOrder, ListsApart
    <3>4. SparesWait' BY <2>3, <3>2 DEF SparesWait
    <3>5. ActivesWork' BY <1>6, <1>7, <2>3, <2>4, <3>1, <3>2 DEF InOrder, ActivesWork
    <3>6. Killed' /\ Moving' BY <1>1, <1>7 DEF Killed, Moving
    <3>7. \A d \in Client : d # c /\ got[d] # Nobody =>
            got[d] \in Range(actives) /\ pc'[got[d]] = "wait" /\ ~in_use'[got[d]] /\ got[d] # h
      BY <1>6, <1>7, <2>3, <3>1, <3>2 DEF InOrder, Handed
    <3>8. Handed' BY <2>3, <2>4, <2>5, <3>1, <3>2, <3>7 DEF InOrder, Handed
    <3> QED BY <3>3, <3>4, <3>5, <3>6, <3>8 DEF InOrder
  <2> QED BY <1>1, <1>7, <2>6, <2>7, <2>8, <2>9, <2>10
<1> QED BY <1>11, <1>12

LEMMA MaxSet ==
  ASSUME PoolInv, NEW m \in MaxChoices, set_max_threads(m)
  PROVE  PoolInv'
<1> USE DEF PoolInv
<1>1. /\ max_threads' = m
      /\ UNCHANGED <<spares, actives, min_spares, shutting_down, mymutex,
                     in_use, dying, running, pc, got, victim>>
  BY DEF set_max_threads, workerVars
<1>2. TypeOK' BY <1>1 DEF TypeOK
<1>3. Places' /\ Mutex' BY <1>1 DEF Places, Mutex
<1>4. Allocated' = Allocated BY <1>1 DEF Allocated, Unallocated
<1>5. Covered' BY <1>1, <1>4 DEF Covered, Replacing
<1>6. ThreadLimit' BY <1>4, LimitKept
<1>7. InOrder => InOrder'
  BY <1>1 DEF InOrder, ListsApart, SparesWait, ActivesWork, Killed, Moving, Handed, Replacing
<1> QED BY <1>1, <1>2, <1>3, <1>5, <1>6, <1>7

\* The steps of shutdown() that leave the lists alone.
LEMMA ShutdownMoves ==
  ASSUME PoolInv,
         shutdown \/ shutdown_locked \/ shutdown_die \/ shutdown_delete \/ shutdown_returns
  PROVE  PoolInv'
<1> USE Kinds, Threads DEF PoolInv
<1>1. UNCHANGED <<spares, actives, min_spares, max_threads, got, victim>>
  BY DEF shutdown, shutdown_locked, shutdown_die, shutdown_delete, shutdown_returns, poolVars,
         workerVars
<1>2. actives \o spares # << >> => Doomed \in Worker
  BY HeadTailProperties, ConcatProperties DEF Doomed, TypeOK
<1>3. shutting_down' = TRUE
  BY DEF shutdown, shutdown_locked, shutdown_die, shutdown_delete, shutdown_returns, poolVars,
         Places, TypeOK
<1>4. PICK l \in {"lock", "next", "delete", "join", "down"} : pc' = [pc EXCEPT ![Main] = l]
  BY DEF shutdown, shutdown_locked, shutdown_die, shutdown_delete, shutdown_returns, Goto
<1>5. pc'[Main] = l /\ \A q \in Proc : q # Main => pc'[q] = pc[q] BY <1>4 DEF TypeOK
<1>6. actives \o spares # << >> <=> (actives # << >> \/ spares # << >>)
  BY DEF TypeOK
<1>7. /\ in_use' \in [Worker -> BOOLEAN] /\ dying' \in [Worker -> BOOLEAN]
      /\ running' \in [Worker -> BOOLEAN]
  BY <1>2, <1>6 DEF shutdown, shutdown_locked, shutdown_die, shutdown_delete, shutdown_returns,
                    workerVars, die, TypeOK, Mutex
<1>8. /\ mymutex' \in {Main, Nobody, mymutex}
      /\ mymutex' # mymutex => mymutex \in {Main, Nobody}
      /\ l \in {"next", "delete", "join"} <=> mymutex' = Main
      /\ l \in {"delete", "join"} => actives # << >> \/ spares # << >>
  <2>1. \A k : pc' = [pc EXCEPT ![Main] = k] => l = k BY <1>5 DEF TypeOK
  <2>2. CASE shutdown
    <3>1. pc[Main] = "idle" /\ l = "lock" /\ mymutex' = mymutex
      BY <2>1, <2>2 DEF shutdown, Goto
    <3> QED BY <3>1 DEF Mutex
  <2>3. CASE shutdown_locked
    <3>1. l = "next" /\ mymutex = Nobody /\ mymutex' = Main
      BY <2>1, <2>3 DEF shutdown_locked, Goto
    <3> QED BY <3>1
  <2>4. CASE shutdown_die
    <3>1. /\ pc[Main] = "next" /\ l = "delete" /\ mymutex' = mymutex
          /\ actives # << >> \/ spares # << >>
      BY <1>6, <2>1, <2>4 DEF shutdown_die, Goto, poolVars
    <3> QED BY <3>1 DEF Mutex
  <2>5. CASE shutdown_delete
    <3>1. pc[Main] = "delete" /\ l = "join" /\ mymutex' = mymutex
      BY <2>1, <2>5 DEF shutdown_delete, Goto, poolVars
    <3> QED BY <3>1 DEF Mutex
  <2>6. CASE shutdown_returns
    <3>1. pc[Main] = "next" /\ l = "down" /\ mymutex' = Nobody
      BY <2>1, <2>6 DEF shutdown_returns, Goto
    <3> QED BY <3>1 DEF Mutex
  <2> QED BY <2>2, <2>3, <2>4, <2>5, <2>6
<1>9. TypeOK' BY <1>1, <1>3, <1>4, <1>7, <1>8 DEF TypeOK, Proc
<1>10. Places' BY <1>1, <1>3, <1>5 DEF Places, MainPlaces
<1>11. Mutex' BY <1>1, <1>5, <1>8 DEF Mutex
<1>12. Allocated' = Allocated BY <1>5 DEF Allocated, Unallocated
<1>13. Covered' BY <1>1, <1>8, <1>12 DEF Covered, Replacing
<1>14. ThreadLimit' BY <1>12, LimitKept
<1> QED BY <1>3, <1>9, <1>10, <1>11, <1>13, <1>14

\* shutdown() has joined the first thread of the lists, which is deleted.
LEMMA ShutdownJoined ==
  ASSUME PoolInv, shutdown_joined
  PROVE  PoolInv'
<1> USE Kinds, Threads DEF PoolInv
<1>1. /\ pc[Main] = "join" /\ pc[Doomed] = "exited" /\ mymutex = Main /\ shutting_down
      /\ pc' = [pc EXCEPT ![Doomed] = "none", ![Main] = "next"]
      /\ UNCHANGED <<min_spares, max_threads, shutting_down, mymutex, in_use, dying, running,
                     got, victim>>
  BY DEF shutdown_joined, workerVars, Mutex, Places
<1>2. PICK d : d = Doomed OBVIOUS
<1>3. /\ spares' \in Seq(Worker) /\ actives' \in Seq(Worker) /\ d \in Worker
      /\ Range(spares) \cup Range(actives) = Range(spares') \cup Range(actives') \cup {d}
  <2>0. spares \in Seq(Worker) /\ actives \in Seq(Worker) BY DEF TypeOK
  <2>1. CASE actives # << >>
    <3>1. actives' = Tail(actives) /\ spares' = spares BY <2>1 DEF shutdown_joined
    <3>2. d = Head(actives) BY <1>2, <2>0, <2>1 DEF Doomed
    <3>3. actives' \in Seq(Worker) /\ d \in Worker /\ Range(actives) = Range(actives') \cup {d}
      BY <2>0, <2>1, <3>1, <3>2, TailElements
    <3> QED BY <2>0, <3>1, <3>3
  <2>2. CASE actives = << >>
    <3>1. spares' = Tail(spares) /\ actives' = actives /\ spares # << >>
      BY <1>1, <2>2 DEF shutdown_joined, Mutex
    <3>2. d = Head(spares) BY <1>2, <2>0, <2>2 DEF Doomed
    <3>3. spares' \in Seq(Worker) /\ d \in Worker /\ Range(spares) = Range(spares') \cup {d}
      BY <2>0, <3>1, <3>2, TailElements
    <3> QED BY <2>0, <3>1, <3>3
  <2> QED BY <2>1, <2>2
<1>4. /\ pc'[Main] = "next" /\ pc'[d] = "none"
      /\ \A q \in Proc : q # d /\ q # Main => pc'[q] = pc[q]
  BY <1>1, <1>2, <1>3 DEF TypeOK
<1>5. TypeOK' BY <1>1, <1>2, <1>3 DEF TypeOK
<1>6. Places' BY <1>1, <1>3, <1>4 DEF Places, MainPlaces, WorkerPlaces
<1>7. Mutex' BY <1>1, <1>2, <1>3, <1>4 DEF Mutex
<1>8. Allocated' \subseteq Allocated /\ \A w \in Allocated' : w # d
  BY <1>4 DEF Allocated, Unallocated
<1>9. Covered' BY <1>1, <1>3, <1>8 DEF Covered
<1>10. ThreadLimit' BY <1>8, LimitKept
<1> QED BY <1>1, <1>5, <1>6, <1>7, <1>9, <1>10

\* Every step of the pool keeps its invariant.
LEMMA PoolStep ==
  PoolInv /\ [Next]_vars => PoolInv'
<1> SUFFICES ASSUME PoolInv, [Next]_vars PROVE PoolInv' OBVIOUS
<1>1. CASE UNCHANGED vars
  <2>1. UNCHANGED <<spares, actives, min_spares, max_threads, shutting_down, mymutex,
                    in_use, dying, running, pc, got, victim>>
    BY <1>1 DEF vars, poolVars, workerVars
  <2>2. Allocated' = Allocated BY <2>1 DEF Allocated, Unallocated
  <2>3. InOrder' = InOrder
    BY <2>1 DEF InOrder, ListsApart, SparesWait, ActivesWork, Killed, Moving, Handed, Replacing
  <2>4. TypeOK' /\ Places' /\ Mutex' BY <2>1 DEF PoolInv, TypeOK, Places, Mutex
  <2>5. Covered' BY <2>1, <2>2 DEF PoolInv, Covered, Replacing
  <2>6. ThreadLimit' BY <2>2 DEF PoolInv, ThreadLimit
  <2> QED BY <2>1, <2>3, <2>4, <2>5, <2>6 DEF PoolInv
<1>2. CASE \E w \in Worker : WorkerStep(w) BY <1>2, WorkerSteps
<1>3. CASE \E p \in Worker \cup Client : ReplaceStep(p)
  BY <1>3, ReplaceBegins, ReplaceLocked, ReplaceJoined DEF ReplaceStep, User
<1>4. CASE \E c \in Client : ClientStep(c)
  BY <1>4, ClientMoves, Kicks, Removes DEF ClientStep
<1>5. CASE \E m \in MinChoices : set_min_spares(m) BY <1>5, MinSet
<1>6. CASE \E m \in MaxChoices : set_max_threads(m) BY <1>6, MaxSet
<1>7. CASE shutdown \/ ShutdownStep
  BY <1>7, ShutdownMoves, ShutdownJoined DEF ShutdownStep
<1> QED BY <1>1, <1>2, <1>3, <1>4, <1>5, <1>6, <1>7 DEF Next

\* The invariant holds in every state of the pool.
THEOREM PoolInvariant ==
  Spec => []PoolInv
  BY InitPool, PoolStep, PTL DEF Spec

-----------------------------------------------------------------------------
(* What it says *)

LEMMA CountDistinct ==
  ASSUME NEW s \in Seq(Worker), Distinct(s), NEW w
  PROVE  Count(w, s) = IF w \in Range(s) THEN 1 ELSE 0
<1> DEFINE at == {i \in DOMAIN s : s[i] = w}
<1>1. CASE w \in Range(s)
  <2>1. PICK i \in DOMAIN s : s[i] = w BY <1>1 DEF Range
  <2>2. at = {i} BY <2>1 DEF Distinct
  <2>3. Cardinality({i}) = 1 BY FS_Singleton
  <2> QED BY <1>1, <2>2, <2>3 DEF Count
<1>2. CASE w \notin Range(s)
  <2>1. at = {} BY <1>2 DEF Range
  <2> QED BY <1>2, <2>1, FS_EmptySet DEF Count
<1> QED BY <1>1, <1>2

LEMMA InTransitMutex ==
  ASSUME PoolInv, NEW w
  PROVE  InTransit(w) <=> mymutex \in User /\ Replacing(mymutex) = w
  BY DEF PoolInv, InTransit, Mutex, User

LEMMA PlacesOnce ==
  PoolInv => PlacedOnce
<1> SUFFICES ASSUME PoolInv, ~shutting_down, NEW w \in Worker
             PROVE  Count(w, spares) + Count(w, actives)
                      + (IF w = victim THEN 1 ELSE 0) + (IF InTransit(w) THEN 1 ELSE 0)
                    = (IF w \in Allocated THEN 1 ELSE 0)
  BY DEF PlacedOnce
<1> USE Kinds, Threads DEF PoolInv
<1>1. InOrder OBVIOUS
<1>2. /\ Count(w, spares) = IF w \in Range(spares) THEN 1 ELSE 0
      /\ Count(w, actives) = IF w \in Range(actives) THEN 1 ELSE 0
  BY <1>1, CountDistinct DEF InOrder, ListsApart, TypeOK
<1>3. InTransit(w) <=> mymutex \in User /\ Replacing(mymutex) = w BY InTransitMutex
<1> DEFINE S == w \in Range(spares)
           A == w \in Range(actives)
           V == w = victim
           T == mymutex \in User /\ Replacing(mymutex) = w
<1>4. ~(S /\ A) /\ ~(S /\ V) /\ ~(S /\ T) /\ ~(A /\ V) /\ ~(A /\ T) /\ ~(V /\ T)
  BY <1>1 DEF InOrder, ListsApart, Killed, Moving
<1>5. w \in Allocated <=> S \/ A \/ V \/ T
  <2>1. w \in Allocated => S \/ A \/ V \/ T BY DEF Covered
  <2>2. S \/ A \/ V \/ T => pc[w] # "none"
    BY <1>1 DEF InOrder, SparesWait, ActivesWork, Killed, Moving
  <2> QED BY <2>1, <2>2 DEF Allocated, Unallocated
<1> HIDE DEF S, A, V, T
<1>6. /\ Count(w, spares) = IF S THEN 1 ELSE 0
      /\ Count(w, actives) = IF A THEN 1 ELSE 0
      /\ (IF w = victim THEN 1 ELSE 0) = IF V THEN 1 ELSE 0
      /\ (IF InTransit(w) THEN 1 ELSE 0) = IF T THEN 1 ELSE 0
      /\ (IF w \in Allocated THEN 1 ELSE 0) = IF S \/ A \/ V \/ T THEN 1 ELSE 0
  BY <1>2, <1>3, <1>5 DEF S, A, V, T
<1>7. (IF S THEN 1 ELSE 0) + (IF A THEN 1 ELSE 0) + (IF V THEN 1 ELSE 0) + (IF T THEN 1 ELSE 0)
      = IF S \/ A \/ V \/ T THEN 1 ELSE 0
  <2>1. CASE S BY <1>4, <2>1
  <2>2. CASE A BY <1>4, <2>2
  <2>3. CASE V BY <1>4, <2>3
  <2>4. CASE T BY <1>4, <2>4
  <2>5. CASE ~S /\ ~A /\ ~V /\ ~T BY <2>5
  <2> QED BY <2>1, <2>2, <2>3, <2>4, <2>5
<1> QED BY <1>6, <1>7

LEMMA HandsOutIdle ==
  PoolInv => HandedOutIdle
<1> SUFFICES ASSUME PoolInv, ~shutting_down, NEW c \in Client, got[c] # Nobody
             PROVE  /\ pc[got[c]] = "wait" /\ ~in_use[got[c]] /\ ~dying[got[c]]
                    /\ got[c] \in Range(actives) \/ pc[c] = "join"
                    /\ \A d \in Client \ {c} : got[d] # got[c]
  BY DEF HandedOutIdle
<1> USE Kinds DEF PoolInv
<1>1. InOrder OBVIOUS
<1>2. pc[c] = "join" => ~dying[got[c]]
  BY <1>1 DEF InOrder, Moving, Mutex, Replacing
<1> QED BY <1>1, <1>2 DEF InOrder, Handed, ActivesWork

LEMMA KillsSpares ==
  PoolInv => OnlySparesKilled
<1> SUFFICES ASSUME PoolInv, ~shutting_down, NEW w \in Worker, dying[w], w \in Allocated
             PROVE  /\ pc[w] \in {"wait", "ending", "exited"}
                    /\ w \notin Range(spares) \cup Range(actives)
  BY DEF OnlySparesKilled
<1> USE Kinds, Threads DEF PoolInv
<1>1. InOrder OBVIOUS
<1>2. w = victim BY <1>1 DEF Covered, InOrder, SparesWait, ActivesWork, Moving
<1> QED BY <1>1, <1>2 DEF InOrder, Killed

\* Every value that the pool's variables take is of its type.
THEOREM TypeCorrect ==
  Spec => []TypeOK
<1>1. PoolInv => TypeOK BY DEF PoolInv
<1> QED BY <1>1, PoolInvariant, PTL

\* Whatever the order in which clients, workers and the setters take the mutex,
\* replace() and remove() lose no thread and list none twice until a shutdown.
THEOREM NoneLost ==
  Spec => []PlacedOnce
  BY PlacesOnce, PoolInvariant, PTL

\* The thread that wait() returns is nobody else's and waits for its kick():
\* in_use.clear() before replace() is early enough, for any number of clients.
THEOREM GivenIdle ==
  Spec => []HandedOutIdle
  BY HandsOutIdle, PoolInvariant, PTL

\* replace() tells only surplus spares to die, never a thread that works.
THEOREM SparesDie ==
  Spec => []OnlySparesKilled
  BY KillsSpares, PoolInvariant, PTL

\* fill() never takes the pool beyond the largest limit set, though it counts
\* only the two lists and a shutdown may be under way.
THEOREM WithinLimit ==
  Spec => []ThreadLimit
<1>1. PoolInv => ThreadLimit BY DEF PoolInv
<1> QED BY <1>1, PoolInvariant, PTL

-----------------------------------------------------------------------------
\* A replace() that returns has trimmed the spares to the wanted number.  With
\* min_spares = 0 it does not: min_spares-1 wraps, and nothing is ever trimmed.
THEOREM Trims ==
  ASSUME 0 \notin MinChoices
  PROVE  Spec => SparesTrimmed
<1> DEFINE A == \A p \in Worker \cup Client :
                  pc[p] \in {"lock", "join"} /\ pc'[p] \in {"wait", "idle"}
                    => Len(spares') <= WantedSpares(min_spares)
<1>1. PoolInv /\ [Next]_vars => [A]_vars
  <2> SUFFICES ASSUME PoolInv, Next, NEW p \in User,
                      pc[p] \in {"lock", "join"}, pc'[p] \in {"wait", "idle"}
               PROVE  Len(spares') <= WantedSpares(min_spares)
    BY DEF User
  <2> USE Kinds, Threads DEF PoolInv
  <2>1. replace_locked(p) \/ replace_joined(p)
    <3>1. CASE \E w \in Worker : WorkerStep(w)
      BY <3>1 DEF WorkerStep, woken, run_returns, clear, ends, Goto, TypeOK
    <3>2. CASE \E q \in Worker \cup Client : ReplaceStep(q)
      <4>1. PICK q \in User : ReplaceStep(q) BY <3>2 DEF User
      <4>2. CASE replace(q) BY <4>2 DEF replace, Goto, TypeOK
      <4>3. CASE replace_locked(q)
        BY <4>3 DEF replace_locked, Goto, TypeOK
      <4>4. CASE replace_joined(q)
        <5>1. q = p \/ p = victim BY <4>4 DEF replace_joined, TypeOK
        <5> QED BY <4>4, <5>1 DEF replace_joined
      <4> QED BY <4>1, <4>2, <4>3, <4>4 DEF ReplaceStep
    <3>3. CASE \E c \in Client : ClientStep(c)
      <4>1. PICK c \in Client : ClientStep(c) BY <3>3
      <4>2. CASE wait(c) \/ kick(c) \/ refuse(c)
        BY <4>2 DEF wait, kick, refuse, Goto, TypeOK
      <4>3. CASE remove(c)
        <5>1. PICK new \in Fill(min_spares) :
                \E l : pc' = [Started(Range(new), pc) EXCEPT ![c] = l]
          BY <4>3 DEF remove
        <5>2. \A w \in Range(new) : w \in Worker /\ pc[w] = "none"
          BY FillNew DEF Unallocated, TypeOK
        <5>3. p # c BY <4>3 DEF remove
        <5> QED BY <5>1, <5>2, <5>3 DEF Started
      <4> QED BY <4>1, <4>2, <4>3 DEF ClientStep
    <3>4. CASE \E m \in MinChoices : set_min_spares(m)
      <4>1. PICK m \in MinChoices : set_min_spares(m) BY <3>4
      <4>2. PICK new \in Fill(m) : pc' = Started(Range(new), pc) BY <4>1 DEF set_min_spares
      <4>3. \A w \in Range(new) : w \in Worker /\ pc[w] = "none"
        BY FillNew DEF Unallocated
      <4> QED BY <4>2, <4>3 DEF Started
    <3>5. CASE \E m \in MaxChoices : set_max_threads(m)
      BY <3>5 DEF set_max_threads
    <3>6. CASE shutdown \/ ShutdownStep
      BY <3>6 DEF shutdown, ShutdownStep, shutdown_locked, shutdown_die, shutdown_delete,
                  shutdown_joined, shutdown_returns, Goto, TypeOK
    <3> QED BY <3>1, <3>2, <3>3, <3>4, <3>5, <3>6 DEF Next
  <2>2. ~TooManySpares(spares)
    <3>1. TooManySpares(spares) => pc'[p] = "join"
      BY <2>1 DEF replace_locked, replace_joined, Goto, TypeOK
    <3> QED BY <3>1
  <2>3. Len(spares') = Len(spares) + 1
    <3>1. spares' = Append(spares, Replacing(p))
      BY <2>1, <2>2 DEF replace_locked, replace_joined, TrimOrReturn, Return
    <3> QED BY <3>1, AppendElements DEF TypeOK
  <2>4. min_spares \in 1..(UIntSize - 1) /\ UIntSize \in Nat
    BY SizeAssumption DEF TypeOK
  <2>5. (min_spares - 1) % UIntSize = min_spares - 1
    BY <2>4
  <2>6. Len(spares) \in Nat BY DEF TypeOK
  <2>7. Len(spares) = 0 \/ Len(spares) <= min_spares - 1
    BY <2>2, <2>4, <2>5, <2>6 DEF TooManySpares
  <2> QED BY <2>3, <2>4, <2>6, <2>7 DEF WantedSpares
<1> QED BY <1>1, PoolInvariant, PTL DEF Spec, SparesTrimmed
=============================================================================
