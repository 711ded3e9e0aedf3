---------------------------- MODULE RWMutexProofs ---------------------------
(***************************************************************************)
(* Proofs about RWMutex, for any number of threads and any nesting:        *)
(* mutual exclusion, the exactness of the counters, that a holder never    *)
(* blocks, and that the mutex implements the abstract lock RWLock.         *)
(*                                                                         *)
(* The argument.  A first reader stays out while writers_waiting > 0, and  *)
(* a writer that has passed the readers' gate is still counted there; so   *)
(* readers_active stays 0 from the moment a writer passes the gate to the  *)
(* moment it unlocks (GateHolds).  That turns into exclusion between       *)
(* threads because the three counters are exact (CountsExact), and they    *)
(* are because a thread's scopes are either all counted reads or all       *)
(* inside a write (StackShape, OwnerHolds).                                *)
(***************************************************************************)
EXTENDS RWMutex, FiniteSetTheorems, SequenceTheorems, TLAPS

\* A write is never inside a read, and nesting is bounded.
StackShape ==
  \A t \in Thread :
    /\ Len(held[t]) <= MaxDepth
    /\ HoldsRead(t) => \A i \in 1..Len(held[t]) : held[t][i] = "R"

\* writer_active and writer say who is inside a write.
OwnerHolds == \A t \in Thread : HoldsWrite(t) <=> Own(t)

\* No read is counted while a writer is active or has passed the first gate.
GateHolds ==
  /\ writer_active => readers_active = 0
  /\ \A t \in Thread : pc[t] = "wturn" => readers_active = 0

WriteScopes(s) == {i \in 1..Len(s) : s[i] = "W"}

\* count, as the proof uses it.
CountHolds ==
  writer_active => writer \in Thread /\ count = Cardinality(WriteScopes(held[writer]))

IInv ==
  /\ TypeOK
  /\ HoldersNeverBlock
  /\ StackShape
  /\ OwnerHolds
  /\ GateHolds
  /\ CountHolds
  /\ readers_active = Cardinality(SharedHolds)
  /\ writers_waiting = Cardinality(Queued)

-----------------------------------------------------------------------------
(* Stacks of scopes *)

LEMMA Pushed ==
  ASSUME NEW s \in Seq(Mode), NEW m \in Mode
  PROVE  /\ Append(s, m) \in Seq(Mode)
         /\ Append(s, m) # << >>
         /\ Len(Append(s, m)) = Len(s) + 1
         /\ \A i \in 1..Len(s) : Append(s, m)[i] = s[i]
         /\ Append(s, m)[Len(s) + 1] = m
  BY AppendProperties

LEMMA Popped ==
  ASSUME NEW s \in Seq(Mode), s # << >>
  PROVE  /\ SubSeq(s, 1, Len(s) - 1) \in Seq(Mode)
         /\ Len(s) \in Nat \ {0}
         /\ Len(SubSeq(s, 1, Len(s) - 1)) = Len(s) - 1
         /\ \A i \in 1..(Len(s) - 1) : SubSeq(s, 1, Len(s) - 1)[i] = s[i]
         /\ SubSeq(s, 1, Len(s) - 1) = << >> <=> Len(s) = 1
  <1>1. Len(s) \in Nat \ {0}
    BY EmptySeq, LenProperties
  <1>2. /\ SubSeq(s, 1, Len(s) - 1) \in Seq(Mode)
        /\ Len(SubSeq(s, 1, Len(s) - 1)) = Len(s) - 1
        /\ \A i \in 1..(Len(s) - 1) : SubSeq(s, 1, Len(s) - 1)[i] = s[i]
    BY <1>1
  <1>3. SubSeq(s, 1, Len(s) - 1) = << >> <=> Len(s) = 1
    <2> DEFINE f == SubSeq(s, 1, Len(s) - 1)
    <2> HIDE DEF f
    <2>1. f \in Seq(Mode) /\ Len(f) = Len(s) - 1
      BY <1>2 DEF f
    <2>2. f = << >> <=> Len(f) = 0
      BY <2>1, EmptySeq
    <2>3. f = << >> <=> Len(s) = 1
      BY <1>1, <2>1, <2>2
    <2> QED BY <2>3 DEF f
  <1> QED BY <1>1, <1>2, <1>3

\* How the write scopes of a stack change.
LEMMA WriteScopesFinite ==
  ASSUME NEW s \in Seq(Mode)
  PROVE  IsFiniteSet(WriteScopes(s)) /\ Cardinality(WriteScopes(s)) \in Nat
  <1>1. Len(s) \in Nat
    BY LenProperties
  <1>2. IsFiniteSet(1..Len(s))
    BY <1>1, FS_Interval
  <1>3. WriteScopes(s) \in SUBSET (1..Len(s))
    BY DEF WriteScopes
  <1> QED BY <1>2, <1>3, FS_Subset, FS_CardinalityType

LEMMA WriteScopesPushed ==
  ASSUME NEW s \in Seq(Mode), NEW m \in Mode
  PROVE  Cardinality(WriteScopes(Append(s, m))) =
           Cardinality(WriteScopes(s)) + (IF m = "W" THEN 1 ELSE 0)
  <1>1. Len(s) \in Nat
    BY LenProperties
  <1>2. CASE m = "W"
    <2>1. WriteScopes(Append(s, m)) = WriteScopes(s) \cup {Len(s) + 1}
      BY <1>1, <1>2, Pushed DEF WriteScopes
    <2>2. Len(s) + 1 \notin WriteScopes(s)
      BY <1>1 DEF WriteScopes
    <2> QED BY <1>2, <2>1, <2>2, FS_AddElement, WriteScopesFinite
  <1>3. CASE m # "W"
    <2>1. WriteScopes(Append(s, m)) = WriteScopes(s)
      BY <1>1, <1>3, Pushed DEF WriteScopes
    <2> QED BY <1>3, <2>1, WriteScopesFinite
  <1> QED BY <1>2, <1>3

LEMMA WriteScopesPopped ==
  ASSUME NEW s \in Seq(Mode), s # << >>
  PROVE  Cardinality(WriteScopes(SubSeq(s, 1, Len(s) - 1))) =
           Cardinality(WriteScopes(s)) - (IF s[Len(s)] = "W" THEN 1 ELSE 0)
  <1> DEFINE f == SubSeq(s, 1, Len(s) - 1)
  <1>1. /\ Len(s) \in Nat \ {0} /\ Len(f) = Len(s) - 1
        /\ \A i \in 1..(Len(s) - 1) : f[i] = s[i]
    BY Popped
  <1> HIDE DEF f
  <1>2. CASE s[Len(s)] = "W"
    <2>1. WriteScopes(f) = WriteScopes(s) \ {Len(s)}
      BY <1>1, <1>2 DEF WriteScopes
    <2>2. Len(s) \in WriteScopes(s)
      BY <1>1, <1>2 DEF WriteScopes
    <2>3. Cardinality(WriteScopes(f)) = Cardinality(WriteScopes(s)) - 1
      BY <2>1, <2>2, FS_RemoveElement, WriteScopesFinite
    <2> QED BY <1>2, <2>3 DEF f
  <1>3. CASE s[Len(s)] # "W"
    <2>1. WriteScopes(f) = WriteScopes(s)
      BY <1>1, <1>3 DEF WriteScopes
    <2> QED BY <1>3, <2>1, WriteScopesFinite DEF f
  <1> QED BY <1>2, <1>3

-----------------------------------------------------------------------------
(* What entering and leaving a scope do to the holds *)

LEMMA EnterEffect ==
  ASSUME TypeOK, NEW t \in Thread, NEW m \in Mode, Enter(t, m)
  PROVE  /\ held' \in [Thread -> Seq(Mode)]
         /\ \A u \in Thread \ {t} : held'[u] = held[u]
         /\ held'[t] = Append(held[t], m)
         /\ held'[t] # << >>
         /\ Len(held[t]) \in Nat
         /\ Len(held'[t]) = Len(held[t]) + 1
         /\ \A i \in 1..Len(held[t]) : held'[t][i] = held[t][i]
         /\ held'[t][Len(held[t]) + 1] = m
  <1>1. held \in [Thread -> Seq(Mode)] /\ held[t] \in Seq(Mode)
    BY DEF TypeOK
  <1>2. held'[t] = Append(held[t], m) /\ \A u \in Thread \ {t} : held'[u] = held[u]
    BY <1>1 DEF Enter
  <1>3. held' \in [Thread -> Seq(Mode)]
    BY <1>1, Pushed DEF Enter
  <1> QED BY <1>1, <1>2, <1>3, Pushed, LenProperties

LEMMA LeaveEffect ==
  ASSUME TypeOK, NEW t \in Thread, held[t] # << >>, Leave(t)
  PROVE  /\ held' \in [Thread -> Seq(Mode)]
         /\ \A u \in Thread \ {t} : held'[u] = held[u]
         /\ held'[t] = SubSeq(held[t], 1, Len(held[t]) - 1)
         /\ Len(held[t]) \in Nat \ {0}
         /\ Len(held'[t]) = Len(held[t]) - 1
         /\ \A i \in 1..(Len(held[t]) - 1) : held'[t][i] = held[t][i]
         /\ held'[t] = << >> <=> Len(held[t]) = 1
  <1>1. held \in [Thread -> Seq(Mode)] /\ held[t] \in Seq(Mode)
    BY DEF TypeOK
  <1>2. /\ held'[t] = SubSeq(held[t], 1, Len(held[t]) - 1)
        /\ \A u \in Thread \ {t} : held'[u] = held[u]
    BY <1>1 DEF Leave
  <1>3. held' \in [Thread -> Seq(Mode)]
    BY <1>1, Popped DEF Leave
  <1> QED BY <1>1, <1>2, <1>3, Popped

LEMMA SharedFinite == IsFiniteSet(SharedHolds) /\ Cardinality(SharedHolds) \in Nat
  <1>1. IsFiniteSet(1..MaxDepth)
    BY MaxDepthAssumption, FS_Interval
  <1>2. IsFiniteSet(Thread \X (1..MaxDepth))
    BY <1>1, ThreadAssumption, FS_Product
  <1>3. SharedHolds \in SUBSET (Thread \X (1..MaxDepth))
    BY DEF SharedHolds
  <1> QED BY <1>2, <1>3, FS_Subset, FS_CardinalityType

LEMMA SharedSame ==
  ASSUME \A u \in Thread : /\ HoldsRead(u)' <=> HoldsRead(u)
                           /\ HoldsRead(u) => Len(held'[u]) = Len(held[u])
  PROVE  SharedHolds' = SharedHolds
  BY DEF SharedHolds

\* A counted read adds one hold: the reader holds nothing, or reads only.
LEMMA SharedEnter ==
  ASSUME IInv, NEW t \in Thread, ~Own(t), Len(held[t]) < MaxDepth, Enter(t, "R")
  PROVE  Cardinality(SharedHolds') = Cardinality(SharedHolds) + 1
  <1>1. TypeOK /\ ~HoldsWrite(t)
    BY DEF IInv, OwnerHolds
  <1>2. /\ \A u \in Thread \ {t} : held'[u] = held[u]
        /\ held'[t] # << >>
        /\ Len(held[t]) \in Nat
        /\ Len(held'[t]) = Len(held[t]) + 1
        /\ \A i \in 1..Len(held[t]) : held'[t][i] = held[t][i]
        /\ held'[t][Len(held[t]) + 1] = "R"
    BY <1>1, EnterEffect DEF Mode
  <1>3. held[t] \in Seq(Mode)
    BY <1>1 DEF TypeOK
  <1>4. held[t] = << >> \/ (held[t] # << >> /\ held[t][1] = "R" /\ Len(held[t]) > 0)
    <2>1. CASE held[t] # << >>
      <3>1. Len(held[t]) \in Nat \ {0}
        BY <1>3, <2>1, EmptySeq
      <3>2. held[t][1] \in Mode
        BY <1>3, <3>1, ElementOfSeq
      <3> QED BY <1>1, <2>1, <3>1, <3>2 DEF HoldsWrite, Mode
    <2> QED BY <2>1
  <1>5. HoldsRead(t)'
    <2>1. CASE held[t] = << >>
      <3>1. Len(held[t]) = 0
        BY <2>1, EmptySeq
      <3> QED BY <1>2, <3>1 DEF HoldsRead
    <2>2. CASE held[t] # << >>
      BY <1>2, <1>4, <2>2 DEF HoldsRead
    <2> QED BY <2>1, <2>2
  <1>6. \A i \in 1..MaxDepth : <<t, i>> \in SharedHolds <=> i <= Len(held[t])
    <2>1. CASE held[t] = << >>
      <3>1. Len(held[t]) = 0
        BY <2>1, EmptySeq
      <3> QED BY <2>1, <3>1, MaxDepthAssumption DEF SharedHolds, HoldsRead
    <2>2. CASE held[t] # << >>
      BY <1>4, <2>2 DEF SharedHolds, HoldsRead
    <2> QED BY <2>1, <2>2
  <1>7. \A i \in 1..MaxDepth : <<t, i>> \in SharedHolds' <=> i <= Len(held[t]) + 1
    BY <1>2, <1>5 DEF SharedHolds
  <1>8. \A u \in Thread \ {t}, i \in 1..MaxDepth :
          <<u, i>> \in SharedHolds' <=> <<u, i>> \in SharedHolds
    BY <1>2 DEF SharedHolds, HoldsRead
  <1>9. SharedHolds' = SharedHolds \cup {<<t, Len(held[t]) + 1>>}
    <2>1. Len(held[t]) + 1 \in 1..MaxDepth
      BY <1>2, MaxDepthAssumption
    <2>2. SharedHolds \subseteq Thread \X (1..MaxDepth)
      BY DEF SharedHolds
    <2>3. SharedHolds' \subseteq Thread \X (1..MaxDepth)
      BY DEF SharedHolds
    <2>4. ASSUME NEW u \in Thread, NEW i \in 1..MaxDepth
          PROVE  <<u, i>> \in SharedHolds' <=>
                   <<u, i>> \in SharedHolds \cup {<<t, Len(held[t]) + 1>>}
      BY <1>2, <1>6, <1>7, <1>8, <2>1, MaxDepthAssumption
    <2> QED BY <2>1, <2>2, <2>3, <2>4
  <1>10. <<t, Len(held[t]) + 1>> \notin SharedHolds
    BY <1>2, <1>6, MaxDepthAssumption
  <1> QED BY <1>9, <1>10, FS_AddElement, SharedFinite

\* Leaving a counted read takes one hold away.
LEMMA SharedLeave ==
  ASSUME IInv, NEW t \in Thread, ~Own(t), MayUnlock(t, "R"), Leave(t)
  PROVE  /\ Cardinality(SharedHolds') = Cardinality(SharedHolds) - 1
         /\ HoldsRead(t)
         /\ held'[t] # << >> => HoldsRead(t)'
  <1>1. TypeOK /\ ~HoldsWrite(t) /\ held[t] # << >> /\ Len(held[t]) <= MaxDepth
    BY DEF IInv, OwnerHolds, MayUnlock, StackShape
  <1>2. /\ \A u \in Thread \ {t} : held'[u] = held[u]
        /\ Len(held[t]) \in Nat \ {0}
        /\ Len(held'[t]) = Len(held[t]) - 1
        /\ \A i \in 1..(Len(held[t]) - 1) : held'[t][i] = held[t][i]
        /\ held'[t] = << >> <=> Len(held[t]) = 1
    BY <1>1, LeaveEffect
  <1>3. HoldsRead(t)
    <2>1. held[t][1] \in Mode
      BY <1>1, <1>2, ElementOfSeq DEF TypeOK
    <2> QED BY <1>1, <2>1 DEF HoldsRead, HoldsWrite, Mode
  <1>4. held'[t] # << >> => HoldsRead(t)'
    BY <1>2, <1>3 DEF HoldsRead
  <1>5. \A i \in 1..MaxDepth : <<t, i>> \in SharedHolds <=> i <= Len(held[t])
    BY <1>3 DEF SharedHolds
  <1>6. \A i \in 1..MaxDepth : <<t, i>> \in SharedHolds' <=> i <= Len(held[t]) - 1
    BY <1>2, <1>4, MaxDepthAssumption DEF SharedHolds, HoldsRead
  <1>7. \A u \in Thread \ {t}, i \in 1..MaxDepth :
          <<u, i>> \in SharedHolds' <=> <<u, i>> \in SharedHolds
    BY <1>2 DEF SharedHolds, HoldsRead
  <1>8. SharedHolds' = SharedHolds \ {<<t, Len(held[t])>>}
    <2>1. SharedHolds \subseteq Thread \X (1..MaxDepth)
      BY DEF SharedHolds
    <2>2. SharedHolds' \subseteq Thread \X (1..MaxDepth)
      BY DEF SharedHolds
    <2>3. ASSUME NEW u \in Thread, NEW i \in 1..MaxDepth
          PROVE  <<u, i>> \in SharedHolds' <=>
                   <<u, i>> \in SharedHolds \ {<<t, Len(held[t])>>}
      BY <1>2, <1>5, <1>6, <1>7, MaxDepthAssumption
    <2> QED BY <2>1, <2>2, <2>3
  <1>9. <<t, Len(held[t])>> \in SharedHolds
    BY <1>1, <1>2, <1>5, MaxDepthAssumption
  <1> QED BY <1>3, <1>4, <1>8, <1>9, FS_RemoveElement, SharedFinite

-----------------------------------------------------------------------------
(* What going to another location does to the queue of writers *)

LEMMA QueuedFinite == IsFiniteSet(Queued) /\ Cardinality(Queued) \in Nat
  <1>1. Queued \in SUBSET Thread
    BY DEF Queued
  <1> QED BY <1>1, ThreadAssumption, FS_Subset, FS_CardinalityType

LEMMA QueuedChange ==
  ASSUME TypeOK, NEW t \in Thread, NEW l \in Location, Goto(t, l)
  PROVE  Cardinality(Queued') =
           Cardinality(Queued)
             + (IF l \in {"wgate", "wturn"} THEN 1 ELSE 0)
             - (IF t \in Queued THEN 1 ELSE 0)
  <1>1. /\ pc \in [Thread -> Location]
        /\ pc' = [pc EXCEPT ![t] = l]
    BY DEF TypeOK, Goto
  <1>2. CASE l \in {"wgate", "wturn"}
    <2>1. Queued' = Queued \cup {t}
      BY <1>1, <1>2 DEF Queued
    <2>2. Cardinality(Queued') =
            IF t \in Queued THEN Cardinality(Queued) ELSE Cardinality(Queued) + 1
      BY <2>1, FS_AddElement, QueuedFinite
    <2> QED BY <1>2, <2>2, QueuedFinite
  <1>3. CASE l \notin {"wgate", "wturn"}
    <2>1. Queued' = Queued \ {t}
      BY <1>1, <1>3 DEF Queued
    <2>2. Cardinality(Queued') =
            IF t \in Queued THEN Cardinality(Queued) - 1 ELSE Cardinality(Queued)
      BY <2>1, FS_RemoveElement, QueuedFinite
    <2> QED BY <1>3, <2>2, QueuedFinite
  <1> QED BY <1>2, <1>3

\* A queued writer is counted, so a first reader has to wait for it.
LEMMA QueuedCounted ==
  ASSUME IInv, NEW t \in Thread, t \in Queued
  PROVE  writers_waiting > 0
  <1>1. Cardinality(Queued) # 0
    BY FS_EmptySet, QueuedFinite
  <1> QED BY <1>1, QueuedFinite DEF IInv

\* With no counted read, nobody holds a read outside a write.
LEMMA NoReader ==
  ASSUME IInv, readers_active = 0, NEW t \in Thread
  PROVE  ~HoldsRead(t)
  <1>1. SharedHolds = {}
    BY FS_EmptySet, SharedFinite DEF IInv
  <1>2. ASSUME HoldsRead(t) PROVE FALSE
    <2>1. Len(held[t]) \in Nat \ {0}
      BY <1>2, EmptySeq DEF HoldsRead, IInv, TypeOK
    <2>2. <<t, 1>> \in SharedHolds
      BY <1>2, <2>1, MaxDepthAssumption DEF SharedHolds
    <2> QED BY <1>1, <2>2
  <1> QED BY <1>2

-----------------------------------------------------------------------------
(* Each kind of section preserves the invariant *)

\* Blocking in one of the three waits.
LEMMA BlockInv ==
  ASSUME IInv, NEW t \in Thread, NEW l \in Location \ {"run"},
         held[t] = << >>,
         l = "wturn" => readers_active = 0,
         Goto(t, l), asleep' = asleep \cup {t},
         writers_waiting' = Cardinality(Queued'),
         UNCHANGED <<readers_active, writer_active, count, writer, held>>
  PROVE  IInv'
  <1>1. pc \in [Thread -> Location] /\ pc' = [pc EXCEPT ![t] = l]
    BY DEF IInv, TypeOK, Goto
  <1>2. writers_waiting' \in Nat
    <2>1. Queued' \in SUBSET Thread
      BY DEF Queued
    <2> QED BY <2>1, ThreadAssumption, FS_Subset, FS_CardinalityType
  <1>3. TypeOK'
    BY <1>1, <1>2 DEF IInv, TypeOK
  <1>4. HoldersNeverBlock'
    BY <1>1 DEF IInv, HoldersNeverBlock
  <1>5. GateHolds'
    BY <1>1 DEF IInv, GateHolds
  <1>6. SharedHolds' = SharedHolds
    BY SharedSame DEF HoldsRead
  <1>7. StackShape' /\ OwnerHolds' /\ CountHolds'
    BY DEF IInv, StackShape, OwnerHolds, CountHolds, HoldsRead, HoldsWrite, Own
  <1> QED BY <1>3, <1>4, <1>5, <1>6, <1>7 DEF IInv

\* A counted read.
LEMMA ClaimReadInv ==
  ASSUME IInv, NEW t \in Thread, pc[t] \in {"run", "rwait"},
         Len(held[t]) < MaxDepth,
         ~writer_active, \A u \in Thread : pc[u] # "wturn",
         pc[t] = "rwait" => t \notin asleep,
         ClaimRead(t),
         UNCHANGED <<writers_waiting, writer_active, count, writer>>
  PROVE  IInv'
  <1>1. /\ pc \in [Thread -> Location] /\ pc' = [pc EXCEPT ![t] = "run"]
        /\ readers_active' = readers_active + 1
        /\ Enter(t, "R") /\ asleep' = asleep
    BY DEF IInv, TypeOK, ClaimRead, Goto
  <1>2. /\ held' \in [Thread -> Seq(Mode)]
        /\ \A u \in Thread \ {t} : held'[u] = held[u]
        /\ held'[t] # << >>
        /\ Len(held[t]) \in Nat
        /\ Len(held'[t]) = Len(held[t]) + 1
        /\ \A i \in 1..Len(held[t]) : held'[t][i] = held[t][i]
        /\ held'[t][Len(held[t]) + 1] = "R"
    BY <1>1, EnterEffect DEF IInv, Mode
  <1>3. ~Own(t) /\ ~HoldsWrite(t)
    BY DEF IInv, OwnerHolds, Own
  <1>4. readers_active' = Cardinality(SharedHolds')
    BY <1>1, <1>3, SharedEnter DEF IInv
  <1>5. Queued' = Queued
    BY <1>1 DEF Queued
  <1>6. TypeOK'
    <2>1. t \notin asleep /\ asleep' \subseteq {u \in Thread : pc[u] # "run"}
      BY <1>1 DEF IInv, TypeOK
    <2>2. asleep' \subseteq {u \in Thread : pc'[u] # "run"}
      BY <1>1, <2>1
    <2>3. readers_active' \in Nat /\ pc' \in [Thread -> Location]
      BY <1>1 DEF IInv, TypeOK, Location
    <2> QED BY <1>1, <1>2, <2>2, <2>3 DEF IInv, TypeOK
  <1>7. HoldersNeverBlock'
    BY <1>1, <1>2 DEF IInv, HoldersNeverBlock
  <1>8. \A i \in 1..Len(held'[t]) : held'[t][i] = "R"
    <2>1. \A i \in 1..Len(held[t]) : held[t][i] = "R"
      <3>1. CASE held[t] = << >>
        BY <3>1, EmptySeq
      <3>2. CASE held[t] # << >>
        <4>1. held[t] \in Seq(Mode)
          BY DEF IInv, TypeOK
        <4>2. Len(held[t]) \in Nat \ {0}
          BY <3>2, <4>1, EmptySeq
        <4>3. held[t][1] \in Mode
          BY <4>1, <4>2, ElementOfSeq
        <4>4. HoldsRead(t)
          BY <1>3, <3>2, <4>3 DEF HoldsRead, HoldsWrite, Mode
        <4> QED BY <4>4 DEF IInv, StackShape
      <3> QED BY <3>1, <3>2
    <2> QED BY <1>2, <2>1
  <1>9. StackShape'
    <2>1. ASSUME NEW u \in Thread \ {t}
          PROVE  /\ Len(held'[u]) <= MaxDepth
                 /\ HoldsRead(u)' => \A i \in 1..Len(held'[u]) : held'[u][i] = "R"
      BY <1>2 DEF IInv, StackShape, HoldsRead
    <2>2. Len(held'[t]) <= MaxDepth
      BY <1>2, MaxDepthAssumption
    <2> QED BY <1>8, <2>1, <2>2 DEF StackShape
  <1>10. OwnerHolds'
    <2>1. ~HoldsWrite(t)'
      BY <1>2, <1>8 DEF HoldsWrite
    <2> QED BY <1>2, <2>1 DEF IInv, OwnerHolds, HoldsWrite, Own
  <1>11. GateHolds' /\ CountHolds'
    BY <1>1 DEF GateHolds, CountHolds
  <1> QED BY <1>4, <1>5, <1>6, <1>7, <1>9, <1>10, <1>11 DEF IInv

\* A scope inside a write of the same thread: m is a read, or a write that
\* adds to count.
LEMMA NestedInv ==
  ASSUME IInv, NEW t \in Thread, NEW m \in Mode, Own(t), pc[t] = "run",
         Len(held[t]) < MaxDepth, Enter(t, m),
         count' = count + (IF m = "W" THEN 1 ELSE 0),
         UNCHANGED <<readers_active, writers_waiting, writer_active, writer,
                     pc, asleep>>
  PROVE  IInv'
  <1>1. /\ held' \in [Thread -> Seq(Mode)]
        /\ \A u \in Thread \ {t} : held'[u] = held[u]
        /\ held'[t] = Append(held[t], m)
        /\ held'[t] # << >>
        /\ Len(held[t]) \in Nat
        /\ Len(held'[t]) = Len(held[t]) + 1
        /\ \A i \in 1..Len(held[t]) : held'[t][i] = held[t][i]
    BY EnterEffect DEF IInv
  <1>2. HoldsWrite(t) /\ held[t] \in Seq(Mode) /\ writer = t
    BY DEF IInv, OwnerHolds, TypeOK, Own
  <1>3. HoldsWrite(t)' /\ ~HoldsRead(t)' /\ ~HoldsRead(t)
    <2>1. Len(held[t]) \in Nat \ {0}
      BY <1>2, EmptySeq DEF HoldsWrite
    <2> QED BY <1>1, <1>2, <2>1 DEF HoldsWrite, HoldsRead
  <1>4. SharedHolds' = SharedHolds
    BY <1>1, <1>3, SharedSame DEF HoldsRead
  <1>5. Queued' = Queued
    BY DEF Queued
  <1>6. TypeOK'
    BY <1>1 DEF IInv, TypeOK
  <1>7. HoldersNeverBlock'
    BY <1>1 DEF IInv, HoldersNeverBlock
  <1>8. StackShape'
    <2>1. ASSUME NEW u \in Thread \ {t}
          PROVE  /\ Len(held'[u]) <= MaxDepth
                 /\ HoldsRead(u)' => \A i \in 1..Len(held'[u]) : held'[u][i] = "R"
      BY <1>1 DEF IInv, StackShape, HoldsRead
    <2>2. Len(held'[t]) <= MaxDepth
      BY <1>1, MaxDepthAssumption
    <2> QED BY <1>3, <2>1, <2>2 DEF StackShape
  <1>9. OwnerHolds'
    BY <1>1, <1>2, <1>3 DEF IInv, OwnerHolds, HoldsWrite, Own
  <1>10. GateHolds'
    BY DEF IInv, GateHolds
  <1>11. CountHolds'
    <2>1. Cardinality(WriteScopes(held'[t])) =
            Cardinality(WriteScopes(held[t])) + (IF m = "W" THEN 1 ELSE 0)
      BY <1>1, <1>2, WriteScopesPushed
    <2> QED BY <1>2, <2>1 DEF IInv, CountHolds, Own
  <1> QED BY <1>4, <1>5, <1>6, <1>7, <1>8, <1>9, <1>10, <1>11 DEF IInv

\* A writer passes both gates.
LEMMA BecomeWriterInv ==
  ASSUME IInv, NEW t \in Thread, held[t] = << >>,
         readers_active = 0, ~writer_active,
         pc[t] # "run" => t \notin asleep,
         writer_active' = TRUE, writer' = t, count' = 1,
         Enter(t, "W"), Goto(t, "run"), asleep' = asleep,
         writers_waiting' = Cardinality(Queued'),
         UNCHANGED readers_active
  PROVE  IInv'
  <1>1. pc \in [Thread -> Location] /\ pc' = [pc EXCEPT ![t] = "run"]
    BY DEF IInv, TypeOK, Goto
  <1>2. /\ held' \in [Thread -> Seq(Mode)]
        /\ \A u \in Thread \ {t} : held'[u] = held[u]
        /\ held'[t] = Append(held[t], "W")
        /\ held'[t] # << >>
        /\ Len(held'[t]) = 1
        /\ held'[t][1] = "W"
    <2>1. TypeOK /\ "W" \in Mode
      BY DEF IInv, Mode
    <2>2. Len(held[t]) = 0
      BY EmptySeq
    <2> HIDE DEF TypeOK
    <2>3. /\ held' \in [Thread -> Seq(Mode)]
          /\ \A u \in Thread \ {t} : held'[u] = held[u]
          /\ held'[t] = Append(held[t], "W")
          /\ held'[t] # << >>
          /\ Len(held'[t]) = Len(held[t]) + 1
          /\ held'[t][Len(held[t]) + 1] = "W"
      BY <2>1, EnterEffect
    <2> QED BY <2>2, <2>3
  <1>3. HoldsWrite(t)' /\ ~HoldsRead(t)' /\ ~HoldsRead(t)
    BY <1>2 DEF HoldsWrite, HoldsRead
  <1>4. SharedHolds' = SharedHolds
    BY <1>2, <1>3, SharedSame DEF HoldsRead
  <1>5. writers_waiting' \in Nat
    <2>1. Queued' \in SUBSET Thread
      BY DEF Queued
    <2> QED BY <2>1, ThreadAssumption, FS_Subset, FS_CardinalityType
  <1>6. TypeOK'
    <2>1. t \notin asleep /\ asleep' \subseteq {u \in Thread : pc[u] # "run"}
      BY DEF IInv, TypeOK
    <2>2. asleep' \subseteq {u \in Thread : pc'[u] # "run"}
      BY <1>1, <2>1
    <2>3. pc' \in [Thread -> Location]
      BY <1>1 DEF Location
    <2> QED BY <1>2, <1>5, <2>2, <2>3 DEF IInv, TypeOK
  <1>7. HoldersNeverBlock'
    BY <1>1, <1>2 DEF IInv, HoldersNeverBlock
  <1>8. StackShape'
    <2>1. ASSUME NEW u \in Thread \ {t}
          PROVE  /\ Len(held'[u]) <= MaxDepth
                 /\ HoldsRead(u)' => \A i \in 1..Len(held'[u]) : held'[u][i] = "R"
      BY <1>2 DEF IInv, StackShape, HoldsRead
    <2>2. Len(held'[t]) <= MaxDepth
      BY <1>2, MaxDepthAssumption
    <2> QED BY <1>3, <2>1, <2>2 DEF StackShape
  <1>9. OwnerHolds'
    BY <1>2, <1>3 DEF IInv, OwnerHolds, HoldsWrite, Own
  <1>10. GateHolds'
    BY DEF GateHolds
  <1>11. CountHolds'
    <2>1. WriteScopes(held'[t]) = {1}
      BY <1>2 DEF WriteScopes
    <2> QED BY <2>1, FS_Singleton DEF CountHolds
  <1> QED BY <1>4, <1>6, <1>7, <1>8, <1>9, <1>10, <1>11 DEF IInv

\* Leaving a read: counted, or inside a write.
LEMMA UnlockReaderInv ==
  ASSUME IInv, NEW t \in Thread, unlock_reader(t)
  PROVE  IInv'
  <1>1. /\ TypeOK /\ held[t] # << >> /\ pc[t] = "run"
        /\ held[t][Len(held[t])] = "R" /\ Leave(t) /\ pc' = pc
        /\ UNCHANGED <<writers_waiting, writer_active, count, writer>>
        /\ asleep' \subseteq asleep
    BY DEF IInv, unlock_reader, MayUnlock
  <1>2. /\ held' \in [Thread -> Seq(Mode)]
        /\ \A u \in Thread \ {t} : held'[u] = held[u]
        /\ held'[t] = SubSeq(held[t], 1, Len(held[t]) - 1)
        /\ Len(held[t]) \in Nat \ {0}
        /\ Len(held'[t]) = Len(held[t]) - 1
        /\ \A i \in 1..(Len(held[t]) - 1) : held'[t][i] = held[t][i]
        /\ held'[t] = << >> <=> Len(held[t]) = 1
    BY <1>1, LeaveEffect
  <1>3. StackShape'
    <2>1. ASSUME NEW u \in Thread \ {t}
          PROVE  /\ Len(held'[u]) <= MaxDepth
                 /\ HoldsRead(u)' => \A i \in 1..Len(held'[u]) : held'[u][i] = "R"
      BY <1>2 DEF IInv, StackShape, HoldsRead
    <2>2. Len(held'[t]) <= MaxDepth
      BY <1>2, MaxDepthAssumption DEF IInv, StackShape
    <2>3. HoldsRead(t)' => \A i \in 1..Len(held'[t]) : held'[t][i] = "R"
      BY <1>1, <1>2 DEF IInv, StackShape, HoldsRead
    <2> QED BY <2>1, <2>2, <2>3 DEF StackShape
  <1>4. HoldersNeverBlock'
    BY <1>1, <1>2 DEF IInv, HoldersNeverBlock
  <1>5. Queued' = Queued
    BY <1>1 DEF Queued
  <1>6. CASE Own(t)
    <2>1. UNCHANGED <<readers_active, asleep>>
      BY <1>6 DEF unlock_reader
    <2>2. HoldsWrite(t) /\ writer = t
      BY <1>6 DEF IInv, OwnerHolds, Own
    <2>3. HoldsWrite(t)' /\ ~HoldsRead(t)' /\ ~HoldsRead(t)
      BY <1>1, <1>2, <2>2 DEF HoldsWrite, HoldsRead
    <2>4. SharedHolds' = SharedHolds
      BY <1>2, <2>3, SharedSame DEF HoldsRead
    <2>5. TypeOK'
      BY <1>1, <1>2, <2>1 DEF TypeOK
    <2>6. OwnerHolds'
      BY <1>1, <1>2, <2>2, <2>3 DEF IInv, OwnerHolds, HoldsWrite, Own
    <2>7. GateHolds'
      BY <1>1, <2>1 DEF IInv, GateHolds
    <2>8. CountHolds'
      <3>1. held[t] \in Seq(Mode)
        BY <1>1 DEF TypeOK
      <3>2. Cardinality(WriteScopes(held'[t])) = Cardinality(WriteScopes(held[t]))
        BY <1>1, <1>2, <3>1, WriteScopesPopped, WriteScopesFinite
      <3> QED BY <1>1, <2>2, <3>2 DEF IInv, CountHolds
    <2> QED BY <1>1, <1>3, <1>4, <1>5, <2>1, <2>4, <2>5, <2>6, <2>7, <2>8 DEF IInv
  <1>7. CASE ~Own(t)
    <2>1. readers_active' = readers_active - 1
      BY <1>7 DEF unlock_reader
    <2>2. /\ Cardinality(SharedHolds') = Cardinality(SharedHolds) - 1
          /\ HoldsRead(t) /\ (held'[t] # << >> => HoldsRead(t)')
      BY <1>1, <1>7, SharedLeave DEF unlock_reader
    <2>3. readers_active # 0 /\ readers_active \in Nat
      BY <2>2, NoReader DEF IInv, TypeOK
    <2>4. TypeOK'
      BY <1>1, <1>2, <2>1, <2>3 DEF TypeOK
    <2>5. OwnerHolds'
      BY <1>1, <1>2, <1>7, <2>2 DEF IInv, OwnerHolds, HoldsWrite, HoldsRead, Own
    <2>6. GateHolds'
      BY <1>1, <2>3 DEF IInv, GateHolds
    <2>7. CountHolds'
      BY <1>1, <1>2, <1>7 DEF IInv, CountHolds, Own
    <2> QED BY <1>1, <1>3, <1>4, <1>5, <2>1, <2>2, <2>4, <2>5, <2>6, <2>7 DEF IInv
  <1> QED BY <1>6, <1>7

\* A thread whose innermost scope is a write owns the mutex.
LEMMA InnerWriteOwns ==
  ASSUME IInv, NEW t \in Thread, MayUnlock(t, "W")
  PROVE  Own(t) /\ HoldsWrite(t)
  <1>1. held[t] \in Seq(Mode) /\ held[t] # << >> /\ held[t][Len(held[t])] = "W"
    BY DEF IInv, TypeOK, MayUnlock
  <1>2. Len(held[t]) \in Nat \ {0}
    BY <1>1, EmptySeq
  <1>3. ~HoldsRead(t)
    BY <1>1, <1>2 DEF IInv, StackShape
  <1>4. held[t][1] \in Mode
    BY <1>1, <1>2, ElementOfSeq
  <1> QED BY <1>1, <1>3, <1>4 DEF IInv, OwnerHolds, HoldsRead, HoldsWrite, Mode

\* Leaving a write: the outermost one, when count falls to 0, frees the mutex.
LEMMA UnlockWriterInv ==
  ASSUME IInv, NEW t \in Thread, unlock_writer(t)
  PROVE  IInv'
  <1>1. /\ TypeOK /\ held[t] # << >> /\ pc[t] = "run"
        /\ held[t][Len(held[t])] = "W" /\ Leave(t) /\ pc' = pc
        /\ count' = count - 1
        /\ writer_active' = (writer_active /\ count' # 0)
        /\ asleep' \subseteq asleep
        /\ UNCHANGED <<readers_active, writers_waiting, writer>>
    BY DEF IInv, unlock_writer, MayUnlock
  <1>2. /\ held' \in [Thread -> Seq(Mode)]
        /\ \A u \in Thread \ {t} : held'[u] = held[u]
        /\ held'[t] = SubSeq(held[t], 1, Len(held[t]) - 1)
        /\ Len(held[t]) \in Nat \ {0}
        /\ Len(held'[t]) = Len(held[t]) - 1
        /\ \A i \in 1..(Len(held[t]) - 1) : held'[t][i] = held[t][i]
        /\ held'[t] = << >> <=> Len(held[t]) = 1
    BY <1>1, LeaveEffect
  <1>3. writer_active /\ writer = t /\ HoldsWrite(t) /\ ~HoldsRead(t)
    BY InnerWriteOwns DEF unlock_writer, Own, HoldsWrite, HoldsRead
  <1>4. /\ count = Cardinality(WriteScopes(held[t]))
        /\ count' = Cardinality(WriteScopes(held'[t]))
        /\ count' \in Nat
    <2>1. held[t] \in Seq(Mode) /\ held'[t] \in Seq(Mode)
      BY <1>1, <1>2 DEF TypeOK
    <2>2. count = Cardinality(WriteScopes(held[t]))
      BY <1>3 DEF IInv, CountHolds
    <2>3. Cardinality(WriteScopes(held'[t])) = Cardinality(WriteScopes(held[t])) - 1
      BY <1>1, <1>2, <2>1, WriteScopesPopped
    <2> QED BY <1>1, <2>1, <2>2, <2>3, WriteScopesFinite
  <1>5. held'[t] = << >> <=> count' = 0
    <2>1. IsFiniteSet(WriteScopes(held'[t]))
      BY <1>2, WriteScopesFinite
    <2>2. count' = 0 <=> WriteScopes(held'[t]) = {}
      BY <1>4, <2>1, FS_EmptySet
    <2>3. ASSUME held'[t] = << >> PROVE WriteScopes(held'[t]) = {}
      BY <1>2, <2>3 DEF WriteScopes
    <2>4. ASSUME held'[t] # << >> PROVE 1 \in WriteScopes(held'[t])
      BY <1>2, <1>3, <2>4 DEF WriteScopes, HoldsWrite
    <2> QED BY <2>2, <2>3, <2>4
  <1>6. ~HoldsRead(t)' /\ (HoldsWrite(t)' <=> count' # 0)
    BY <1>2, <1>3, <1>5 DEF HoldsRead, HoldsWrite
  <1>7. SharedHolds' = SharedHolds
    BY <1>2, <1>3, <1>6, SharedSame DEF HoldsRead
  <1>8. Queued' = Queued
    BY <1>1 DEF Queued
  <1>9. TypeOK'
    BY <1>1, <1>2, <1>4 DEF TypeOK
  <1>10. HoldersNeverBlock'
    BY <1>1, <1>2 DEF IInv, HoldersNeverBlock
  <1>11. StackShape'
    <2>1. ASSUME NEW u \in Thread \ {t}
          PROVE  /\ Len(held'[u]) <= MaxDepth
                 /\ HoldsRead(u)' => \A i \in 1..Len(held'[u]) : held'[u][i] = "R"
      BY <1>2 DEF IInv, StackShape, HoldsRead
    <2>2. Len(held'[t]) <= MaxDepth
      BY <1>2, MaxDepthAssumption DEF IInv, StackShape
    <2> QED BY <1>6, <2>1, <2>2 DEF StackShape
  <1>12. OwnerHolds'
    BY <1>1, <1>2, <1>3, <1>6 DEF IInv, OwnerHolds, HoldsWrite, Own
  <1>13. GateHolds'
    BY <1>1, <1>3 DEF IInv, GateHolds
  <1>14. CountHolds'
    BY <1>1, <1>3, <1>4 DEF CountHolds
  <1> QED BY <1>1, <1>7, <1>8, <1>9, <1>10, <1>11, <1>12, <1>13, <1>14 DEF IInv

\* A thread outside a write that holds no read holds nothing.
LEMMA HoldsNeither ==
  ASSUME IInv, NEW t \in Thread, ~HoldsRead(t), ~Own(t)
  PROVE  held[t] = << >>
  <1>1. held[t] \in Seq(Mode) /\ ~HoldsWrite(t)
    BY DEF IInv, TypeOK, OwnerHolds
  <1>2. ASSUME held[t] # << >> PROVE FALSE
    <2>1. Len(held[t]) \in Nat \ {0}
      BY <1>1, <1>2, EmptySeq
    <2>2. held[t][1] \in Mode
      BY <1>1, <2>1, ElementOfSeq
    <2> QED BY <1>1, <1>2, <2>2 DEF HoldsRead, HoldsWrite, Mode
  <1> QED BY <1>2

\* A read may be counted when others read already, or when nobody writes.
LEMMA GatesOpen ==
  ASSUME IInv, readers_active > 0 \/ ~Writing
  PROVE  ~writer_active /\ \A u \in Thread : pc[u] # "wturn"
  <1>1. CASE readers_active > 0
    BY <1>1 DEF IInv, TypeOK, GateHolds
  <1>2. CASE ~Writing
    <2>1. ASSUME NEW u \in Thread, pc[u] = "wturn" PROVE FALSE
      <3>1. u \in Queued
        BY <2>1 DEF Queued
      <3> QED BY <1>2, <3>1, QueuedCounted DEF Writing
    <2> QED BY <1>2, <2>1 DEF Writing
  <1> QED BY <1>1, <1>2

LEMMA WaitNoWriterInv ==
  ASSUME IInv, NEW t \in Thread, pc[t] \in {"run", "rwait"}, held[t] = << >>,
         WaitNoWriter(t),
         UNCHANGED <<writers_waiting, writer_active, count, writer>>
  PROVE  IInv'
  <1>1. Goto(t, "rwait") /\ "rwait" \in Location \ {"run"}
    BY DEF WaitNoWriter, Location
  <1>2. t \notin Queued
    BY DEF Queued
  <1>3. Cardinality(Queued') = Cardinality(Queued)
    BY <1>1, <1>2, QueuedChange, QueuedFinite DEF IInv
  <1>4. writers_waiting' = Cardinality(Queued')
    BY <1>3 DEF IInv
  <1> QED BY <1>1, <1>4, BlockInv DEF WaitNoWriter

LEMMA LockReaderInv ==
  ASSUME IInv, NEW t \in Thread, lock_reader(t)
  PROVE  IInv'
  <1>1. /\ pc[t] = "run" /\ Len(held[t]) < MaxDepth
        /\ UNCHANGED <<writers_waiting, writer_active, count, writer>>
    BY DEF lock_reader
  <1>2. CASE Own(t)
    <2>1. Enter(t, "R") /\ UNCHANGED <<readers_active, pc, asleep>>
      BY <1>2 DEF lock_reader
    <2>2. "R" \in Mode /\ count' = count + (IF "R" = "W" THEN 1 ELSE 0)
      BY <1>1 DEF IInv, TypeOK, Mode
    <2> QED BY <1>1, <1>2, <2>1, <2>2, NestedInv
  <1>3. CASE ~Own(t) /\ readers_active = 0 /\ Writing
    <2>1. held[t] = << >>
      BY <1>3, NoReader, HoldsNeither
    <2>2. WaitNoWriter(t)
      BY <1>3 DEF lock_reader
    <2> QED BY <1>1, <2>1, <2>2, WaitNoWriterInv
  <1>4. CASE ~Own(t) /\ ~(readers_active = 0 /\ Writing)
    <2>1. readers_active > 0 \/ ~Writing
      BY <1>4 DEF IInv, TypeOK
    <2>2. ClaimRead(t)
      BY <1>4 DEF lock_reader
    <2> QED BY <1>1, <2>1, <2>2, GatesOpen, ClaimReadInv
  <1> QED BY <1>2, <1>3, <1>4

LEMMA LockReaderWokenInv ==
  ASSUME IInv, NEW t \in Thread, lock_reader_woken(t)
  PROVE  IInv'
  <1>1. /\ pc[t] = "rwait" /\ t \notin asleep /\ held[t] = << >>
        /\ UNCHANGED <<writers_waiting, writer_active, count, writer>>
    BY DEF lock_reader_woken, IInv, HoldersNeverBlock
  <1>2. CASE Writing
    BY <1>1, <1>2, WaitNoWriterInv DEF lock_reader_woken
  <1>3. CASE ~Writing
    <2>1. Len(held[t]) < MaxDepth
      BY <1>1, EmptySeq, MaxDepthAssumption
    <2>2. ClaimRead(t)
      BY <1>3 DEF lock_reader_woken
    <2> QED BY <1>1, <1>3, <2>1, <2>2, GatesOpen, ClaimReadInv
  <1> QED BY <1>2, <1>3

\* `waiting' counts t itself among the queued writers.
LEMMA PassWriterGateInv ==
  ASSUME IInv, NEW t \in Thread, held[t] = << >>, readers_active = 0,
         pc[t] # "run" => t \notin asleep,
         NEW waiting,
         waiting = Cardinality(Queued) + (IF t \in Queued THEN 0 ELSE 1),
         PassWriterGate(t, waiting),
         UNCHANGED readers_active
  PROVE  IInv'
  <1>1. CASE writer_active
    <2>1. /\ Goto(t, "wturn") /\ "wturn" \in Location \ {"run"}
          /\ asleep' = asleep \cup {t} /\ writers_waiting' = waiting
          /\ UNCHANGED <<writer_active, writer, count, held>>
      BY <1>1 DEF PassWriterGate, Location
    <2>2. writers_waiting' = Cardinality(Queued')
      BY <2>1, QueuedChange, QueuedFinite DEF IInv
    <2> QED BY <2>1, <2>2, BlockInv
  <1>2. CASE ~writer_active
    <2>1. /\ writers_waiting' = waiting - 1
          /\ writer_active' = TRUE /\ writer' = t /\ count' = 1
          /\ Enter(t, "W") /\ Goto(t, "run") /\ asleep' = asleep
          /\ "run" \in Location
      BY <1>2 DEF PassWriterGate, Location
    <2>2. writers_waiting' = Cardinality(Queued')
      BY <2>1, QueuedChange, QueuedFinite DEF IInv
    <2> QED BY <1>2, <2>1, <2>2, BecomeWriterInv
  <1> QED BY <1>1, <1>2

LEMMA PassReaderGateInv ==
  ASSUME IInv, NEW t \in Thread, held[t] = << >>,
         pc[t] # "run" => t \notin asleep,
         NEW waiting,
         waiting = Cardinality(Queued) + (IF t \in Queued THEN 0 ELSE 1),
         PassReaderGate(t, waiting),
         UNCHANGED readers_active
  PROVE  IInv'
  <1>1. CASE readers_active > 0
    <2>1. /\ Goto(t, "wgate") /\ "wgate" \in Location \ {"run"}
          /\ asleep' = asleep \cup {t} /\ writers_waiting' = waiting
          /\ UNCHANGED <<writer_active, writer, count, held>>
      BY <1>1 DEF PassReaderGate, Location
    <2>2. writers_waiting' = Cardinality(Queued')
      BY <2>1, QueuedChange, QueuedFinite DEF IInv
    <2> QED BY <2>1, <2>2, BlockInv
  <1>2. CASE ~(readers_active > 0)
    <2>1. readers_active = 0 /\ PassWriterGate(t, waiting)
      BY <1>2 DEF PassReaderGate
    <2> QED BY <2>1, PassWriterGateInv
  <1> QED BY <1>1, <1>2

LEMMA LockWriterInv ==
  ASSUME IInv, NEW t \in Thread, lock_writer(t)
  PROVE  IInv'
  <1>1. /\ pc[t] = "run" /\ Len(held[t]) < MaxDepth /\ ~HoldsRead(t)
        /\ UNCHANGED readers_active
    BY DEF lock_writer
  <1>2. CASE Own(t)
    <2>1. /\ count' = count + 1 /\ Enter(t, "W")
          /\ UNCHANGED <<writers_waiting, writer_active, writer, pc, asleep>>
      BY <1>2 DEF lock_writer
    <2>2. "W" \in Mode /\ count' = count + (IF "W" = "W" THEN 1 ELSE 0)
      BY <2>1 DEF Mode
    <2> QED BY <1>1, <1>2, <2>1, <2>2, NestedInv
  <1>3. CASE ~Own(t)
    <2>1. held[t] = << >>
      BY <1>1, <1>3, HoldsNeither
    <2>2. t \notin Queued /\ writers_waiting = Cardinality(Queued)
      BY <1>1 DEF Queued, IInv
    <2>3. PassReaderGate(t, writers_waiting + 1)
      BY <1>3 DEF lock_writer
    <2> QED BY <1>1, <2>1, <2>2, <2>3, PassReaderGateInv
  <1> QED BY <1>2, <1>3

LEMMA LockWriterWokenInv ==
  ASSUME IInv, NEW t \in Thread, lock_writer_woken(t)
  PROVE  IInv'
  <1>1. /\ t \notin asleep /\ pc[t] \in {"wgate", "wturn"}
        /\ UNCHANGED readers_active
    BY DEF lock_writer_woken
  <1>2. held[t] = << >>
    BY <1>1 DEF IInv, HoldersNeverBlock
  <1>3. /\ t \in Queued
        /\ writers_waiting = Cardinality(Queued) + (IF t \in Queued THEN 0 ELSE 1)
    BY <1>1, QueuedFinite DEF Queued, IInv
  <1>4. CASE pc[t] = "wgate" /\ PassReaderGate(t, writers_waiting)
    BY <1>1, <1>2, <1>3, <1>4, PassReaderGateInv
  <1>5. CASE pc[t] = "wturn" /\ PassWriterGate(t, writers_waiting)
    <2>1. readers_active = 0
      BY <1>5 DEF IInv, GateHolds
    <2> QED BY <1>1, <1>2, <1>3, <1>5, <2>1, PassWriterGateInv
  <1> QED BY <1>4, <1>5 DEF lock_writer_woken

LEMMA UnchangedInv ==
  ASSUME IInv, asleep' \subseteq asleep,
         UNCHANGED <<readers_active, writers_waiting, writer_active, count,
                     writer, held, pc>>
  PROVE  IInv'
  <1>1. SharedHolds' = SharedHolds /\ Queued' = Queued
    BY SharedSame DEF HoldsRead, Queued
  <1>2. TypeOK'
    BY DEF IInv, TypeOK
  <1>3. HoldersNeverBlock' /\ GateHolds'
    BY DEF IInv, HoldersNeverBlock, GateHolds
  <1>4. StackShape' /\ OwnerHolds' /\ CountHolds'
    BY DEF IInv, StackShape, OwnerHolds, CountHolds, HoldsRead, HoldsWrite, Own
  <1> QED BY <1>1, <1>2, <1>3, <1>4 DEF IInv

-----------------------------------------------------------------------------
(* The theorems *)

LEMMA InitInv == Init => IInv
  <1> SUFFICES ASSUME Init PROVE IInv
    OBVIOUS
  <1>1. \A t \in Thread : /\ held[t] = << >> /\ Len(held[t]) = 0
                          /\ pc[t] = "run" /\ ~Own(t)
                          /\ ~HoldsRead(t) /\ ~HoldsWrite(t)
    BY EmptySeq DEF Init, Own, HoldsRead, HoldsWrite
  <1>2. TypeOK
    <2>1. held \in [Thread -> Seq(Mode)]
      BY EmptySeq DEF Init
    <2>2. count \in Nat
      BY MaxDepthAssumption DEF Init
    <2> QED BY <2>1, <2>2 DEF Init, TypeOK, Location
  <1>3. HoldersNeverBlock /\ OwnerHolds /\ GateHolds /\ CountHolds
    BY <1>1 DEF Init, HoldersNeverBlock, OwnerHolds, GateHolds, CountHolds
  <1>4. StackShape
    BY <1>1, MaxDepthAssumption DEF StackShape
  <1>5. SharedHolds = {} /\ Queued = {}
    BY <1>1 DEF SharedHolds, Queued
  <1> QED BY <1>2, <1>3, <1>4, <1>5, FS_EmptySet DEF Init, IInv

LEMMA NextInv == IInv /\ [Next]_vars => IInv'
  <1> SUFFICES ASSUME IInv, [Next]_vars PROVE IInv'
    OBVIOUS
  <1>1. CASE UNCHANGED vars
    BY <1>1, UnchangedInv DEF vars
  <1>2. ASSUME NEW t \in Thread, Lock(t) PROVE IInv'
    BY <1>2, LockReaderInv, LockWriterInv DEF Lock
  <1>3. ASSUME NEW t \in Thread, Woken(t) PROVE IInv'
    BY <1>3, LockReaderWokenInv, LockWriterWokenInv DEF Woken
  <1>4. ASSUME NEW t \in Thread, Unlock(t) PROVE IInv'
    BY <1>4, UnlockReaderInv, UnlockWriterInv DEF Unlock
  <1>5. ASSUME NEW t \in Thread, SpuriousWakeup(t) PROVE IInv'
    BY <1>5, UnchangedInv DEF SpuriousWakeup
  <1> QED BY <1>1, <1>2, <1>3, <1>4, <1>5 DEF Next

\* The inductive invariant holds of every behaviour of the mutex.
THEOREM InductiveInvariant == Spec => []IInv
  BY InitInv, NextInv, PTL DEF Spec

\* RWMutex keeps its types: in particular no counter goes below zero, which
\* in C++ would be a wrap to the largest unsigned value.
THEOREM TypeCorrect == Spec => []TypeOK
  <1>1. IInv => TypeOK
    BY DEF IInv
  <1> QED BY <1>1, InductiveInvariant, PTL

\* A thread inside a write scope is alone, for any number of threads.
THEOREM MutualExclusion == Spec => []Exclusion
  <1>1. IInv => Exclusion
    <2> SUFFICES ASSUME IInv, NEW t \in Thread, NEW u \in Thread,
                        HoldsWrite(t), t # u
                 PROVE  held[u] = << >>
      BY DEF Exclusion
    <2>1. writer_active /\ writer = t /\ readers_active = 0
      BY DEF IInv, OwnerHolds, Own, GateHolds
    <2>2. ~Own(u)
      BY <2>1 DEF Own
    <2> QED BY <2>1, <2>2, NoReader, HoldsNeither
  <1> QED BY <1>1, InductiveInvariant, PTL

\* lock_reader and lock_writer never block a thread that holds the mutex.
THEOREM HoldersRun == Spec => []HoldersNeverBlock
  <1>1. IInv => HoldersNeverBlock
    BY DEF IInv
  <1> QED BY <1>1, InductiveInvariant, PTL

\* The three counters of RWMutex agree with the holds and the queue.
THEOREM CountersExact == Spec => []CountsExact
  <1>1. IInv => CountsExact
    <2> SUFFICES ASSUME IInv PROVE CountsExact
      OBVIOUS
    <2>1. ASSUME writer_active
          PROVE  count = Cardinality({i \in DOMAIN held[writer] : held[writer][i] = "W"})
      <3>1. writer \in Thread /\ count = Cardinality(WriteScopes(held[writer]))
        BY <2>1 DEF IInv, CountHolds
      <3>2. held[writer] \in Seq(Mode)
        BY <3>1 DEF IInv, TypeOK
      <3>3. DOMAIN held[writer] = 1..Len(held[writer])
        BY <3>2, LenProperties
      <3> QED BY <3>1, <3>3 DEF WriteScopes
    <2> QED BY <2>1 DEF IInv, CountsExact
  <1> QED BY <1>1, InductiveInvariant, PTL

-----------------------------------------------------------------------------
(* RWMutex implements RWLock, through its holds *)

LEMMA ReleaseStep ==
  ASSUME IInv, NEW t \in Thread, Unlock(t)
  PROVE  Abstract!Release(t)
  BY DEF Unlock, unlock_reader, unlock_writer, MayUnlock, Leave,
         Abstract!Release, Abstract!HoldsNothing, Abstract!Left

\* A read is granted inside a write of the same thread, or while no thread
\* is inside a write.
LEMMA ReadStep ==
  ASSUME IInv, NEW t \in Thread, Len(held[t]) < MaxDepth, Enter(t, "R"),
         Own(t) \/ ~writer_active
  PROVE  Abstract!AcquireRead(t)
  <1>1. \A u \in Thread \ {t} : ~HoldsWrite(u)
    BY DEF IInv, OwnerHolds, Own
  <1> QED BY <1>1 DEF Enter, HoldsWrite, Abstract!AcquireRead,
                      Abstract!HoldsWrite, Abstract!Entered

\* A write is granted inside a write of the same thread, or while no thread
\* holds anything.
LEMMA WriteStep ==
  ASSUME IInv, NEW t \in Thread, Len(held[t]) < MaxDepth, Enter(t, "W"),
         ~HoldsRead(t), readers_active = 0, Own(t) \/ ~writer_active
  PROVE  Abstract!AcquireWrite(t)
  <1>1. ASSUME NEW u \in Thread \ {t} PROVE held[u] = << >>
    <2>1. ~Own(u)
      BY DEF Own
    <2> QED BY <2>1, NoReader, HoldsNeither
  <1> QED BY <1>1 DEF Enter, HoldsRead, Abstract!AcquireWrite,
                      Abstract!HoldsRead, Abstract!HoldsNothing, Abstract!Entered

LEMMA LockStep ==
  ASSUME IInv, NEW t \in Thread, Lock(t) \/ Woken(t)
  PROVE  Abstract!AcquireRead(t) \/ Abstract!AcquireWrite(t) \/ UNCHANGED held
  <1>1. \A u \in Thread : pc[u] # "run" => /\ held[u] = << >>
                                           /\ Len(held[u]) < MaxDepth
                                           /\ ~HoldsRead(u)
    BY EmptySeq, MaxDepthAssumption DEF IInv, HoldersNeverBlock, HoldsRead
  <1>2. CASE lock_reader(t)
    <2>1. Len(held[t]) < MaxDepth
      BY <1>2 DEF lock_reader
    <2>2. CASE Own(t)
      BY <1>2, <2>1, <2>2, ReadStep DEF lock_reader
    <2>3. CASE ~Own(t) /\ (readers_active > 0 \/ ~Writing) /\ ClaimRead(t)
      BY <2>1, <2>3, GatesOpen, ReadStep DEF ClaimRead
    <2>4. CASE WaitNoWriter(t)
      BY <2>4 DEF WaitNoWriter
    <2> QED BY <1>2, <2>2, <2>3, <2>4 DEF lock_reader
  <1>3. CASE lock_reader_woken(t)
    <2>1. CASE Writing
      BY <1>3, <2>1 DEF lock_reader_woken, WaitNoWriter
    <2>2. CASE ~Writing
      BY <1>1, <1>3, <2>2, GatesOpen, ReadStep DEF lock_reader_woken, ClaimRead
    <2> QED BY <2>1, <2>2
  <1>4. ASSUME NEW w, Len(held[t]) < MaxDepth, ~HoldsRead(t),
               readers_active = 0, PassWriterGate(t, w)
        PROVE  Abstract!AcquireWrite(t) \/ UNCHANGED held
    BY <1>4, WriteStep DEF PassWriterGate
  <1>5. ASSUME NEW w, Len(held[t]) < MaxDepth, ~HoldsRead(t), PassReaderGate(t, w)
        PROVE  Abstract!AcquireWrite(t) \/ UNCHANGED held
    <2>1. CASE readers_active = 0 /\ PassWriterGate(t, w)
      BY <1>4, <1>5, <2>1
    <2> QED BY <1>5, <2>1 DEF PassReaderGate
  <1>6. CASE lock_writer(t)
    <2>1. Len(held[t]) < MaxDepth /\ ~HoldsRead(t)
      BY <1>6 DEF lock_writer
    <2>2. CASE Own(t)
      <3>1. readers_active = 0 /\ Enter(t, "W")
        BY <1>6, <2>2 DEF lock_writer, Own, IInv, GateHolds
      <3> QED BY <2>1, <2>2, <3>1, WriteStep
    <2>3. CASE ~Own(t)
      BY <1>5, <1>6, <2>1, <2>3 DEF lock_writer
    <2> QED BY <2>2, <2>3
  <1>7. CASE lock_writer_woken(t)
    <2>1. CASE pc[t] = "wgate" /\ PassReaderGate(t, writers_waiting)
      BY <1>1, <1>5, <2>1
    <2>2. CASE pc[t] = "wturn" /\ PassWriterGate(t, writers_waiting)
      <3>1. readers_active = 0
        BY <2>2 DEF IInv, GateHolds
      <3> QED BY <1>1, <1>4, <2>2, <3>1
    <2> QED BY <1>7, <2>1, <2>2 DEF lock_writer_woken
  <1> QED BY <1>2, <1>3, <1>6, <1>7 DEF Lock, Woken

\* Every behaviour of the mutex is, in the holds of its threads, a behaviour
\* of the abstract reader/writer lock.
THEOREM Refinement == Spec => ImplementsRWLock
  <1>1. Init => Abstract!Init
    BY DEF Init, Abstract!Init
  <1>2. IInv /\ [Next]_vars => [Abstract!Next]_held
    <2> SUFFICES ASSUME IInv, [Next]_vars PROVE [Abstract!Next]_held
      OBVIOUS
    <2>1. CASE UNCHANGED vars
      BY <2>1 DEF vars
    <2>2. ASSUME NEW t \in Thread, Lock(t) \/ Woken(t) PROVE [Abstract!Next]_held
      BY <2>2, LockStep DEF Abstract!Next
    <2>3. ASSUME NEW t \in Thread, Unlock(t) PROVE [Abstract!Next]_held
      BY <2>3, ReleaseStep DEF Abstract!Next
    <2>4. ASSUME NEW t \in Thread, SpuriousWakeup(t) PROVE [Abstract!Next]_held
      BY <2>4 DEF SpuriousWakeup
    <2> QED BY <2>1, <2>2, <2>3, <2>4 DEF Next
  <1> QED BY <1>1, <1>2, InductiveInvariant, PTL DEF Spec, ImplementsRWLock, Abstract!Spec
=============================================================================
