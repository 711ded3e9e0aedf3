---------------------------- MODULE ListTheorems ----------------------------
(***************************************************************************)
(* What is left when elements are removed from a list, and where the       *)
(* elements of lists are after an append, a concatenation, or the removal  *)
(* of the first or the last.                                               *)
(***************************************************************************)
EXTENDS Lists, FiniteSetTheorems, SequenceTheorems, TLAPS

\* No element is in s twice.
Distinct(s) == \A i, j \in 1..Len(s) : s[i] = s[j] => i = j

-----------------------------------------------------------------------------
(* Keeping *)

LEMMA Counting ==
  ASSUME NEW S, NEW s \in Seq(S)
  PROVE  IsFiniteSet(1..Len(s)) /\ Cardinality(1..Len(s)) = Len(s)
<1>1. Len(s) \in Nat OBVIOUS
<1> QED BY <1>1, FS_Interval

LEMMA KeptFinite ==
  ASSUME NEW S, NEW s \in Seq(S), NEW keep
  PROVE  /\ IsFiniteSet(Kept(s, keep))
         /\ Cardinality(Kept(s, keep)) \in Nat
<1>1. Kept(s, keep) \in SUBSET (1..Len(s)) BY DEF Kept
<1>2. IsFiniteSet(1..Len(s)) BY Counting
<1>3. IsFiniteSet(Kept(s, keep)) BY <1>1, <1>2, FS_Subset
<1> QED BY <1>3, FS_CardinalityType

\* The elements that stay are numbered in order, one number each: their ranks
\* among the places that stay are all of 1..Cardinality.
LEMMA Ranks ==
  ASSUME NEW S, NEW s \in Seq(S), NEW keep
  PROVE  LET at == Kept(s, keep)
             rank == [i \in at |-> Cardinality({j \in at : j <= i})]
         IN  rank \in Bijection(at, 1..Cardinality(at))
<1> DEFINE at == Kept(s, keep)
           below(i) == {j \in at : j <= i}
           rank == [i \in at |-> Cardinality(below(i))]
<1>1. IsFiniteSet(at) /\ Cardinality(at) \in Nat /\ at \subseteq Nat
  <2>1. at \subseteq Nat BY DEF Kept
  <2> HIDE DEF at
  <2> QED BY <2>1, KeptFinite DEF at
<1>2. \A i \in at : /\ IsFiniteSet(below(i)) /\ Cardinality(below(i)) \in Nat
                    /\ Cardinality(below(i)) <= Cardinality(at)
  <2> TAKE i \in at
  <2>1. below(i) \in SUBSET at OBVIOUS
  <2> QED BY <1>1, <2>1, FS_Subset, FS_CardinalityType
<1>3. \A i \in at : Cardinality(below(i)) # 0
  <2> TAKE i \in at
  <2>1. i \in below(i) BY <1>1
  <2> QED BY <1>2, <2>1, FS_EmptySet
<1>4. \A i, k \in at : i < k => Cardinality(below(i)) # Cardinality(below(k))
  <2> SUFFICES ASSUME NEW i \in at, NEW k \in at, i < k,
                      Cardinality(below(i)) = Cardinality(below(k))
               PROVE  FALSE
    OBVIOUS
  <2>1. below(i) \in SUBSET below(k) BY <1>1
  <2>2. k \in below(k) /\ k \notin below(i) BY <1>1
  <2> QED BY <1>2, <2>1, <2>2, FS_Subset
<1>5. rank \in [at -> 1..Cardinality(at)]
  <2> SUFFICES ASSUME NEW i \in at PROVE Cardinality(below(i)) \in 1..Cardinality(at)
    OBVIOUS
  <2> QED BY <1>1, <1>2, <1>3
<1>6. rank \in Injection(at, 1..Cardinality(at))
  <2>1. \A i, k \in at : rank[i] = rank[k] => i = k
    <3> SUFFICES ASSUME NEW i \in at, NEW k \in at, rank[i] = rank[k], i # k
                 PROVE  FALSE
      OBVIOUS
    <3>1. i < k \/ k < i BY <1>1
    <3>2. Cardinality(below(i)) = Cardinality(below(k)) OBVIOUS
    <3> QED BY <1>4, <3>1, <3>2
  <2> QED BY <1>5, <2>1 DEF Injection, IsInjective
<1>7. IsFiniteSet(1..Cardinality(at)) /\ Cardinality(1..Cardinality(at)) = Cardinality(at)
  BY <1>1, FS_Interval
<1>8. rank \in Surjection(at, 1..Cardinality(at))
  BY <1>6, <1>7, FS_Injection
<1> QED BY <1>6, <1>8 DEF Bijection

\* The places in s of what is left: increasing, and all that are kept.
LEMMA KeepingPlaces ==
  ASSUME NEW S, NEW s \in Seq(S), NEW keep
  PROVE  /\ Len(Keeping(s, keep)) = Cardinality(Kept(s, keep))
         /\ Len(Keeping(s, keep)) \in Nat
         /\ \E f \in Bijection(1..Len(Keeping(s, keep)), Kept(s, keep)) :
              Keeping(s, keep) = [n \in 1..Len(Keeping(s, keep)) |-> s[f[n]]]
<1> DEFINE at == Kept(s, keep)
           m == Cardinality(at)
           rank == [i \in at |-> Cardinality({j \in at : j <= i})]
           f == [n \in 1..m |-> CHOOSE i \in at : Cardinality({j \in at : j <= i}) = n]
<1>1. m \in Nat BY KeptFinite
<1>2. rank \in Bijection(at, 1..m) BY Ranks
<1>3. \A n \in 1..m : f[n] \in at /\ rank[f[n]] = n
  <2> TAKE n \in 1..m
  <2>1. \E i \in at : rank[i] = n
    BY <1>2 DEF Bijection, Surjection
  <2>2. \E i \in at : Cardinality({j \in at : j <= i}) = n BY <2>1
  <2> QED BY <2>2
<1>4. f \in [1..m -> at] BY <1>3
<1>5. f \in Injection(1..m, at)
  <2>1. \A n, k \in 1..m : f[n] = f[k] => n = k BY <1>3
  <2> HIDE DEF f
  <2> QED BY <1>4, <2>1 DEF Injection, IsInjective
<1>6. f \in Surjection(1..m, at)
  <2>1. \A i \in at : rank[i] \in 1..m /\ f[rank[i]] \in at /\ rank[f[rank[i]]] = rank[i]
    BY <1>2, <1>3 DEF Bijection, Surjection
  <2>2. \A i \in at : f[rank[i]] = i
    <3> HIDE DEF f, rank, at
    <3> QED BY <1>2, <2>1 DEF Bijection, Injection, IsInjective
  <2> HIDE DEF f, rank, at
  <2> QED BY <1>4, <2>1, <2>2 DEF Surjection
<1>7. Keeping(s, keep) = [n \in 1..m |-> s[f[n]]] BY DEF Keeping
<1>8. Len(Keeping(s, keep)) = m
  <2> HIDE DEF m, f
  <2>1. \A n \in 1..m : s[f[n]] \in S BY <1>4 DEF Kept
  <2> QED BY <1>1, <1>7, <2>1
<1>9. f \in Bijection(1..m, at) BY <1>5, <1>6 DEF Bijection
<1> HIDE DEF f
<1> QED BY <1>1, <1>7, <1>8, <1>9

\* list::remove() and the erase loops leave the elements that are kept, and
\* no others.
THEOREM KeepingElements ==
  ASSUME NEW S, NEW s \in Seq(S), NEW keep
  PROVE  /\ Keeping(s, keep) \in Seq(S)
         /\ Len(Keeping(s, keep)) <= Len(s)
         /\ Range(Keeping(s, keep)) = Range(s) \cap keep
<1> DEFINE r == Keeping(s, keep)
           at == Kept(s, keep)
<1>1. PICK f \in Bijection(1..Len(r), at) : r = [n \in 1..Len(r) |-> s[f[n]]]
  BY KeepingPlaces
<1>2. /\ f \in [1..Len(r) -> at]
      /\ \A i \in at : \E n \in 1..Len(r) : f[n] = i
  BY <1>1 DEF Bijection, Surjection
<1>3. \A i \in at : i \in 1..Len(s) /\ s[i] \in S /\ s[i] \in keep
  BY DEF Kept
<1>4. Len(r) = Cardinality(at) /\ Len(r) \in Nat
  BY KeepingPlaces
<1>5. Len(r) <= Len(s)
  <2>1. at \in SUBSET (1..Len(s)) BY <1>3
  <2>2. IsFiniteSet(1..Len(s)) /\ Cardinality(1..Len(s)) = Len(s) BY Counting
  <2>3. Cardinality(at) <= Cardinality(1..Len(s)) BY <2>1, <2>2, FS_Subset
  <2> QED BY <1>4, <2>2, <2>3
<1>6. \A n \in 1..Len(r) : r[n] = s[f[n]] BY <1>1
<1>7. r \in Seq(S)
  <2> HIDE DEF r, at
  <2> QED BY <1>1, <1>2, <1>3, <1>4, <1>6
<1>8. Range(r) = Range(s) \cap keep
  <2>1. DOMAIN r = 1..Len(r) /\ DOMAIN s = 1..Len(s) BY <1>1
  <2>2. \A x \in Range(r) : x \in Range(s) /\ x \in keep
    BY <1>2, <1>3, <1>6, <2>1 DEF Range
  <2>3. ASSUME NEW x \in Range(s), x \in keep PROVE x \in Range(r)
    <3>1. PICK i \in 1..Len(s) : s[i] = x BY <2>1 DEF Range
    <3>2. i \in at BY <2>3, <3>1 DEF Kept
    <3>3. PICK n \in 1..Len(r) : f[n] = i BY <1>2, <3>2
    <3> QED BY <1>6, <2>1, <3>1, <3>3 DEF Range
  <2> QED BY <2>2, <2>3
<1> QED BY <1>5, <1>7, <1>8

\* A list without duplicates has none when elements are removed from it.
THEOREM KeepingDistinct ==
  ASSUME NEW S, NEW s \in Seq(S), NEW keep, Distinct(s)
  PROVE  Distinct(Keeping(s, keep))
<1> DEFINE r == Keeping(s, keep)
           at == Kept(s, keep)
<1>1. PICK f \in Bijection(1..Len(r), at) : r = [n \in 1..Len(r) |-> s[f[n]]]
  BY KeepingPlaces
<1>2. /\ f \in [1..Len(r) -> at]
      /\ \A n, k \in 1..Len(r) : f[n] = f[k] => n = k
  BY <1>1 DEF Bijection, Injection, IsInjective
<1>3. \A i \in at : i \in 1..Len(s) BY DEF Kept
<1>4. \A n \in 1..Len(r) : r[n] = s[f[n]] BY <1>1
<1> HIDE DEF r, at
<1>5. Distinct(r) BY <1>2, <1>3, <1>4 DEF Distinct
<1> QED BY <1>5 DEF r

-----------------------------------------------------------------------------
(* push_back(), pop_front(), pop_back() *)

\* A list without duplicates has as many elements as it is long.
THEOREM DistinctLength ==
  ASSUME NEW S, NEW s \in Seq(S)
  PROVE  /\ IsFiniteSet(Range(s))
         /\ Cardinality(Range(s)) \in Nat
         /\ Cardinality(Range(s)) <= Len(s)
         /\ Distinct(s) => Cardinality(Range(s)) = Len(s)
<1>1. DOMAIN s = 1..Len(s) /\ Len(s) \in Nat OBVIOUS
<1>2. IsFiniteSet(1..Len(s)) /\ Cardinality(1..Len(s)) = Len(s) BY Counting
<1>3. s \in Surjection(1..Len(s), Range(s))
  BY <1>1 DEF Surjection, Range
<1>4. IsFiniteSet(Range(s)) BY <1>2, <1>3, FS_Surjection
<1>5. Cardinality(Range(s)) \in Nat BY <1>4, FS_CardinalityType
<1>6. Distinct(s) => s \in Injection(1..Len(s), Range(s))
  BY <1>1, <1>3 DEF Distinct, Injection, IsInjective, Surjection
<1> QED BY <1>2, <1>3, <1>4, <1>5, <1>6, FS_Surjection

\* push_back() adds one element, at the end.
THEOREM AppendElements ==
  ASSUME NEW S, NEW s \in Seq(S), NEW x \in S
  PROVE  /\ Append(s, x) \in Seq(S)
         /\ Len(Append(s, x)) = Len(s) + 1
         /\ Range(Append(s, x)) = Range(s) \cup {x}
         /\ Distinct(s) /\ x \notin Range(s) => Distinct(Append(s, x))
<1>1. /\ Append(s, x) \in Seq(S) /\ Len(Append(s, x)) = Len(s) + 1
      /\ \A i \in 1..Len(s) : Append(s, x)[i] = s[i]
      /\ Append(s, x)[Len(s) + 1] = x
      /\ DOMAIN s = 1..Len(s) /\ DOMAIN Append(s, x) = 1..(Len(s) + 1)
  OBVIOUS
<1>2. Range(Append(s, x)) = Range(s) \cup {x}
  BY <1>1 DEF Range
<1>3. Distinct(s) /\ x \notin Range(s) => Distinct(Append(s, x))
  BY <1>1 DEF Range, Distinct
<1> QED BY <1>1, <1>2, <1>3

\* The threads that fill() adds one by one, all at once.
THEOREM ConcatElements ==
  ASSUME NEW S, NEW s \in Seq(S), NEW t \in Seq(S)
  PROVE  /\ s \o t \in Seq(S)
         /\ Len(s \o t) = Len(s) + Len(t)
         /\ Range(s \o t) = Range(s) \cup Range(t)
         /\ Distinct(s) /\ Distinct(t) /\ Range(s) \cap Range(t) = {} => Distinct(s \o t)
<1>1. /\ s \o t \in Seq(S) /\ Len(s \o t) = Len(s) + Len(t)
      /\ DOMAIN s = 1..Len(s) /\ DOMAIN t = 1..Len(t)
      /\ DOMAIN (s \o t) = 1..(Len(s) + Len(t))
      /\ \A i \in 1..Len(s) : (s \o t)[i] = s[i]
      /\ \A i \in 1..Len(t) : (s \o t)[Len(s) + i] = t[i]
  OBVIOUS
<1>2. \A i \in 1..(Len(s) + Len(t)) : i \notin 1..Len(s) =>
        i - Len(s) \in 1..Len(t) /\ (s \o t)[i] = t[i - Len(s)]
  BY <1>1
<1>3. Range(s \o t) = Range(s) \cup Range(t)
  <2>1. Range(s \o t) \subseteq Range(s) \cup Range(t) BY <1>1, <1>2 DEF Range
  <2>2. Range(s) \subseteq Range(s \o t) BY <1>1 DEF Range
  <2>3. ASSUME NEW y \in Range(t) PROVE y \in Range(s \o t)
    <3>1. PICK i \in 1..Len(t) : t[i] = y BY <1>1 DEF Range
    <3>2. Len(s) + i \in DOMAIN (s \o t) BY <1>1
    <3> QED BY <1>1, <3>1, <3>2 DEF Range
  <2> QED BY <2>1, <2>2, <2>3
<1>4. ASSUME Distinct(s), Distinct(t), Range(s) \cap Range(t) = {}
      PROVE  Distinct(s \o t)
  <2> SUFFICES ASSUME NEW i \in 1..(Len(s) + Len(t)), NEW j \in 1..(Len(s) + Len(t)),
                      (s \o t)[i] = (s \o t)[j]
               PROVE  i = j
    BY <1>1 DEF Distinct
  <2>1. \A k \in 1..Len(s), l \in 1..Len(t) : s[k] # t[l]
    BY <1>1, <1>4 DEF Range
  <2> QED BY <1>1, <1>2, <1>4, <2>1 DEF Distinct
<1> QED BY <1>1, <1>3, <1>4

\* pop_front(): what was first is gone from a list without duplicates.
THEOREM TailElements ==
  ASSUME NEW S, NEW s \in Seq(S), s # << >>
  PROVE  /\ Tail(s) \in Seq(S) /\ Head(s) \in S
         /\ Len(Tail(s)) = Len(s) - 1
         /\ Range(s) = Range(Tail(s)) \cup {Head(s)}
         /\ Distinct(s) => Distinct(Tail(s)) /\ Head(s) \notin Range(Tail(s))
<1>1. /\ Tail(s) \in Seq(S) /\ Head(s) \in S /\ Head(s) = s[1]
      /\ Len(Tail(s)) = Len(s) - 1 /\ Len(s) \in Nat /\ Len(s) # 0
      /\ DOMAIN s = 1..Len(s) /\ DOMAIN Tail(s) = 1..(Len(s) - 1)
      /\ \A i \in 1..(Len(s) - 1) : Tail(s)[i] = s[i + 1]
  OBVIOUS
<1>2. Range(Tail(s)) \cup {Head(s)} \subseteq Range(s)
  BY <1>1 DEF Range
<1>3. ASSUME NEW y \in Range(s), y # Head(s) PROVE y \in Range(Tail(s))
  <2>1. PICK i \in 1..Len(s) : s[i] = y BY <1>1 DEF Range
  <2>2. i - 1 \in 1..(Len(s) - 1) /\ Tail(s)[i - 1] = y BY <1>1, <1>3, <2>1
  <2> QED BY <1>1, <2>2 DEF Range
<1>4. ASSUME Distinct(s) PROVE Distinct(Tail(s)) /\ Head(s) \notin Range(Tail(s))
  <2>1. \A i, j \in 1..(Len(s) - 1) : Tail(s)[i] = Tail(s)[j] => i + 1 = j + 1
    BY <1>1, <1>4 DEF Distinct
  <2>2. \A i \in 1..(Len(s) - 1) : Tail(s)[i] # s[1]
    <3> TAKE i \in 1..(Len(s) - 1)
    <3>1. i + 1 \in 1..Len(s) /\ 1 \in 1..Len(s) /\ i + 1 # 1 BY <1>1
    <3> QED BY <1>1, <1>4, <3>1 DEF Distinct
  <2> QED BY <1>1, <2>1, <2>2 DEF Distinct, Range
<1> QED BY <1>1, <1>2, <1>3, <1>4

\* pop_back(): what was last is gone from a list without duplicates.
THEOREM FrontElements ==
  ASSUME NEW S, NEW s \in Seq(S), Len(s) > 0
  PROVE  LET front == SubSeq(s, 1, Len(s) - 1)
             last == s[Len(s)]
         IN  /\ front \in Seq(S) /\ last \in S
             /\ Len(front) = Len(s) - 1
             /\ Range(s) = Range(front) \cup {last}
             /\ Distinct(s) => Distinct(front) /\ last \notin Range(front)
<1> DEFINE front == SubSeq(s, 1, Len(s) - 1)
           last == s[Len(s)]
<1>1. /\ front \in Seq(S) /\ last \in S
      /\ Len(front) = Len(s) - 1 /\ Len(s) \in Nat
      /\ DOMAIN s = 1..Len(s) /\ DOMAIN front = 1..(Len(s) - 1)
      /\ \A i \in 1..(Len(s) - 1) : front[i] = s[i]
  OBVIOUS
<1> HIDE DEF front
<1>2. \A i \in 1..Len(s) : i = Len(s) \/ i \in 1..(Len(s) - 1) BY <1>1
<1>3. \A i \in 1..(Len(s) - 1) : i \in 1..Len(s) /\ i # Len(s) BY <1>1
<1>4. Len(s) \in 1..Len(s) BY <1>1
<1>5. Range(s) = Range(front) \cup {last}
  BY <1>1, <1>2, <1>3, <1>4 DEF Range
<1>6. Distinct(s) => Distinct(front) /\ last \notin Range(front)
  BY <1>1, <1>3, <1>4, SMTT(20) DEF Distinct, Range
<1> QED BY <1>1, <1>5, <1>6 DEF front
=============================================================================
