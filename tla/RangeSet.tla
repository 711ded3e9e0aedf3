------------------------------ MODULE RangeSet ------------------------------
(***************************************************************************)
(* ObTools::Misc::RangeSet (libs/misc/ot-misc.h): a set of integers kept   *)
(* as ranges ordered by start, with insert(), remove(), inverse() and      *)
(* contains().  Offsets and lengths are unsigned numbers of one width, so  *)
(* that a subtraction below zero wraps.                                    *)
(*                                                                         *)
(* members is the set that the ranges stand for by the class's comments.   *)
(***************************************************************************)
EXTENDS Naturals, FiniteSets

CONSTANTS MaxOffset,    \* bound on the offsets inserted and removed
          OffsetSize    \* number of values of the offset type

ASSUME OffsetAssumption ==
  MaxOffset \in Nat /\ OffsetSize \in Nat /\ 2 * MaxOffset + 2 < OffsetSize

VARIABLES ranges,       \* set of Range, no two with the same start
          end_offset,
          members

svars == <<ranges, end_offset, members>>

NoRange == [start |-> OffsetSize, length |-> 0]     \* ranges.end()

Plus(a, b) == (a + b) % OffsetSize
Minus(a, b) == (a + OffsetSize - b) % OffsetSize
Least(a, b) == IF a < b THEN a ELSE b
Greatest(a, b) == IF a > b THEN a ELSE b

RangeOf(s, l) == [start |-> s, length |-> l]
End(r) == Plus(r.start, r.length)
Span(s, e) == RangeOf(s, Minus(e, s))

Merge(a, b) == Span(Least(a.start, b.start), Greatest(End(a), End(b)))

\* Overlaps in any way, including at the edge.
OverlapsWith(a, b) ==
  \/ a.start <= b.start /\ End(a) >= b.start
  \/ a.start <= End(b) /\ End(a) >= End(b)
  \/ a.start >= b.start /\ End(a) <= End(b)

ContainedBy(a, b) == a.start >= b.start /\ End(a) <= End(b)
StartOverlappedBy(a, b) == a.start >= b.start /\ a.start < End(b)
EndOverlappedBy(a, b) == End(a) > b.start /\ End(a) <= End(b)

-----------------------------------------------------------------------------
(* The ordered set: only starts are compared *)

Put(R, r) == IF \E x \in R : x.start = r.start THEN R ELSE R \cup {r}

\* The first range of R that starts at s or later, and the last before it.
From(R, s) ==
  IF \E x \in R : x.start >= s
  THEN CHOOSE x \in R : x.start >= s /\ \A y \in R : y.start >= s => x.start <= y.start
  ELSE NoRange
Before(R, s) == CHOOSE x \in R : x.start < s /\ \A y \in R : y.start < s => y.start <= x.start
Follows(R, x) == From(R, x.start + 1)

\* The range that starts at s or, if there is one, the last that starts before.
Nearest(R, s) ==
  IF From(R, s).start # s /\ \E x \in R : x.start < s THEN Before(R, s) ELSE From(R, s)

-----------------------------------------------------------------------------
\* The loop of insert(): a range that overlaps with the new one is taken out
\* and becomes part of it, until one does not.
AbsorbOne(p) ==
  IF p.it = NoRange \/ ~ OverlapsWith(p.it, p.new)
  THEN p
  ELSE [set |-> p.set \ {p.it}, it |-> Follows(p.set, p.it), new |-> Merge(p.new, p.it)]

\* Every turn goes to a range that starts later, so that OffsetSize are enough.
Absorb(R, first, r) ==
  LET turns[n \in 0 .. OffsetSize] ==
        IF n = 0 THEN [set |-> R, it |-> first, new |-> r] ELSE AbsorbOne(turns[n - 1])
  IN turns[OffsetSize]

\* insert(): a nearest range that ends before the new one is left alone.
\* Mutant: it is not.
Stays(R, s) == Nearest(R, s)

Begin(R, s) ==
  LET it == Nearest(R, s)
  IN IF it.start < s /\ End(it) < s THEN Follows(R, it) ELSE it

Insert(s, l) ==
  LET end == Absorb(ranges, Begin(ranges, s), RangeOf(s, l))
  IN /\ ranges' = Put(end.set, end.new)
     /\ end_offset' = Greatest(end_offset, End(end.new))
     /\ members' = members \cup (s .. s + l - 1)

\* remove(): what is left of a range that overlaps with b.
Remains(R, it, b) ==
  CASE ContainedBy(it, b) -> R
    [] ~ContainedBy(it, b) /\ StartOverlappedBy(it, b) ->
         Put(R, Span(Greatest(it.start, End(b)), End(it)))
    [] ~ContainedBy(it, b) /\ ~StartOverlappedBy(it, b) /\ EndOverlappedBy(it, b) ->
         Put(R, Span(it.start, Least(End(it), b.start)))
    [] OTHER -> Put(Put(R, Span(it.start, b.start)), Span(End(b), End(it)))

EatOne(p, b) ==
  IF p.it = NoRange \/ ~ OverlapsWith(p.it, b)
  THEN p
  ELSE [set |-> Remains(p.set \ {p.it}, p.it, b), it |-> Follows(p.set, p.it)]

Eat(R, first, b) ==
  LET turns[n \in 0 .. OffsetSize] ==
        IF n = 0 THEN [set |-> R, it |-> first] ELSE EatOne(turns[n - 1], b)
  IN turns[OffsetSize]

Remove(s, l) ==
  /\ ranges' = Eat(ranges, Nearest(ranges, s), RangeOf(s, l)).set
  /\ members' = members \ (s .. s + l - 1)
  /\ UNCHANGED end_offset

\* inverse(): the holes between one range and the next, up to end_offset.
RangeInverse ==
  {Span(End(r), Follows(ranges, r).start) : r \in {x \in ranges : Follows(ranges, x) # NoRange}}
  \cup {RangeOf(0, r.start) : r \in {x \in ranges : x = From(ranges, 0) /\ x.start > 0}}
  \cup {Span(End(r), end_offset) :
          r \in {x \in ranges : Follows(ranges, x) = NoRange /\ end_offset > End(x)}}
  \cup (IF ranges = {} /\ end_offset > 0 THEN {RangeOf(0, end_offset)} ELSE {})

Contains(s, l) == \E r \in ranges : ContainedBy(RangeOf(s, l), r)

Clear ==
  /\ ranges' = {} /\ members' = {}
  /\ UNCHANGED end_offset

-----------------------------------------------------------------------------
RSInit == ranges = {} /\ end_offset \in {0, MaxOffset} /\ members = {}

Offsets == 0 .. MaxOffset
Lengths(s) == 1 .. MaxOffset + 1 - s

\* Where remove() is exact: no range ends or starts at an edge of [s, s + l),
\* and the search for the first range ends at one that overlaps with it.
Exactly(s, l) ==
  /\ \A r \in ranges : End(r) # s /\ r.start # s + l
  /\ \/ \A r \in ranges : r.start >= s
     \/ \E r \in ranges : r.start <= s /\ s < End(r)

RSNext ==
  \/ \E s \in Offsets : \E l \in Lengths(s) : Insert(s, l) \/ (Exactly(s, l) /\ Remove(s, l))
  \/ Clear

RSNextAny ==
  \/ \E s \in Offsets : \E l \in Lengths(s) : Insert(s, l) \/ Remove(s, l)
  \/ Clear

RSSpec == RSInit /\ [][RSNext]_svars
RSSpecAny == RSInit /\ [][RSNextAny]_svars

-----------------------------------------------------------------------------
Values(R) == UNION {r.start .. r.start + r.length - 1 : r \in R}

\* The ranges stand for the set that was asked for, in the only way that the
\* list allows: no two of them overlap or touch, which contains() relies on;
\* inverse() is the complement up to end_offset.
RangesExact ==
  /\ Values(ranges) = members
  /\ \A r \in ranges : r.length > 0 /\ \A x \in ranges \ {r} :
       r.start > x.start + x.length \/ x.start > r.start + r.length
  /\ \A s \in Offsets : \A l \in Lengths(s) : Contains(s, l) <=> (s .. s + l - 1) \subseteq members
  /\ end_offset > 0 => Values(RangeInverse) = (0 .. end_offset - 1) \ members

\* remove() takes away the range given and nothing else.
RemoveIsDifference == Values(ranges) = members
=============================================================================
