------------------------------- MODULE Lists --------------------------------
(***************************************************************************)
(* Removing elements from a std::list or std::vector, as sequences.        *)
(*                                                                         *)
(* Keeping(s, keep) is SelectSeq(s, LAMBDA x : x \in keep), defined        *)
(* through the places of the elements that stay instead of by recursion,   *)
(* so that theorems can be proved about it (ListTheorems).                 *)
(***************************************************************************)
EXTENDS Naturals, Sequences, FiniteSets

Kept(s, keep) == {i \in 1..Len(s) : s[i] \in keep}

\* What is left of s when every element outside keep is removed, in order.
Keeping(s, keep) ==
  [n \in 1..Cardinality(Kept(s, keep)) |->
     s[CHOOSE i \in Kept(s, keep) : Cardinality({j \in Kept(s, keep) : j <= i}) = n]]
=============================================================================
