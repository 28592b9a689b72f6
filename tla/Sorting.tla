------------------------------ MODULE Sorting ------------------------------
(* A set in the order of a strict total order on its elements, given as the   *)
(* set of its pairs.  SetToSortSeq tries every sequence of the set: too slow  *)
(* beyond a few elements.                                                     *)
EXTENDS Naturals, FiniteSets

Sorted(S, order) ==
  [k \in 1 .. Cardinality(S) |->
     CHOOSE x \in S : Cardinality({y \in S : <<y, x>> \in order}) = k - 1]
=============================================================================
