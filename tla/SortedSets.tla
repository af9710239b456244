----------------------------- MODULE SortedSets -----------------------------
(***************************************************************************)
(* Sorting, as sort.Slice does it under an order that is total on the set. *)
(***************************************************************************)
EXTENDS Integers, FiniteSets

\* The elements of S from the first to the last.
Sorted(S, Before(_, _)) ==
  [k \in 1 .. Cardinality(S) |->
    CHOOSE x \in S : Cardinality({y \in S : Before(y, x)}) = k - 1]

=============================================================================
