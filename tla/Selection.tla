----------------------------- MODULE Selection -----------------------------
(***************************************************************************)
(* The part of a list at some of its places, in order: what a loop leaves  *)
(* that appends the entries passing a test.  SelectSeq and SetToSortSeq    *)
(* give the same; counting is what can be reasoned about place by place.   *)
(***************************************************************************)
EXTENDS Integers, Sequences, FiniteSets

\* Where x stands among the numbers S, and the number that stands k-th.
Rank(S, x) == Cardinality({y \in S : y <= x})
Nth(S, k)  == CHOOSE x \in S : Rank(S, x) = k

\* The entries of list at the places S.
Picked(list, S) == [k \in 1..Cardinality(S) |-> list[Nth(S, k)]]
=============================================================================
