-------------------------------- MODULE Ordered --------------------------------
(***************************************************************************)
(* Finite sets put in order.  The elements are counted instead of permuted *)
(* (as SortSeq of the TLC module does), which a proof can follow.          *)
(***************************************************************************)
EXTENDS Naturals, FiniteSets

\* The elements of S by their keys, a function on S: the one with rank i is i-th.
SortedBy(S, key) ==
    [i \in 1..Cardinality(S) |->
       CHOOSE x \in S : Cardinality({y \in S : key[y] <= key[x]}) = i]

\* Numbers, smallest first.
InOrder(S) == SortedBy(S, [x \in S |-> x])
================================================================================
