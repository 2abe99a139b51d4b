------------------------------- MODULE Sorting -------------------------------
(***************************************************************************)
(* Python's sorted, of distinct elements under a strict total order.       *)
(***************************************************************************)
EXTENDS Integers, FiniteSets

\* At place k stands the element that k - 1 others come before.
Sorted(S, before(_,_)) ==
    [k \in 1..Cardinality(S) |->
        CHOOSE x \in S : Cardinality({y \in S : before(y, x)}) = k - 1]
=============================================================================
