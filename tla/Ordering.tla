------------------------------ MODULE Ordering ------------------------------
(***************************************************************************)
(* Sorting, filtering and limits, stated by what comes before an element   *)
(* (the sort package and the loops that append what passes a test).  The   *)
(* library's SortSeq and SelectSeq mean the same and are opaque to the     *)
(* provers; and SortSeq is not defined where elements tie.                 *)
(***************************************************************************)
EXTENDS Integers, FiniteSets

\* The elements of S in the order of Before, which is strict and total.
Ordered(S, Before(_, _)) ==
    [n \in 1..Cardinality(S) |-> CHOOSE x \in S : Cardinality({ y \in S : Before(y, x) }) = n - 1]

\* The elements of q at the positions I, in their order.
Picked(q, I) ==
    LET at == Ordered(I, <) IN [n \in 1..Cardinality(I) |-> q[at[n]]]

\* The first elements of q, up to a limit.
Limited(q, limit) == [n \in { m \in DOMAIN q : m <= limit } |-> q[n]]
=============================================================================
