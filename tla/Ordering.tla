------------------------------ MODULE Ordering ------------------------------
(***************************************************************************)
(* A finite set as a sequence in the order of Before, a strict total order *)
(* of its elements: what `sort_by` makes of rows no two of which compare   *)
(* equal.  The k-th element is the one with k - 1 others before it, which  *)
(* can be reasoned about, as the permutation that TLC's SortSeq chooses    *)
(* cannot.  Enumerated takes the order as the function from each element   *)
(* to the set of those before it.                                          *)
(***************************************************************************)
EXTENDS Integers, FiniteSets

Arranged(S, Before(_, _)) ==
    [k \in 1 .. Cardinality(S) |->
        CHOOSE x \in S : Cardinality({y \in S : Before(y, x)}) = k - 1]

Enumerated(before) ==
    [k \in 1 .. Cardinality(DOMAIN before) |->
        CHOOSE x \in DOMAIN before : Cardinality(before[x]) = k - 1]

=============================================================================
