------------------------------ MODULE Selection ------------------------------
(***************************************************************************)
(* What a query or a filter returns: the chosen elements, in their order.  *)
(* Defined by the rank of each element rather than by recursion or with    *)
(* SelectSeq, so that it can be reasoned about.                            *)
(***************************************************************************)
EXTENDS FiniteSets, Integers, Sequences

\* The numbers of a finite set as a sequence, the smallest first.
InOrder(R) ==
    [n \in 1 .. Cardinality(R) |->
        CHOOSE r \in R : Cardinality({q \in R : q <= r}) = n]

\* The elements of a sequence that belong to a set, in the order they have.
Those(s, T) ==
    LET places == InOrder({i \in DOMAIN s : s[i] \in T})
    IN  [n \in DOMAIN places |-> s[places[n]]]
=============================================================================
