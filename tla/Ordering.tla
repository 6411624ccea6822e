------------------------------ MODULE Ordering ------------------------------
(***************************************************************************)
(* What loops over a listing read: its places in order, and what is at     *)
(* those that are kept.                                                    *)
(***************************************************************************)
EXTENDS Integers, FiniteSets

\* The members of a set of numbers in their order, and what s has at them.
Nth(I, k) == CHOOSE i \in I : Cardinality({j \in I : j <= i}) = k
InOrder(I) == [k \in 1 .. Cardinality(I) |-> Nth(I, k)]
Among(s, I) == [k \in 1 .. Cardinality(I) |-> s[Nth(I, k)]]

=============================================================================
