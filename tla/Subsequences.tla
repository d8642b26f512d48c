---------------------------- MODULE Subsequences ----------------------------
(***************************************************************************)
(* What std::remove_if, erase_if and copying the elements that pass a test *)
(* leave of a sequence: the elements at some of its positions, in their    *)
(* order.  It is what SelectSeq does, with the set of positions in place   *)
(* of the test and without recursion, so that it can be reasoned about.    *)
(***************************************************************************)
EXTENDS Naturals, FiniteSets

Increasing(at) == \A m, n \in DOMAIN at : m < n => at[m] < at[n]

(* The positions I in increasing order.                                    *)
Enumeration(I) == CHOOSE at \in [1..Cardinality(I) -> I] : Increasing(at)

(* The elements of q at the positions I.                                   *)
Pick(q, I) == LET at == Enumeration(I) IN [n \in DOMAIN at |-> q[at[n]]]
=============================================================================
