----------------------------- MODULE Subsequence -----------------------------
(* The part of a sequence that stands at the positions I, in its order.    *)
EXTENDS Integers, Sequences, FiniteSets

Nth(I, j) == CHOOSE i \in I : Cardinality({ h \in I : h <= i }) = j
Kept(q, I) == [j \in 1 .. Cardinality(I) |-> q[Nth(I, j)]]
=============================================================================
