----------------------------- MODULE Subsequence -----------------------------
(***************************************************************************)
(* A sequence filtered by position.  (SelectSeq is recursive, and nothing  *)
(* can be proved about what it returns.)                                   *)
(***************************************************************************)
EXTENDS Naturals, FiniteSets, Sequences

\* The position in I that n - 1 of I come before.
Nth(I, n) == CHOOSE i \in I : Cardinality({j \in I : j <= i}) = n

\* The elements of s at the positions in I, in their order.
Picked(s, I) == [n \in 1..Cardinality(I) |-> s[Nth(I, n)]]
=============================================================================
