-------------------------- MODULE MCEmailAssistant --------------------------
(***************************************************************************)
(* Instances of EmailAssistant for TLC.                                    *)
(***************************************************************************)
EXTENDS EmailAssistant, TLC

CONSTANTS e1, w1, w2, r1, r2, c1, k1, k2, u1, u2

Symmetry == Permutations({k1, k2}) \cup Permutations(RunId)
=============================================================================
