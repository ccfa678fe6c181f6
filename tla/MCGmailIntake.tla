---------------------------- MODULE MCGmailIntake ----------------------------
(***************************************************************************)
(* Instances of GmailIntake for TLC.                                       *)
(***************************************************************************)
EXTENDS GmailIntake, TLC

CONSTANTS m1, m2, m3, h1, h2, c1

\* Two of the faults are combined, not three.
FewFaults == duplicates + crashes + errands + expiries <= 2

Symmetry == Permutations(Handler) \cup Permutations(Mail \ Own)
=============================================================================
