------------------------ MODULE MCWorkflowInstances ------------------------
(* Model values for WorkflowInstances. *)
EXTENDS WorkflowInstances, TLC

CONSTANTS f1, f2, u1, u2

Symmetry == Permutations(Workflow) \cup Permutations(User)
=============================================================================
