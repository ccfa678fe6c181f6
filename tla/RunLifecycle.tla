---------------------------- MODULE RunLifecycle ----------------------------
(***************************************************************************)
(* What the product promises of one row of workflow_runs: it is created    *)
(* pending, a worker settles it, a run that waits for a person is          *)
(* completed by that person, and a settled run is not worked on again.     *)
(* Runs disappear only with the connector or the workflow they came from.  *)
(* A run two workers have taken at the same time is disputed: the promise  *)
(* says nothing more about it.                                             *)
(* The statuses are those of WorkflowRunStatus; "retrying" is declared     *)
(* there and no code sets it.                                              *)
(***************************************************************************)
CONSTANT RunId

VARIABLE status

Status == {"absent", "pending", "awaiting_action", "completed", "skipped",
           "failed", "deleted", "disputed"}

\* The pairs of statuses a run may move between.
Allowed ==
  { <<"absent", "pending">>,
    <<"pending", "awaiting_action">>, <<"pending", "completed">>,
    <<"pending", "skipped">>, <<"pending", "failed">>,
    <<"awaiting_action", "completed">> }
  \cup { <<s, "deleted">> : s \in Status \ {"absent", "disputed"} }
  \cup { <<s, "disputed">> : s \in Status \ {"absent"} }

LifecycleInit == status = [r \in RunId |-> "absent"]

\* One database statement may delete several runs; any other changes one.
Advance(r) ==
  \E s \in Status :
    /\ <<status[r], s>> \in Allowed
    /\ status' = [status EXCEPT ![r] = s]

Remove(S) ==
  /\ \A r \in S : status[r] \notin {"absent", "disputed"}
  /\ status' = [r \in RunId |-> IF r \in S THEN "deleted" ELSE status[r]]

LifecycleNext ==
  \/ \E r \in RunId : Advance(r)
  \/ \E S \in SUBSET RunId : Remove(S)

LifecycleSpec == LifecycleInit /\ [][LifecycleNext]_status
=============================================================================
