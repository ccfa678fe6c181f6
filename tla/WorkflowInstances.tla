-------------------------- MODULE WorkflowInstances --------------------------
(***************************************************************************)
(* The scraper instance of a workflow.  A workflow that is not stopped and *)
(* has connectors gets an instance at AWS Lightsail, whose name is made    *)
(* from the workflow's id, and whose row remembers that name.  Every       *)
(* request reads the row, asks AWS for what it needs and then saves the    *)
(* row as it has it in memory; another request, or the end of the process, *)
(* may come between any two of these steps.  A new instance is configured  *)
(* by a timer of the process that created it.                              *)
(***************************************************************************)
EXTENDS Naturals

CONSTANTS
  Workflow,    \* workflows with a scraping configuration
  User,        \* members of the team, each with one request at a time
  AwsMayFail,  \* AWS, or the login to an instance, may refuse
  MaxCrashes,
  None

ASSUME ConstantsAssumption ==
  AwsMayFail \in BOOLEAN /\ MaxCrashes \in Nat /\ None \notin Workflow

VARIABLES
  row,         \* workflows
  machine,     \* AWS: the instance that has the workflow's name, and whether
               \* its setup has been tried
  timer,       \* workflows whose new instance is to be configured
  request,     \* what each user has asked for
  crashes,
  contended,   \* history: workflows two requests have worked on at once
  cut,         \* history: workflows whose request died after its AWS call
  forgot       \* history: workflows whose timer died

vars == <<row, machine, timer, request, crashes, contended, cut, forgot>>

-----------------------------------------------------------------------------
Row == [ state    : {"unused", "stored", "deleted"},    \* of its id
         stopped  : BOOLEAN,
         instance : BOOLEAN,    \* lightSailInstanceId is set
         linked   : BOOLEAN ]   \* some connector is linked

NewRow == [state |-> "stored", stopped |-> FALSE, instance |-> FALSE, linked |-> FALSE]
NoRow(state) == [NewRow EXCEPT !.state = state]

Request == [ pc   : {"idle", "provision", "destroy", "save", "remove", "deploy"},
             op   : {"none", "update", "stop", "start", "delete", "deploy"},
             on   : Workflow \cup {None},
             snap : Row,
             todo : SUBSET Workflow ]

NoRequest == [pc |-> "idle", op |-> "none", on |-> None, snap |-> NewRow, todo |-> {}]

TypeOK ==
  /\ row \in [Workflow -> Row]
  /\ machine \in [Workflow -> {"none", "bare", "tried"}]
  /\ timer \subseteq Workflow
  /\ request \in [User -> Request]
  /\ crashes \in 0 .. MaxCrashes
  /\ contended \subseteq Workflow /\ cut \subseteq Workflow /\ forgot \subseteq Workflow
  /\ \A u \in User : request[u].pc \notin {"idle", "deploy"} => request[u].on # None

Init ==
  /\ row = [f \in Workflow |-> NoRow("unused")]
  /\ machine = [f \in Workflow |-> "none"]
  /\ timer = {}
  /\ request = [u \in User |-> NoRequest]
  /\ crashes = 0
  /\ contended = {} /\ cut = {} /\ forgot = {}

-----------------------------------------------------------------------------
(* Reading the row *)

CreateWorkflow(f) ==
  /\ row[f].state = "unused"
  /\ row' = [row EXCEPT ![f] = NewRow]
  /\ UNCHANGED <<machine, timer, request, crashes, contended, cut, forgot>>

Working(f) == \E u \in User : request[u].on = f

Start(u, f, op, x, pc) ==
  /\ request[u].pc = "idle"
  /\ row[f].state = "stored"
  /\ request' = [request EXCEPT ![u] = [pc |-> pc, op |-> op, on |-> f, snap |-> x,
                                        todo |-> {}]]
  /\ contended' = IF Working(f) THEN contended \cup {f} ELSE contended
  /\ UNCHANGED <<row, machine, timer, crashes, cut, forgot>>

\* ensureLightsailInstance asks AWS only for a workflow that is to run, has
\* connectors and has no instance yet.
NeedsInstanceAlways(x) == x.linked    \* faulty: also when it has one
NeedsInstance(x) == ~ x.stopped /\ ~ x.instance /\ x.linked

AfterEnsure(x) == IF NeedsInstance(x) THEN "provision" ELSE "save"

UpdateRestarts(u, f) ==    \* faulty: an edit starts the workflow as well
  LET x == [row[f] EXCEPT !.linked = TRUE, !.stopped = FALSE] IN
  Start(u, f, "update", x, AfterEnsure(x))

\* An edit may link connectors or remove them.
UpdateSteps(u, f) ==
  \E linked \in BOOLEAN :
    LET x == [row[f] EXCEPT !.linked = linked] IN
    Start(u, f, "update", x, AfterEnsure(x))

StartWorkflow(u, f) ==
  LET x == [row[f] EXCEPT !.stopped = FALSE] IN
  Start(u, f, "start", x, AfterEnsure(x))

StopWorkflow(u, f) ==
  Start(u, f, "stop", [row[f] EXCEPT !.stopped = TRUE],
        IF row[f].instance THEN "destroy" ELSE "save")

DeleteWorkflow(u, f) ==
  Start(u, f, "delete", row[f], IF row[f].instance THEN "destroy" ELSE "remove")

-----------------------------------------------------------------------------
(* The AWS call and the save *)

Answer(u) == request' = [request EXCEPT ![u] = NoRequest]

\* The name of an instance is unique: creating one that exists fails, and the
\* request with it.
Provision(u) ==
  LET f == request[u].on IN
  /\ request[u].pc = "provision"
  /\ \/ /\ machine[f] = "none"
        /\ machine' = [machine EXCEPT ![f] = "bare"]
        /\ timer' = timer \cup {f} /\ forgot' = forgot \ {f}
        /\ request' = [request EXCEPT ![u].pc = "save", ![u].snap.instance = TRUE]
     \/ /\ machine[f] # "none" \/ AwsMayFail
        /\ Answer(u)
        /\ UNCHANGED <<machine, timer, forgot>>
  /\ UNCHANGED <<row, crashes, contended, cut>>

\* So does deleting an instance that is not there.
Destroy(u) ==
  LET f == request[u].on IN
  /\ request[u].pc = "destroy"
  /\ \/ /\ machine[f] # "none"
        /\ machine' = [machine EXCEPT ![f] = "none"]
        /\ request' = [request EXCEPT
                         ![u].pc = IF request[u].op = "stop" THEN "save" ELSE "remove",
                         ![u].snap.instance = FALSE]
     \/ /\ machine[f] = "none" \/ AwsMayFail
        /\ Answer(u)
        /\ UNCHANGED machine
  /\ UNCHANGED <<row, timer, crashes, contended, cut, forgot>>

SaveForgets(u) ==    \* faulty: an instance is not remembered
  /\ request[u].pc = "save"
  /\ row' = [row EXCEPT ![request[u].on] = [request[u].snap EXCEPT !.instance = FALSE]]
  /\ Answer(u)
  /\ UNCHANGED <<machine, timer, crashes, contended, cut, forgot>>

\* The entity is saved whole, and inserted again when its row is gone.
Save(u) ==
  /\ request[u].pc = "save"
  /\ row' = [row EXCEPT ![request[u].on] = request[u].snap]
  /\ Answer(u)
  /\ UNCHANGED <<machine, timer, crashes, contended, cut, forgot>>

Remove(u) ==
  /\ request[u].pc = "remove"
  /\ row' = [row EXCEPT ![request[u].on] = NoRow("deleted")]
  /\ Answer(u)
  /\ UNCHANGED <<machine, timer, crashes, contended, cut, forgot>>

-----------------------------------------------------------------------------
(* Configuring instances *)

\* The setup script runs on the instance, if there is one; it may fail at the
\* login or half way, and its outcome is not recorded.
RunSetup(f) == machine' = [machine EXCEPT ![f] = IF @ = "none" THEN @ ELSE "tried"]

\* The timer fires; an error is logged.
Configure(f) ==
  /\ f \in timer
  /\ timer' = timer \ {f}
  /\ RunSetup(f)
  /\ UNCHANGED <<row, request, crashes, contended, cut, forgot>>

\* Deploying refreshes the instances of all workflows that were not stopped
\* when it began, one after the other; the first error ends it.
DeployAllScrapers(u) ==
  /\ request[u].pc = "idle"
  /\ request' = [request EXCEPT ![u] =
       [NoRequest EXCEPT !.pc = "deploy", !.op = "deploy",
          !.todo = {f \in Workflow : /\ row[f].state = "stored"
                                    /\ ~ row[f].stopped /\ row[f].instance}]]
  /\ UNCHANGED <<row, machine, timer, crashes, contended, cut, forgot>>

Refresh(u) ==
  /\ request[u].pc = "deploy"
  /\ \/ /\ request[u].todo = {}
        /\ Answer(u)
        /\ UNCHANGED machine
     \/ \E f \in request[u].todo :
          /\ RunSetup(f)
          /\ \/ machine[f] # "none" /\ request' = [request EXCEPT ![u].todo = @ \ {f}]
             \/ (machine[f] = "none" \/ AwsMayFail) /\ Answer(u)
  /\ UNCHANGED <<row, timer, crashes, contended, cut, forgot>>

\* The process dies with its requests and its timers.
Crash ==
  /\ crashes < MaxCrashes
  /\ crashes' = crashes + 1
  /\ cut' = cut \cup {f \in Workflow :
                        \E u \in User : request[u].on = f /\ request[u].pc \in {"save", "remove"}}
  /\ request' = [u \in User |-> NoRequest]
  /\ timer' = {} /\ forgot' = forgot \cup timer
  /\ UNCHANGED <<row, machine, contended>>

-----------------------------------------------------------------------------
Ask(u, f) ==
  UpdateSteps(u, f) \/ StartWorkflow(u, f) \/ StopWorkflow(u, f) \/ DeleteWorkflow(u, f)

UserStep(u) == Provision(u) \/ Destroy(u) \/ Save(u) \/ Remove(u) \/ Refresh(u)

Next ==
  \/ \E f \in Workflow : CreateWorkflow(f) \/ Configure(f)
  \/ \E u \in User, f \in Workflow : Ask(u, f)
  \/ \E u \in User : DeployAllScrapers(u) \/ UserStep(u)
  \/ Crash

Spec == Init /\ [][Next]_vars

-----------------------------------------------------------------------------
(* Properties *)

\* The request that has changed the instance of a workflow and has not written
\* that down yet.
Writing(f) == {u \in User : request[u].on = f /\ request[u].pc \in {"save", "remove"}}

\* No instance runs, and is paid for, without a row or a request that knows it,
\* and none is remembered that is gone, as long as requests on a workflow do not
\* overlap and the process does not die between an AWS call and its save --
\* although AWS may refuse any call, and each row is written from memory.
InstanceIsKnown ==
  \A f \in Workflow \ (contended \cup cut) :
    machine[f] # "none" <=>
      \/ Writing(f) = {} /\ row[f].instance
      \/ \E u \in Writing(f) : request[u].snap.instance

\* An instance waits for its first configuration only while the timer of the
\* process that created it runs, or because that process has died: nothing but a
\* deployment, or a stop and a start, configures it after that.
BareIsScheduled ==
  \A f \in Workflow : machine[f] = "bare" => f \in timer \cup forgot

\* Of every instance somebody knows that it runs, and that it is still to be
\* configured.
InstancesAreKnown == TypeOK /\ InstanceIsKnown /\ BareIsScheduled

\* A stopped workflow runs only after someone has started it, and a deleted one
\* does not come back, unless two requests on it overlap: the later save then
\* writes back what the earlier one has undone.
StopAndDeleteStay ==
  [][\A f \in Workflow \ contended :
       /\ row[f].state = "deleted" => row'[f].state = "deleted"
       /\ row[f].stopped /\ row'[f].state = "stored" /\ ~ row'[f].stopped =>
            \E u \in User : request[u].on = f /\ request[u].op = "start"]_vars

\* The row names an instance that is gone, and no request that is under way is
\* about to say otherwise.
Stranded(f) ==
  /\ row[f].state = "stored" /\ row[f].instance
  /\ machine[f] = "none"
  /\ \A u \in User :
       request[u].on = f => request[u].snap.instance /\ request[u].pc \in {"destroy", "save"}

\* Such a workflow can never be run again, and not even be stopped or deleted:
\* stopping and deleting fail at AWS before they write anything, starting and
\* editing take the instance for granted.
StrandedForGood == [][\A f \in Workflow : Stranded(f) => Stranded(f)']_vars
=============================================================================
