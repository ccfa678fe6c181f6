---------------------- MODULE WorkflowInstancesProofs ----------------------
(***************************************************************************)
(* Proofs about WorkflowInstances: its types, that instances and rows      *)
(* agree, that what a user stops or deletes stays so, and that a stranded  *)
(* row is beyond repair.                                                   *)
(***************************************************************************)
EXTENDS WorkflowInstances, TLAPS

\* Every copy of a row is that of a stored one, and a row that is not stored
\* names no instance and is not stopped.
CopiesAreStored ==
  /\ \A u \in User : request[u].snap.state = "stored"
  /\ \A f \in Workflow : row[f].state # "stored" => ~ row[f].instance /\ ~ row[f].stopped

WellFormed == TypeOK /\ CopiesAreStored

\* The initial records have their types.
LEMMA InitialRecords ==
  /\ NewRow \in Row
  /\ \A state \in {"unused", "stored", "deleted"} : NoRow(state) \in Row
  /\ NoRequest \in Request
  BY DEF NewRow, NoRow, NoRequest, Row, Request

LEMMA InitFormed == Init => WellFormed
  <1> SUFFICES ASSUME Init PROVE WellFormed
    OBVIOUS
  <1>1. row \in [Workflow -> Row] /\ request \in [User -> Request]
    BY InitialRecords DEF Init
  <1>2. \A u \in User : request[u].pc = "idle" /\ request[u].snap.state = "stored"
    BY DEF Init, NoRequest, NewRow
  <1>3. \A f \in Workflow : ~ row[f].instance /\ ~ row[f].stopped
    BY DEF Init, NoRow, NewRow
  <1> QED
    BY <1>1, <1>2, <1>3, ConstantsAssumption
      DEF Init, WellFormed, TypeOK, CopiesAreStored, ConstantsAssumption

\* A request begins with the copy it is given.
LEMMA StartFormed ==
  ASSUME WellFormed, NEW u \in User, NEW f \in Workflow,
         NEW op \in {"update", "stop", "start", "delete"},
         NEW x \in Row, x.state = "stored",
         NEW pc \in {"provision", "destroy", "save", "remove"},
         Start(u, f, op, x, pc)
  PROVE  WellFormed'
  <1> DEFINE q == [pc |-> pc, op |-> op, on |-> f, snap |-> x, todo |-> {}]
  <1>1. q \in Request
    BY DEF Request
  <1>2. request' \in [User -> Request]
    BY <1>1 DEF Start, WellFormed, TypeOK
  <1>3. \A v \in User : request'[v] = IF v = u THEN q ELSE request[v]
    BY DEF Start, WellFormed, TypeOK
  <1>4. f # None
    BY ConstantsAssumption DEF ConstantsAssumption
  <1>5. contended' \subseteq Workflow
    BY DEF Start, WellFormed, TypeOK
  <1> QED
    BY <1>2, <1>3, <1>4, <1>5 DEF Start, WellFormed, TypeOK, CopiesAreStored

\* The four requests of a user begin with a copy of the row and a step of it.
LEMMA AskStarts ==
  ASSUME WellFormed, NEW u \in User, NEW f \in Workflow, Ask(u, f)
  PROVE  \E op \in {"update", "stop", "start", "delete"}, x \in Row,
            pc \in {"provision", "destroy", "save", "remove"} :
           /\ Start(u, f, op, x, pc)
           /\ row[f].state = "stored" /\ x.state = "stored"
           /\ x.instance = row[f].instance
           /\ row[f].stopped /\ ~ x.stopped => op = "start"
           /\ pc = "provision" => ~ x.instance
           /\ pc = "destroy" => x.instance
           /\ pc = "remove" => ~ x.instance
  <1>0. row[f] \in Row
    BY DEF WellFormed, TypeOK
  <1>1. CASE UpdateSteps(u, f)
    <2>1. PICK linked \in BOOLEAN :
            LET x == [row[f] EXCEPT !.linked = linked] IN
            Start(u, f, "update", x, AfterEnsure(x))
      BY <1>1 DEF UpdateSteps
    <2> DEFINE x == [row[f] EXCEPT !.linked = linked]
    <2>2. /\ x \in Row /\ x.state = row[f].state
          /\ x.instance = row[f].instance /\ x.stopped = row[f].stopped
      BY <1>0 DEF Row
    <2>3. row[f].state = "stored"
      BY <2>1 DEF Start
    <2>4. /\ AfterEnsure(x) \in {"provision", "save"}
          /\ AfterEnsure(x) = "provision" => ~ x.instance
      BY DEF AfterEnsure, NeedsInstance
    <2>5. Start(u, f, "update", x, AfterEnsure(x))
      BY <2>1
    <2> QED
      BY <2>2, <2>3, <2>4, <2>5
  <1>2. CASE StartWorkflow(u, f)
    <2> DEFINE x == [row[f] EXCEPT !.stopped = FALSE]
    <2>1. Start(u, f, "start", x, AfterEnsure(x))
      BY <1>2 DEF StartWorkflow
    <2>2. x \in Row /\ x.state = row[f].state /\ x.instance = row[f].instance
      BY <1>0 DEF Row
    <2>3. row[f].state = "stored"
      BY <2>1 DEF Start
    <2>4. /\ AfterEnsure(x) \in {"provision", "save"}
          /\ AfterEnsure(x) = "provision" => ~ x.instance
      BY DEF AfterEnsure, NeedsInstance
    <2> QED
      BY <2>1, <2>2, <2>3, <2>4
  <1>3. CASE StopWorkflow(u, f)
    <2> DEFINE x == [row[f] EXCEPT !.stopped = TRUE]
               pc == IF row[f].instance THEN "destroy" ELSE "save"
    <2>1. Start(u, f, "stop", x, pc)
      BY <1>3 DEF StopWorkflow
    <2>2. /\ x \in Row /\ x.state = row[f].state
          /\ x.instance = row[f].instance /\ x.stopped
      BY <1>0 DEF Row
    <2>3. row[f].state = "stored"
      BY <2>1 DEF Start
    <2> QED
      BY <2>1, <2>2, <2>3
  <1>4. CASE DeleteWorkflow(u, f)
    <2>1. /\ Start(u, f, "delete", row[f], IF row[f].instance THEN "destroy" ELSE "remove")
          /\ row[f].state = "stored"
      BY <1>4 DEF DeleteWorkflow, Start
    <2> QED
      BY <1>0, <2>1
  <1> QED
    BY <1>1, <1>2, <1>3, <1>4 DEF Ask

\* Every action keeps the state well formed.
LEMMA FormedStep == WellFormed /\ [Next]_vars => WellFormed'
  <1> SUFFICES ASSUME WellFormed, [Next]_vars PROVE WellFormed'
    OBVIOUS
  <1>1. ASSUME NEW f \in Workflow, CreateWorkflow(f) PROVE WellFormed'
    BY <1>1, InitialRecords DEF CreateWorkflow, WellFormed, TypeOK, CopiesAreStored, NewRow
  <1>2. ASSUME NEW f \in Workflow, Configure(f) PROVE WellFormed'
    BY <1>2 DEF Configure, RunSetup, WellFormed, TypeOK, CopiesAreStored
  <1>3. ASSUME NEW u \in User, NEW f \in Workflow, Ask(u, f) PROVE WellFormed'
    BY <1>3, AskStarts, StartFormed
  <1>4. ASSUME NEW u \in User, DeployAllScrapers(u) PROVE WellFormed'
    <2> DEFINE todo == {f \in Workflow : row[f].state = "stored" /\ ~ row[f].stopped
                                           /\ row[f].instance}
               q == [NoRequest EXCEPT !.pc = "deploy", !.op = "deploy", !.todo = todo]
    <2>1. q \in Request /\ q.pc = "deploy" /\ q.snap.state = "stored"
      BY InitialRecords DEF NoRequest, NewRow, Request, Row
    <2>2. request' = [request EXCEPT ![u] = q]
      BY <1>4 DEF DeployAllScrapers
    <2> QED
      BY <2>1, <2>2, <1>4 DEF DeployAllScrapers, WellFormed, TypeOK, CopiesAreStored
  <1>5. ASSUME NEW u \in User, UserStep(u) PROVE WellFormed'
    <2>0. ASSUME Answer(u)
          PROVE  /\ request' \in [User -> Request]
                 /\ \A v \in User : request'[v].pc \notin {"idle", "deploy"} => request'[v].on # None
                 /\ \A v \in User : request'[v].snap.state = "stored"
      BY <2>0, InitialRecords
        DEF Answer, NoRequest, NewRow, WellFormed, TypeOK, CopiesAreStored
    <2>00. request[u] \in Request
      BY DEF WellFormed, TypeOK
    <2>000. request[u].pc \notin {"idle", "deploy"} => request[u].on \in Workflow
      BY <2>00 DEF WellFormed, TypeOK, Request
    <2>1. CASE Provision(u)
      <3>1. CASE Answer(u) /\ UNCHANGED <<machine, timer, forgot>>
        BY <3>1, <2>0, <2>1 DEF Provision, WellFormed, TypeOK, CopiesAreStored
      <3>2. CASE ~ (Answer(u) /\ UNCHANGED <<machine, timer, forgot>>)
        <4> DEFINE f == request[u].on
        <4>1. /\ f \in Workflow
              /\ machine' = [machine EXCEPT ![f] = "bare"]
              /\ timer' = timer \cup {f} /\ forgot' = forgot \ {f}
              /\ request' = [request EXCEPT ![u].pc = "save", ![u].snap.instance = TRUE]
              /\ UNCHANGED <<row, crashes, contended, cut>>
              /\ request[u].pc = "provision"
          BY <3>2, <2>1, <2>000 DEF Provision
        <4>2. request' \in [User -> Request]
          BY <4>1, <2>00 DEF WellFormed, TypeOK, Request, Row
        <4>3. \A v \in User :
                /\ request'[v].pc \notin {"idle", "deploy"} => request'[v].on # None
                /\ request'[v].snap.state = "stored"
          BY <4>1, <2>00 DEF WellFormed, TypeOK, CopiesAreStored, Request, Row
        <4> QED
          BY <4>1, <4>2, <4>3 DEF WellFormed, TypeOK, CopiesAreStored
      <3> QED
        BY <3>1, <3>2
    <2>2. CASE Destroy(u)
      <3>1. CASE Answer(u) /\ UNCHANGED machine
        BY <3>1, <2>0, <2>2 DEF Destroy, WellFormed, TypeOK, CopiesAreStored
      <3>2. CASE ~ (Answer(u) /\ UNCHANGED machine)
        <4> DEFINE f == request[u].on
                   pc == IF request[u].op = "stop" THEN "save" ELSE "remove"
        <4>1. /\ f \in Workflow
              /\ machine' = [machine EXCEPT ![f] = "none"]
              /\ request' = [request EXCEPT ![u].pc = pc, ![u].snap.instance = FALSE]
              /\ UNCHANGED <<row, timer, crashes, contended, cut, forgot>>
              /\ request[u].pc = "destroy"
          BY <3>2, <2>2, <2>000 DEF Destroy
        <4>2. request' \in [User -> Request]
          BY <4>1, <2>00 DEF WellFormed, TypeOK, Request, Row
        <4>3. \A v \in User :
                /\ request'[v].pc \notin {"idle", "deploy"} => request'[v].on # None
                /\ request'[v].snap.state = "stored"
          BY <4>1, <2>00 DEF WellFormed, TypeOK, CopiesAreStored, Request, Row
        <4> QED
          BY <4>1, <4>2, <4>3 DEF WellFormed, TypeOK, CopiesAreStored
      <3> QED
        BY <3>1, <3>2
    <2>3. CASE Save(u)
      <3>1. request[u].on \in Workflow /\ request[u].snap \in Row
        BY <2>3, <2>00, <2>000 DEF Save, Request
      <3>2. /\ row' = [row EXCEPT ![request[u].on] = request[u].snap]
            /\ Answer(u)
            /\ UNCHANGED <<machine, timer, crashes, contended, cut, forgot>>
        BY <2>3 DEF Save
      <3>3. /\ row' \in [Workflow -> Row]
            /\ \A f \in Workflow : row'[f].state # "stored" =>
                                      ~ row'[f].instance /\ ~ row'[f].stopped
        BY <3>1, <3>2 DEF WellFormed, TypeOK, CopiesAreStored
      <3> QED
        BY <3>2, <3>3, <2>0 DEF WellFormed, TypeOK, CopiesAreStored
    <2>4. CASE Remove(u)
      <3>1. request[u].on \in Workflow
        BY <2>4, <2>000 DEF Remove
      <3>2. /\ NoRow("deleted") \in Row
            /\ ~ NoRow("deleted").instance /\ ~ NoRow("deleted").stopped
        BY InitialRecords DEF NoRow, NewRow
      <3>3. /\ row' = [row EXCEPT ![request[u].on] = NoRow("deleted")]
            /\ Answer(u)
            /\ UNCHANGED <<machine, timer, crashes, contended, cut, forgot>>
        BY <2>4 DEF Remove
      <3>4. /\ row' \in [Workflow -> Row]
            /\ \A f \in Workflow : row'[f].state # "stored" =>
                                      ~ row'[f].instance /\ ~ row'[f].stopped
        BY <3>1, <3>2, <3>3 DEF WellFormed, TypeOK, CopiesAreStored
      <3> QED
        BY <3>3, <3>4, <2>0 DEF WellFormed, TypeOK, CopiesAreStored
    <2>5. CASE Refresh(u)
      <3>1. machine' \in [Workflow -> {"none", "bare", "tried"}]
        BY <2>5 DEF Refresh, RunSetup, WellFormed, TypeOK
      <3>2. /\ request' \in [User -> Request]
            /\ \A v \in User : request'[v].pc \notin {"idle", "deploy"} => request'[v].on # None
            /\ \A v \in User : request'[v].snap.state = "stored"
        <4>1. CASE Answer(u)
          BY <4>1, <2>0
        <4>2. ASSUME NEW f \in Workflow, request' = [request EXCEPT ![u].todo = @ \ {f}]
              PROVE  /\ request' \in [User -> Request]
                     /\ \A v \in User :
                          request'[v].pc \notin {"idle", "deploy"} => request'[v].on # None
                     /\ \A v \in User : request'[v].snap.state = "stored"
          BY <4>2, <2>00 DEF WellFormed, TypeOK, CopiesAreStored, Request
        <4>3. request[u].todo \subseteq Workflow
          BY <2>00 DEF Request
        <4> QED
          BY <4>1, <4>2, <4>3, <2>5 DEF Refresh
      <3> QED
        BY <3>1, <3>2, <2>5 DEF Refresh, WellFormed, TypeOK, CopiesAreStored
    <2> QED
      BY <1>5, <2>1, <2>2, <2>3, <2>4, <2>5 DEF UserStep
  <1>6. CASE Crash
    <2>1. \A u \in User : request'[u] = NoRequest
      BY <1>6 DEF Crash
    <2>2. request' \in [User -> Request]
      BY <1>6, InitialRecords DEF Crash
    <2>3. crashes' \in 0 .. MaxCrashes
      BY <1>6, ConstantsAssumption DEF Crash, WellFormed, TypeOK, ConstantsAssumption
    <2> QED
      BY <2>1, <2>2, <2>3, <1>6
        DEF Crash, WellFormed, TypeOK, CopiesAreStored, NoRequest, NewRow
  <1>7. CASE UNCHANGED vars
    BY <1>7 DEF vars, WellFormed, TypeOK, CopiesAreStored
  <1> QED
    BY <1>1, <1>2, <1>3, <1>4, <1>5, <1>6, <1>7 DEF Next

LEMMA FormedAlways == Spec => []WellFormed
  BY InitFormed, FormedStep, PTL DEF Spec

\* The state is well typed, for any workflows, users and crashes.
THEOREM TypeCorrect == Spec => []TypeOK
  <1>1. WellFormed => TypeOK
    BY DEF WellFormed
  <1> QED
    BY <1>1, FormedAlways, PTL

-----------------------------------------------------------------------------
(* Requests that do not overlap *)

Alone(f) == \A u, v \in User : request[u].on = f /\ request[v].on = f => u = v

\* What such a request will save undoes a stop only if it is a start.
UpToDate(u) ==
  LET f == request[u].on IN
  f \in Workflow \ contended =>
    /\ row[f].state = "stored"
    /\ row[f].stopped /\ ~ request[u].snap.stopped => request[u].op = "start"

CopiesInv ==
  /\ \A f \in Workflow \ contended : Alone(f)
  /\ \A u \in User : UpToDate(u)

\* Every step of a request keeps the rest of what it holds, or ends it, and
\* only its last one touches the row.
LEMMA RequestStep ==
  ASSUME WellFormed, NEW u \in User, UserStep(u)
  PROVE  /\ \A v \in User \ {u} : request'[v] = request[v]
         /\ \/ request'[u] = NoRequest
            \/ /\ request'[u].on = request[u].on
               /\ request'[u].op = request[u].op
               /\ request'[u].snap.stopped = request[u].snap.stopped
               /\ row' = row
         /\ \A f \in Workflow : f # request[u].on => row'[f] = row[f]
         /\ contended' = contended /\ cut' = cut
  <1>0. /\ request \in [User -> Request] /\ row \in [Workflow -> Row]
        /\ request[u] \in Request
    BY DEF WellFormed, TypeOK
  <1>1. CASE Provision(u)
    BY <1>1, <1>0 DEF Provision, Answer, Request, Row
  <1>2. CASE Destroy(u)
    BY <1>2, <1>0 DEF Destroy, Answer, Request, Row
  <1>3. CASE Save(u)
    BY <1>3, <1>0 DEF Save, Answer
  <1>4. CASE Remove(u)
    BY <1>4, <1>0 DEF Remove, Answer
  <1>5. CASE Refresh(u)
    BY <1>5, <1>0 DEF Refresh, Answer, Request
  <1> QED
    BY <1>1, <1>2, <1>3, <1>4, <1>5 DEF UserStep

\* Nobody asks for anything at first.
LEMMA InitCopies == Init => CopiesInv
  BY ConstantsAssumption
    DEF Init, CopiesInv, Alone, UpToDate, NoRequest, ConstantsAssumption

\* Requests that do not overlap stay up to date.
LEMMA CopiesStep == WellFormed /\ CopiesInv /\ [Next]_vars => CopiesInv'
  <1> SUFFICES ASSUME WellFormed, CopiesInv, [Next]_vars PROVE CopiesInv'
    OBVIOUS
  <1>0. /\ request \in [User -> Request] /\ row \in [Workflow -> Row]
        /\ NoRequest.on = None /\ None \notin Workflow
    BY ConstantsAssumption DEF WellFormed, TypeOK, NoRequest, ConstantsAssumption
  <1>1. ASSUME NEW f \in Workflow, CreateWorkflow(f) PROVE CopiesInv'
    BY <1>1, <1>0 DEF CreateWorkflow, CopiesInv, Alone, UpToDate
  <1>2. ASSUME NEW f \in Workflow, Configure(f) PROVE CopiesInv'
    BY <1>2 DEF Configure, CopiesInv, Alone, UpToDate
  <1>3. ASSUME NEW u \in User, NEW f \in Workflow, Ask(u, f) PROVE CopiesInv'
    <2>1. PICK op \in {"update", "stop", "start", "delete"}, x \in Row,
               pc \in {"provision", "destroy", "save", "remove"} :
            /\ Start(u, f, op, x, pc)
            /\ row[f].state = "stored"
            /\ row[f].stopped /\ ~ x.stopped => op = "start"
      BY <1>3, AskStarts
    <2> DEFINE q == [pc |-> pc, op |-> op, on |-> f, snap |-> x, todo |-> {}]
    <2>2. /\ \A v \in User : request'[v] = IF v = u THEN q ELSE request[v]
          /\ row' = row /\ contended \subseteq contended'
          /\ f \notin contended' => \A v \in User : request[v].on # f
      BY <2>1, <1>0 DEF Start, Working
    <2>3. \A v \in User : UpToDate(v)'
      BY <2>1, <2>2 DEF CopiesInv, UpToDate
    <2>4. \A g \in Workflow \ contended' : Alone(g)'
      BY <2>2 DEF CopiesInv, Alone
    <2> QED
      BY <2>3, <2>4 DEF CopiesInv
  <1>4. ASSUME NEW u \in User, DeployAllScrapers(u) PROVE CopiesInv'
    <2>1. /\ \A v \in User : IF v = u THEN request'[v].on = None
                                      ELSE request'[v] = request[v]
          /\ row' = row /\ contended' = contended
      BY <1>4, <1>0 DEF DeployAllScrapers, NoRequest
    <2> QED
      BY <2>1, <1>0 DEF CopiesInv, Alone, UpToDate
  <1>5. ASSUME NEW u \in User, UserStep(u) PROVE CopiesInv'
    <2>1. \A v \in User : request'[v].on \in {request[v].on, None}
      BY <1>5, <1>0, RequestStep
    <2>2. \A f \in Workflow \ contended' : Alone(f)'
      BY <2>1, <1>5, <1>0, RequestStep DEF CopiesInv, Alone
    <2>3. ASSUME NEW v \in User PROVE UpToDate(v)'
      <3>1. CASE v = u
        BY <3>1, <1>5, <1>0, RequestStep DEF CopiesInv, UpToDate
      <3>2. CASE v # u
        <4>1. request'[v] = request[v] /\ contended' = contended
          BY <3>2, <1>5, RequestStep
        <4>2. request[v].on \in Workflow \ contended => request[v].on # request[u].on
          BY <3>2 DEF CopiesInv, Alone
        <4>3. request[v].on \in Workflow \ contended
                => row'[request[v].on] = row[request[v].on]
          BY <4>2, <1>5, RequestStep
        <4> QED
          BY <4>1, <4>3 DEF CopiesInv, UpToDate
      <3> QED
        BY <3>1, <3>2
    <2> QED
      BY <2>2, <2>3 DEF CopiesInv
  <1>6. CASE Crash
    BY <1>6, <1>0 DEF Crash, CopiesInv, Alone, UpToDate
  <1>7. CASE UNCHANGED vars
    BY <1>7 DEF vars, CopiesInv, Alone, UpToDate
  <1> QED
    BY <1>1, <1>2, <1>3, <1>4, <1>5, <1>6, <1>7 DEF Next

LEMMA CopiesAlways == Spec => [](WellFormed /\ CopiesInv)
  <1>1. Init => WellFormed /\ CopiesInv
    BY InitFormed, InitCopies
  <1>2. (WellFormed /\ CopiesInv) /\ [Next]_vars => (WellFormed /\ CopiesInv)'
    BY FormedStep, CopiesStep
  <1> QED
    BY <1>1, <1>2, PTL DEF Spec

\* What a user has stopped or deleted stays so, until someone starts it, as long
\* as requests on the workflow do not overlap.
THEOREM StopsStay == Spec => StopAndDeleteStay
  <1> DEFINE Stays ==
        \A f \in Workflow \ contended :
          /\ row[f].state = "deleted" => row'[f].state = "deleted"
          /\ row[f].stopped /\ row'[f].state = "stored" /\ ~ row'[f].stopped =>
               \E u \in User : request[u].on = f /\ request[u].op = "start"
  <1>1. ASSUME WellFormed, CopiesInv, [Next]_vars PROVE [Stays]_vars
    <2>0. row \in [Workflow -> Row] /\ request \in [User -> Request]
      BY <1>1 DEF WellFormed, TypeOK
    <2>1. ASSUME NEW f \in Workflow, CreateWorkflow(f) PROVE Stays
      <3>1. row[f].state = "unused"
        BY <2>1 DEF CreateWorkflow
      <3>2. ~ row[f].stopped
        BY <3>1, <1>1 DEF WellFormed, CopiesAreStored
      <3> QED
        BY <3>1, <3>2, <2>1, <2>0 DEF CreateWorkflow
    <2>2. ASSUME NEW u \in User, Save(u) PROVE Stays
      <3>1. request[u].on \in Workflow
        BY <2>2, <1>1 DEF Save, WellFormed, TypeOK, Request
      <3>2. row' = [row EXCEPT ![request[u].on] = request[u].snap]
        BY <2>2 DEF Save
      <3> QED
        BY <3>1, <3>2, <2>0, <1>1 DEF CopiesInv, UpToDate
    <2>3. ASSUME NEW u \in User, Remove(u) PROVE Stays
      <3>1. row' = [row EXCEPT ![request[u].on] = NoRow("deleted")]
        BY <2>3 DEF Remove
      <3>2. NoRow("deleted").state = "deleted"
        BY DEF NoRow, NewRow
      <3> QED
        BY <3>1, <3>2, <2>0
    <2>4. CASE row' = row
      BY <2>4
    <2> QED
      BY <2>1, <2>2, <2>3, <2>4, <1>1
        DEF Next, Ask, UpdateSteps, StartWorkflow, StopWorkflow, DeleteWorkflow, Start,
            Configure, DeployAllScrapers, UserStep, Provision, Destroy, Refresh, Crash, vars
  <1> QED
    BY <1>1, CopiesAlways, PTL DEF Spec, StopAndDeleteStay

-----------------------------------------------------------------------------
(* Instances and rows *)

IsWriting(u, f) == request[u].on = f /\ request[u].pc \in {"save", "remove"}

Known(f) ==
  /\ \A u \in User : IsWriting(u, f) => (machine[f] # "none" <=> request[u].snap.instance)
  /\ (\A u \in User : ~ IsWriting(u, f)) => (machine[f] # "none" <=> row[f].instance)

KnownInv ==
  /\ \A f \in Workflow \ (contended \cup cut) : Known(f)
  /\ \A u \in User : request[u].pc = "remove" => ~ request[u].snap.instance

LEMMA InitKnown == Init => KnownInv
  BY DEF Init, KnownInv, Known, IsWriting, NoRequest, NoRow, NewRow

\* Setting an instance up neither makes nor ends it.
LEMMA SetupKeeps ==
  ASSUME TypeOK, NEW f \in Workflow, RunSetup(f)
  PROVE  \A g \in Workflow : machine'[g] = "none" <=> machine[g] = "none"
  BY DEF RunSetup, TypeOK

\* Every action keeps the instances known.
LEMMA KnownStep == WellFormed /\ CopiesInv /\ KnownInv /\ [Next]_vars => KnownInv'
  <1> SUFFICES ASSUME WellFormed, CopiesInv, KnownInv, [Next]_vars PROVE KnownInv'
    OBVIOUS
  <1>0. /\ request \in [User -> Request] /\ row \in [Workflow -> Row]
        /\ machine \in [Workflow -> {"none", "bare", "tried"}]
        /\ NoRequest.on = None /\ NoRequest.pc = "idle" /\ None \notin Workflow
        /\ \A u \in User : request[u].pc \in {"provision", "destroy", "save", "remove"} =>
                           request[u].on \in Workflow
    BY ConstantsAssumption DEF WellFormed, TypeOK, NoRequest, Request, ConstantsAssumption
  <1>1. ASSUME NEW f \in Workflow, CreateWorkflow(f) PROVE KnownInv'
    <2>1. row[f].instance = NewRow.instance
      BY <1>1, <1>0 DEF CreateWorkflow, WellFormed, CopiesAreStored, Row, NewRow
    <2>2. \A g \in Workflow : row'[g].instance = row[g].instance
      BY <2>1, <1>1, <1>0 DEF CreateWorkflow
    <2> QED
      BY <2>2, <1>1 DEF CreateWorkflow, KnownInv, Known, IsWriting
  <1>2. ASSUME NEW f \in Workflow, Configure(f) PROVE KnownInv'
    <2>1. \A g \in Workflow : machine'[g] = "none" <=> machine[g] = "none"
      BY <1>2, SetupKeeps DEF Configure, WellFormed
    <2> QED
      BY <2>1, <1>2 DEF Configure, KnownInv, Known, IsWriting
  <1>3. ASSUME NEW u \in User, NEW f \in Workflow, Ask(u, f) PROVE KnownInv'
    <2>1. PICK op \in {"update", "stop", "start", "delete"}, x \in Row,
               pc \in {"provision", "destroy", "save", "remove"} :
            /\ Start(u, f, op, x, pc)
            /\ x.instance = row[f].instance
            /\ pc = "remove" => ~ x.instance
      BY <1>3, AskStarts
    <2> DEFINE q == [pc |-> pc, op |-> op, on |-> f, snap |-> x, todo |-> {}]
    <2>2. /\ \A v \in User : request'[v] = IF v = u THEN q ELSE request[v]
          /\ request[u].pc = "idle"
          /\ UNCHANGED <<row, machine, cut>> /\ contended \subseteq contended'
          /\ f \notin contended' => \A v \in User : request[v].on # f
      BY <2>1, <1>0 DEF Start, Working
    <2>3. \A g \in Workflow \ (contended' \cup cut') : Known(g)
      BY <2>2 DEF KnownInv
    <2>4. ASSUME NEW g \in Workflow \ (contended' \cup cut'), g # f PROVE Known(g)'
      <3>1. \A v \in User : IsWriting(v, g)' <=> IsWriting(v, g)
        BY <2>4, <2>2 DEF IsWriting
      <3>2. \A v \in User : IsWriting(v, g) => request'[v] = request[v]
        BY <2>2 DEF IsWriting
      <3> QED
        BY <3>1, <3>2, <2>2, <2>3 DEF Known
    <2>5. ASSUME f \notin contended' \cup cut' PROVE Known(f)'
      <3>1. \A v \in User : ~ IsWriting(v, f)
        BY <2>5, <2>2 DEF IsWriting
      <3>2. machine[f] # "none" <=> row[f].instance
        BY <3>1, <2>3, <2>5 DEF Known
      <3>3. \A v \in User : IsWriting(v, f)' => request'[v].snap.instance = row[f].instance
        BY <3>1, <2>1, <2>2 DEF IsWriting
      <3> QED
        BY <3>2, <3>3, <2>2 DEF Known
    <2>6. \A v \in User : request'[v].pc = "remove" => ~ request'[v].snap.instance
      BY <2>1, <2>2 DEF KnownInv
    <2> QED
      BY <2>4, <2>5, <2>6 DEF KnownInv
  <1>4. ASSUME NEW u \in User, DeployAllScrapers(u) PROVE KnownInv'
    <2>1. /\ \A v \in User : IF v = u THEN /\ request'[v].on = None
                                          /\ request'[v].pc = "deploy"
                                          /\ request[v].pc = "idle"
                                     ELSE request'[v] = request[v]
          /\ UNCHANGED <<row, machine, contended, cut>>
      BY <1>4, <1>0 DEF DeployAllScrapers, NoRequest
    <2> QED
      BY <2>1 DEF KnownInv, Known, IsWriting
  <1>5. ASSUME NEW u \in User, UserStep(u) PROVE KnownInv'
    <2>0. /\ \A v \in User \ {u} : request'[v] = request[v]
          /\ contended' = contended /\ cut' = cut
      BY <1>5, RequestStep
    <2>00. ASSUME NEW g \in Workflow \ contended, request[u].on = g
           PROVE  \A v \in User \ {u} : request[v].on # g /\ request'[v].on # g
      BY <2>0, <2>00 DEF CopiesInv, Alone
    <2>1. ASSUME Answer(u), row' = row, machine' = machine,
                 request[u].pc \notin {"save", "remove"}
          PROVE  KnownInv'
      <3>1. request'[u] = NoRequest
        BY <2>1, <1>0 DEF Answer
      <3> QED
        BY <3>1, <2>0, <2>1, <1>0 DEF KnownInv, Known, IsWriting
    <2>2. CASE Provision(u) /\ ~ Answer(u)
      <3>0. PICK f \in Workflow : f = request[u].on
        BY <2>2, <1>0 DEF Provision
      <3>1. /\ machine' = [machine EXCEPT ![f] = "bare"]
            /\ request' = [request EXCEPT ![u].pc = "save", ![u].snap.instance = TRUE]
            /\ row' = row /\ request[u].pc = "provision"
        BY <2>2, <3>0 DEF Provision
      <3>2. /\ request'[u].pc = "save" /\ request'[u].snap.instance
            /\ request'[u].on = f
        BY <3>0, <3>1, <1>0 DEF Request, Row
      <3>3. machine'[f] # "none" /\ \A g \in Workflow \ {f} : machine'[g] = machine[g]
        BY <3>1, <1>0
      <3>4. ASSUME NEW g \in Workflow \ (contended' \cup cut'), g # f PROVE Known(g)'
        <4>1. \A v \in User : request[v].on = g \/ request'[v].on = g
                               => request'[v] = request[v]
          BY <3>0, <3>2, <3>4, <2>0
        <4>2. Known(g)
          BY <3>4, <2>0 DEF KnownInv
        <4>3. machine'[g] = machine[g] /\ row'[g] = row[g]
          BY <3>1, <3>3, <3>4
        <4> QED
          BY <4>1, <4>2, <4>3 DEF Known, IsWriting
      <3>5. ASSUME f \notin contended' \cup cut' PROVE Known(f)'
        <4>1. \A v \in User : IsWriting(v, f)' <=> v = u
          BY <3>0, <3>2, <3>5, <2>0, <2>00 DEF IsWriting
        <4>2. machine'[f] # "none" <=> request'[u].snap.instance
          BY <3>2, <3>3
        <4> QED
          BY <4>1, <4>2 DEF Known
      <3>6. \A v \in User : request'[v].pc = "remove" => ~ request'[v].snap.instance
        BY <3>2, <2>0 DEF KnownInv
      <3> QED
        BY <3>4, <3>5, <3>6 DEF KnownInv
    <2>3. CASE Destroy(u) /\ ~ Answer(u)
      <3>0. PICK f \in Workflow : f = request[u].on
        BY <2>3, <1>0 DEF Destroy
      <3> DEFINE pc == IF request[u].op = "stop" THEN "save" ELSE "remove"
      <3>1. /\ machine' = [machine EXCEPT ![f] = "none"]
            /\ request' = [request EXCEPT ![u].pc = pc, ![u].snap.instance = FALSE]
            /\ row' = row /\ request[u].pc = "destroy"
        BY <2>3, <3>0 DEF Destroy
      <3>2. /\ request'[u].pc \in {"save", "remove"} /\ ~ request'[u].snap.instance
            /\ request'[u].on = f
        BY <3>0, <3>1, <1>0 DEF Request, Row
      <3>3. machine'[f] = "none" /\ \A g \in Workflow \ {f} : machine'[g] = machine[g]
        BY <3>1, <1>0
      <3>4. ASSUME NEW g \in Workflow \ (contended' \cup cut'), g # f PROVE Known(g)'
        <4>1. \A v \in User : request[v].on = g \/ request'[v].on = g
                               => request'[v] = request[v]
          BY <3>0, <3>2, <3>4, <2>0
        <4>2. Known(g)
          BY <3>4, <2>0 DEF KnownInv
        <4>3. machine'[g] = machine[g] /\ row'[g] = row[g]
          BY <3>1, <3>3, <3>4
        <4> QED
          BY <4>1, <4>2, <4>3 DEF Known, IsWriting
      <3>5. ASSUME f \notin contended' \cup cut' PROVE Known(f)'
        <4>1. \A v \in User : IsWriting(v, f)' <=> v = u
          BY <3>0, <3>2, <3>5, <2>0, <2>00 DEF IsWriting
        <4>2. machine'[f] # "none" <=> request'[u].snap.instance
          BY <3>2, <3>3
        <4> QED
          BY <4>1, <4>2 DEF Known
      <3>6. \A v \in User : request'[v].pc = "remove" => ~ request'[v].snap.instance
        BY <3>2, <2>0 DEF KnownInv
      <3> QED
        BY <3>4, <3>5, <3>6 DEF KnownInv
    <2>4. CASE Save(u) \/ Remove(u)
      <3> DEFINE f == request[u].on
      <3>1. /\ f \in Workflow /\ request[u].pc \in {"save", "remove"}
            /\ request'[u] = NoRequest /\ machine' = machine
            /\ row'[f].instance = request[u].snap.instance
            /\ \A g \in Workflow \ {f} : row'[g] = row[g]
        <4>1. f \in Workflow /\ request[u].pc \in {"save", "remove"}
          BY <2>4, <1>0 DEF Save, Remove
        <4>2. request'[u] = NoRequest /\ machine' = machine
          BY <2>4, <1>0 DEF Save, Remove, Answer
        <4>3. \E x : row' = [row EXCEPT ![f] = x] /\ x.instance = request[u].snap.instance
          <5>1. CASE Save(u)
            BY <5>1 DEF Save
          <5>2. CASE Remove(u)
            <6>1. request[u].snap.instance = FALSE
              BY <5>2, <1>0 DEF Remove, KnownInv, Request, Row
            <6>2. NoRow("deleted").instance = FALSE
              BY DEF NoRow, NewRow
            <6> QED
              BY <6>1, <6>2, <5>2 DEF Remove
          <5> QED
            BY <5>1, <5>2, <2>4
        <4> QED
          BY <4>1, <4>2, <4>3, <1>0
      <3> QED
        BY <3>1, <2>0, <2>00, <1>0 DEF KnownInv, Known, IsWriting
    <2>5. CASE Refresh(u)
      <3>1. \A g \in Workflow : machine'[g] = "none" <=> machine[g] = "none"
        BY <2>5, SetupKeeps, <1>0 DEF Refresh, Request, WellFormed
      <3>2. /\ request[u].pc = "deploy" /\ request'[u].pc \in {"deploy", "idle"}
            /\ row' = row
        BY <2>5, <1>0 DEF Refresh, Answer, Request
      <3> QED
        BY <3>1, <3>2, <2>0 DEF KnownInv, Known, IsWriting
    <2>6. CASE Provision(u) /\ Answer(u)
      <3>1. machine' = machine
        BY <2>6, <1>0 DEF Provision, Answer, NoRequest
      <3> QED
        BY <3>1, <2>1, <2>6 DEF Provision
    <2>7. CASE Destroy(u) /\ Answer(u)
      <3>1. machine' = machine
        BY <2>7, <1>0 DEF Destroy, Answer, NoRequest
      <3> QED
        BY <3>1, <2>1, <2>7 DEF Destroy
    <2> QED
      BY <1>5, <2>2, <2>3, <2>4, <2>5, <2>6, <2>7 DEF UserStep
  <1>6. CASE Crash
    <2>1. /\ \A u \in User : request'[u] = NoRequest
          /\ \A f \in Workflow \ cut' : \A u \in User : ~ IsWriting(u, f)
          /\ cut \subseteq cut' /\ UNCHANGED <<row, machine, contended>>
      BY <1>6 DEF Crash, IsWriting
    <2> QED
      BY <2>1, <1>0 DEF KnownInv, Known, IsWriting
  <1>7. CASE UNCHANGED vars
    BY <1>7 DEF vars, KnownInv, Known, IsWriting
  <1> QED
    BY <1>1, <1>2, <1>3, <1>4, <1>5, <1>6, <1>7 DEF Next

\* As long as requests on a workflow do not overlap and the process does not die
\* between an AWS call and its save, its instance runs exactly when its row, or
\* the request that is about to write the row, says so.
THEOREM InstancesKnown == Spec => []InstanceIsKnown
  <1>1. Init => WellFormed /\ CopiesInv /\ KnownInv
    BY InitFormed, InitCopies, InitKnown
  <1>2. (WellFormed /\ CopiesInv /\ KnownInv) /\ [Next]_vars
          => (WellFormed /\ CopiesInv /\ KnownInv)'
    BY FormedStep, CopiesStep, KnownStep
  <1>3. WellFormed /\ CopiesInv /\ KnownInv => InstanceIsKnown
    <2> SUFFICES ASSUME KnownInv, NEW f \in Workflow \ (contended \cup cut)
                 PROVE  machine[f] # "none" <=>
                          \/ Writing(f) = {} /\ row[f].instance
                          \/ \E u \in Writing(f) : request[u].snap.instance
      BY DEF InstanceIsKnown
    <2>1. Known(f)
      BY DEF KnownInv
    <2>2. \A u \in User : u \in Writing(f) <=> IsWriting(u, f)
      BY DEF Writing, IsWriting
    <2>3. Writing(f) \subseteq User
      BY DEF Writing
    <2> QED
      BY <2>1, <2>2, <2>3 DEF Known
  <1> QED
    BY <1>1, <1>2, <1>3, PTL DEF Spec

-----------------------------------------------------------------------------
(* Instances that wait, and rows beyond repair *)

\* An instance that has never been set up has a timer, or had one that died.
THEOREM BareScheduled == Spec => []BareIsScheduled
  <1>1. Init => BareIsScheduled
    BY DEF Init, BareIsScheduled
  <1>2. WellFormed /\ BareIsScheduled /\ [Next]_vars => BareIsScheduled'
    <2> SUFFICES ASSUME WellFormed, BareIsScheduled, [Next]_vars PROVE BareIsScheduled'
      OBVIOUS
    <2>0. /\ machine \in [Workflow -> {"none", "bare", "tried"}]
          /\ request \in [User -> Request]
      BY DEF WellFormed, TypeOK
    <2>1. CASE UNCHANGED <<machine, timer, forgot>>
      BY <2>1 DEF BareIsScheduled
    <2>2. ASSUME NEW f \in Workflow, Configure(f) PROVE BareIsScheduled'
      BY <2>2, <2>0 DEF Configure, RunSetup, BareIsScheduled
    <2>3. ASSUME NEW u \in User, Provision(u) PROVE BareIsScheduled'
      BY <2>3, <2>0 DEF Provision, BareIsScheduled
    <2>4. ASSUME NEW u \in User, Destroy(u) PROVE BareIsScheduled'
      BY <2>4, <2>0 DEF Destroy, BareIsScheduled
    <2>5. ASSUME NEW u \in User, Refresh(u) PROVE BareIsScheduled'
      BY <2>5, <2>0 DEF Refresh, RunSetup, BareIsScheduled
    <2>6. CASE Crash
      BY <2>6 DEF Crash, BareIsScheduled
    <2> QED
      BY <2>1, <2>2, <2>3, <2>4, <2>5, <2>6
        DEF Next, vars, CreateWorkflow, Ask, UpdateSteps, StartWorkflow, StopWorkflow,
            DeleteWorkflow, Start, DeployAllScrapers, UserStep, Save, Remove
  <1> QED
    BY <1>1, <1>2, FormedAlways, PTL DEF Spec

\* Of every instance somebody knows that it runs, and that it is still to be
\* configured.
THEOREM InstancesAccounted == Spec => []InstancesAreKnown
  BY TypeCorrect, InstancesKnown, BareScheduled, PTL DEF InstancesAreKnown

\* A row that names an instance that is gone keeps naming it, whatever the users
\* ask for, and whether or not their requests overlap.
THEOREM StrandedStays == Spec => StrandedForGood
  <1>1. ASSUME WellFormed, [Next]_vars
        PROVE  [\A f \in Workflow : Stranded(f) => Stranded(f)']_vars
    <2> SUFFICES ASSUME NEW f \in Workflow, Stranded(f), Next PROVE Stranded(f)'
      BY <1>1
    <2>0. /\ request \in [User -> Request] /\ row \in [Workflow -> Row]
          /\ machine \in [Workflow -> {"none", "bare", "tried"}]
          /\ NoRequest.on = None /\ None \notin Workflow
          /\ \A u \in User : request[u].pc \in {"provision", "destroy", "save", "remove"} =>
                             request[u].on \in Workflow
      BY <1>1, ConstantsAssumption
        DEF WellFormed, TypeOK, NoRequest, Request, ConstantsAssumption
    <2>1. ASSUME NEW g \in Workflow, CreateWorkflow(g) PROVE Stranded(f)'
      BY <2>1, <2>0 DEF CreateWorkflow, Stranded
    <2>2. ASSUME NEW g \in Workflow, Configure(g) PROVE Stranded(f)'
      <3>1. machine'[f] = machine[f]
        BY <2>2, <2>0 DEF Configure, RunSetup, Stranded
      <3> QED
        BY <3>1, <2>2 DEF Configure, Stranded
    <2>3. ASSUME NEW u \in User, NEW g \in Workflow, Ask(u, g) PROVE Stranded(f)'
      <3>1. PICK op \in {"update", "stop", "start", "delete"}, x \in Row,
                 pc \in {"provision", "destroy", "save", "remove"} :
              /\ Start(u, g, op, x, pc)
              /\ x.instance = row[g].instance
              /\ pc = "provision" => ~ x.instance
              /\ pc = "remove" => ~ x.instance
        BY <2>3, <1>1, AskStarts
      <3> DEFINE q == [pc |-> pc, op |-> op, on |-> g, snap |-> x, todo |-> {}]
      <3>2. /\ \A v \in User : request'[v] = IF v = u THEN q ELSE request[v]
            /\ UNCHANGED <<row, machine>>
        BY <3>1, <2>0 DEF Start
      <3> QED
        BY <3>1, <3>2 DEF Stranded
    <2>4. ASSUME NEW u \in User, DeployAllScrapers(u) PROVE Stranded(f)'
      BY <2>4, <2>0 DEF DeployAllScrapers, NoRequest, Stranded
    <2>5. ASSUME NEW u \in User, UserStep(u) PROVE Stranded(f)'
      <3>1. CASE Provision(u)
        <4>1. request[u].on \in Workflow \ {f}
          BY <3>1, <2>0 DEF Provision, Stranded
        <4> QED
          BY <4>1, <3>1, <2>0 DEF Provision, Answer, Stranded, Request, Row
      <3>2. CASE Destroy(u)
        BY <3>2, <2>0 DEF Destroy, Answer, Stranded, Request, Row
      <3>3. CASE Save(u)
        BY <3>3, <2>0, <1>1 DEF Save, Answer, Stranded, WellFormed, CopiesAreStored
      <3>4. CASE Remove(u)
        BY <3>4, <2>0 DEF Remove, Answer, Stranded
      <3>5. CASE Refresh(u)
        <4>1. machine'[f] = machine[f]
          BY <3>5, <2>0 DEF Refresh, RunSetup, Stranded
        <4> QED
          BY <4>1, <3>5, <2>0 DEF Refresh, Answer, Stranded, Request
      <3> QED
        BY <2>5, <3>1, <3>2, <3>3, <3>4, <3>5 DEF UserStep
    <2>6. CASE Crash
      BY <2>6, <2>0 DEF Crash, Stranded
    <2> QED
      BY <2>1, <2>2, <2>3, <2>4, <2>5, <2>6 DEF Next
  <1> QED
    BY <1>1, FormedAlways, PTL DEF Spec, StrandedForGood
=============================================================================
