------------------------ MODULE EmailDeliveryProofs ------------------------
(***************************************************************************)
(* Proofs about the messages of EmailAssistant: what the deliveries of an  *)
(* email make of its runs.  No email gets a second run for a workflow, no  *)
(* run is left without someone to work on it; and where nothing crashes    *)
(* and one person approves, the sender receives at most one reply.         *)
(***************************************************************************)
EXTENDS EmailAssistantProofs

HandlerStep(w) == WorkerStep(w) \/ SendGmail(w) \/ RefuseGmail(w)
RequestStep(u) == (\E r \in RunId : Approve(u, r)) \/ UserStep(u)
SurroundingStep == (\E c \in Category : EditCategory(c)) \/ DeleteEmails \/ UNCHANGED vars

\* A handler has the email to make runs of it.
TakesIn(j, e) == j.pc # "idle" /\ j.msg = ProcessEmail(e)

\* The email is announced once: in its queue, or to one handler.
OneAnnouncement(e) ==
  /\ queue[ProcessEmail(e)] <= 1
  /\ \A w \in Worker : TakesIn(job[w], e) => queue[ProcessEmail(e)] = 0
  /\ \A v, w \in Worker : TakesIn(job[v], e) /\ TakesIn(job[w], e) => v = w

\* A handler that is about to insert a run has found none, and there is none yet.
StillNone ==
  \A w \in Worker, r \in RunId :
    job[w].pc = "insert_run" /\ Exists(r) =>
      runs[r].workflow # job[w].snap.workflow \/ runs[r].email # job[w].msg.email

NoTwins ==
  \A r, s \in RunId :
    /\ Exists(r) /\ Exists(s)
    /\ runs[r].workflow = runs[s].workflow /\ runs[r].email = runs[s].email
    => r = s

OnceInv ==
  reconnects = 0 => (\A e \in Email : OneAnnouncement(e)) /\ StillNone /\ NoTwins

\* A handler whose delivery would come back is going to start workflow f for
\* the email.
Starting(j, f, e) ==
  /\ j.held /\ j.pc \notin {"idle", "done"} /\ j.msg = ProcessEmail(e)
  /\ j.pc = "find_email" \/ f \in j.todo

Due(f, e) ==
  queue[ProcessEmail(e)] > 0 \/ \E w \in Worker : Starting(job[w], f, e)

\* The message of a run is queued, or a handler whose delivery would come back
\* is at work on it.
Minded(r) ==
  \/ \E e \in Email : queue[Assist(r, e)] > 0
  \/ \E w \in Worker : job[w].held /\ job[w].pc # "done" /\ Deals(job[w], r)

GivenUp(e) == \E s \in abandoned : runs[s].email = e

\* What the handler of an email holds: the workflow it is at is still to be
\* done, and the run it has found or made is a run of that workflow.
IntakeHolds(j) ==
  /\ j.pc \in {"find_run", "insert_run", "link_email", "publish_run"} => j.todo \subseteq Workflow
  /\ j.pc \in {"insert_run", "link_email", "publish_run"} => j.snap.workflow \in j.todo
  /\ j.pc \in {"link_email", "publish_run"} =>
       j.run \in RunsFor(j.snap.workflow, j.msg.email)

AllStored == \A e \in Email : rows[e].stored

RunsMade ==
  \A r \in RunId : runs[r].status # "deleted" /\ (Exists(r) => runs[r].workflow \in Workflow)

GivenUpExist == \A s \in abandoned : Exists(s)

IntakesHold == \A w \in Worker : IntakeHolds(job[w])

NoneMissed ==
  \A f \in Workflow, e \in Email : Due(f, e) \/ RunsFor(f, e) # {} \/ GivenUp(e)

\* Somebody works on the run, or will come to it on behalf of its email; or the
\* email is lost to an error or has a second run of the workflow.
Pursued(r) ==
  \/ Minded(r)
  \/ Due(runs[r].workflow, runs[r].email)
  \/ GivenUp(runs[r].email)
  \/ RunsFor(runs[r].workflow, runs[r].email) # {r}

AllPursued == \A r \in RunId : runs[r].status = "pending" => Pursued(r)

CareInv ==
  connector = "linked" =>
    AllStored /\ RunsMade /\ GivenUpExist /\ IntakesHold /\ NoneMissed /\ AllPursued

-----------------------------------------------------------------------------
(* What a step leaves alone *)

LEMMA SameMessage ==
  /\ \A m \in Message : m.type = "process_incoming_email" => m = ProcessEmail(m.email)
  /\ \A m \in Message : m.type = "email_assistant" => m = Assist(m.run, m.email)
  /\ \A d, e \in Email : ProcessEmail(d) = ProcessEmail(e) => d = e
  BY DEF Message, ProcessEmail, Assist

\* One run is rewritten, and keeps what it is a run of.
LEMMA Rewritten ==
  ASSUME runs \in [RunId -> Run], NEW q \in RunId, NEW x \in Run,
         x.workflow = runs[q].workflow, x.email = runs[q].email,
         x.status = runs[q].status \/ x.status \in {"skipped", "completed", "awaiting_action"},
         runs' = IF Exists(q) THEN [runs EXCEPT ![q] = x] ELSE runs,
         NEW r \in RunId
  PROVE  /\ runs'[r].workflow = runs[r].workflow /\ runs'[r].email = runs[r].email
         /\ Exists(r)' <=> Exists(r)
         /\ runs'[r].status = "pending" => runs[r].status = "pending"
         /\ runs'[r].status = "deleted" <=> runs[r].status = "deleted"
         /\ q # r => runs'[r] = runs[r]
  <1>1. CASE ~ Exists(q)
    BY <1>1 DEF Exists
  <1>2. CASE Exists(q) /\ q # r
    BY <1>2 DEF Exists
  <1>3. CASE Exists(q) /\ q = r
    <2>1. runs'[r] = x
      BY <1>3
    <2> QED
      BY <1>3, <2>1 DEF Exists
  <1> QED
    BY <1>1, <1>2, <1>3

\* But for the insertion of a run and the disconnection of the connector, runs
\* stay those of their workflow and email.
LEMMA IdentityKept ==
  ASSUME WellTyped, NEW r \in RunId,
         \/ \E w \in Worker : HandlerStep(w) /\ ~ InsertRun(w, r)
         \/ \E w \in Worker, m \in Message : Receive(w, m)
         \/ \E u \in User : RequestStep(u)
         \/ SurroundingStep \/ Crash \/ Reconnect
  PROVE  /\ runs'[r].workflow = runs[r].workflow /\ runs'[r].email = runs[r].email
         /\ Exists(r)' <=> Exists(r)
         /\ runs'[r].status = "pending" => runs[r].status = "pending"
         /\ runs'[r].status = "deleted" <=> runs[r].status = "deleted"
  <1>0. runs \in [RunId -> Run] /\ JobsTyped /\ RequestsTyped
    BY DEF WellTyped, RunsTyped
  <1>1. CASE runs' = runs
    BY <1>1 DEF Exists
  <1>2. ASSUME NEW w \in Worker, Categorize(w) \/ Skip(w) \/ Explain(w) \/ Record(w)
        PROVE  /\ runs'[r].workflow = runs[r].workflow /\ runs'[r].email = runs[r].email
               /\ Exists(r)' <=> Exists(r)
               /\ runs'[r].status = "pending" => runs[r].status = "pending"
               /\ runs'[r].status = "deleted" <=> runs[r].status = "deleted"
    <2> DEFINE q == job[w].msg.run
    <2>1. q \in RunId /\ runs[q] \in Run
      <3>1. job[w].pc \in {"categorize", "skip", "explain", "record"}
        BY <1>2 DEF Categorize, Skip, Explain, Record
      <3> QED
        BY <1>0, <3>1, Busy DEF StepsOf
    <2>2. CASE Categorize(w)
      <3>1. CASE runs' = runs
        BY <1>1, <3>1
      <3>2. CASE runs' # runs
        <4>1. PICK a \in Category \cup {NoMatch} :
                runs' = IF Exists(q)
                        THEN [runs EXCEPT ![q].currentStep = "Categorize Email",
                                          ![q].category = a, ![q].draft = None]
                        ELSE runs
          BY <2>2, <3>2 DEF Categorize
        <4> DEFINE x == [runs[q] EXCEPT !.currentStep = "Categorize Email", !.category = a,
                                        !.draft = None]
        <4>2. x \in Run /\ x.workflow = runs[q].workflow /\ x.email = runs[q].email
              /\ x.status = runs[q].status
          BY <2>1 DEF Run
        <4>3. runs' = IF Exists(q) THEN [runs EXCEPT ![q] = x] ELSE runs
          BY <1>0, <2>1, <4>1
        <4> HIDE DEF x, q
        <4> QED
          BY <1>0, <2>1, <4>2, <4>3, Rewritten
      <3> QED
        BY <3>1, <3>2
    <2>3. CASE Skip(w)
      <3> DEFINE x == [runs[q] EXCEPT !.status = "skipped", !.explanation = "no_category"]
      <3>1. x \in Run /\ x.workflow = runs[q].workflow /\ x.email = runs[q].email
            /\ x.status = "skipped"
        BY <2>1 DEF Run
      <3>2. runs' = IF Exists(q) THEN [runs EXCEPT ![q] = x] ELSE runs
        BY <1>0, <2>1, <2>3 DEF Skip
      <3> HIDE DEF x, q
      <3> QED
        BY <1>0, <2>1, <3>1, <3>2, Rewritten
    <2>4. CASE Explain(w)
      <3> DEFINE x == [runs[q] EXCEPT !.status = "completed", !.explanation = "no_resources"]
      <3>1. x \in Run /\ x.workflow = runs[q].workflow /\ x.email = runs[q].email
            /\ x.status = "completed"
        BY <2>1 DEF Run
      <3>2. runs' = IF Exists(q) THEN [runs EXCEPT ![q] = x] ELSE runs
        BY <1>0, <2>1, <2>4 DEF Explain
      <3> HIDE DEF x, q
      <3> QED
        BY <1>0, <2>1, <3>1, <3>2, Rewritten
    <2>5. CASE Record(w)
      <3> DEFINE s == IF AutoReply(w) THEN "completed" ELSE "awaiting_action"
                 x == [runs[q] EXCEPT !.status = s, !.currentStep = "Reply Email",
                                      !.category = job[w].snap.category, !.draft = "generated"]
      <3>0. job[w].snap.category \in Category \cup {None, NoMatch}
        BY <1>0 DEF JobsTyped, Job, Run
      <3>1. x \in Run /\ x.workflow = runs[q].workflow /\ x.email = runs[q].email
            /\ x.status \in {"completed", "awaiting_action"}
        BY <2>1, <3>0 DEF Run, Body
      <3>2. runs' = IF Exists(q) THEN [runs EXCEPT ![q] = x] ELSE runs
        BY <1>0, <2>1, <2>5 DEF Record
      <3> HIDE DEF x, q
      <3> QED
        BY <1>0, <2>1, <3>1, <3>2, Rewritten
    <2> QED
      BY <1>2, <2>2, <2>3, <2>4, <2>5
  <1>3. ASSUME NEW u \in User, SaveDraft(u) \/ CompleteApproved(u)
        PROVE  /\ runs'[r].workflow = runs[r].workflow /\ runs'[r].email = runs[r].email
               /\ Exists(r)' <=> Exists(r)
               /\ runs'[r].status = "pending" => runs[r].status = "pending"
               /\ runs'[r].status = "deleted" <=> runs[r].status = "deleted"
    <2> DEFINE q == request[u].run
    <2>1. q \in RunId /\ runs[q] \in Run /\ request[u].snap \in Run
      <3>1. request[u].pc \in {"save_draft", "complete"}
        BY <1>3 DEF SaveDraft, CompleteApproved
      <3> QED
        BY <1>0, <3>1 DEF RequestsTyped, RequestOK, Request
    <2>2. CASE SaveDraft(u)
      <3> DEFINE x == [runs[q] EXCEPT !.category = request[u].snap.category, !.draft = u]
      <3>1. x \in Run /\ x.workflow = runs[q].workflow /\ x.email = runs[q].email
            /\ x.status = runs[q].status
        BY <2>1 DEF Run, Body
      <3>2. runs' = IF Exists(q) THEN [runs EXCEPT ![q] = x] ELSE runs
        BY <1>0, <2>1, <2>2 DEF SaveDraft
      <3> HIDE DEF x, q
      <3> QED
        BY <1>0, <2>1, <3>1, <3>2, Rewritten
    <2>3. CASE CompleteApproved(u)
      <3> DEFINE x == [runs[q] EXCEPT !.status = "completed",
                                      !.category = request[u].snap.category,
                                      !.draft = request[u].snap.draft]
      <3>1. x \in Run /\ x.workflow = runs[q].workflow /\ x.email = runs[q].email
            /\ x.status = "completed"
        BY <2>1 DEF Run
      <3>2. runs' = IF Exists(q) THEN [runs EXCEPT ![q] = x] ELSE runs
        BY <1>0, <2>1, <2>3 DEF CompleteApproved
      <3> HIDE DEF x, q
      <3> QED
        BY <1>0, <2>1, <3>1, <3>2, Rewritten
    <2> QED
      BY <1>3, <2>2, <2>3
  <1>4. ASSUME NEW w \in Worker, NEW q \in RunId, InsertRun(w, q), ~ InsertRun(w, r)
        PROVE  runs'[r] = runs[r]
    BY <1>0, <1>4 DEF InsertRun
  <1>5. \/ runs' = runs
        \/ \E w \in Worker : Categorize(w) \/ Skip(w) \/ Explain(w) \/ Record(w)
        \/ \E u \in User : SaveDraft(u) \/ CompleteApproved(u)
        \/ \E w \in Worker, q \in RunId : InsertRun(w, q) /\ ~ InsertRun(w, r)
    BY DEF HandlerStep, RequestStep, SurroundingStep, WorkerStep, UserStep, Receive, FindEmail,
           FindRun, LinkEmail, PublishRun, Load, Reload, FindCategory, PublishReply, RouteReply,
           Ack, SendGmail, RefuseGmail, Approve, LoadDraft, PublishApproved, EditCategory,
           DeleteEmails, Crash, Reconnect, vars, tables
  <1> QED
    BY <1>1, <1>2, <1>3, <1>4, <1>5 DEF Exists

LEMMA RunsForKept ==
  ASSUME WellTyped,
         \/ \E w \in Worker : HandlerStep(w) /\ \A r \in RunId : ~ InsertRun(w, r)
         \/ \E w \in Worker, m \in Message : Receive(w, m)
         \/ \E u \in User : RequestStep(u)
         \/ SurroundingStep \/ Crash \/ Reconnect,
         NEW f, NEW e
  PROVE  RunsFor(f, e)' = RunsFor(f, e)
  <1>1. \A r \in RunId : r \in RunsFor(f, e)' <=> r \in RunsFor(f, e)
    BY IdentityKept DEF RunsFor
  <1> QED
    BY <1>1 DEF RunsFor

\* Only a delivery and a return of deliveries move the announcement of an
\* email; only PublishRun adds to the messages of a run.
LEMMA QueueKept ==
  ASSUME WellTyped, NEW m \in Message,
         \/ \E w \in Worker : HandlerStep(w)
         \/ \E u \in User : RequestStep(u)
         \/ SurroundingStep \/ DeleteRuns
  PROVE  /\ m.type = "process_incoming_email" => queue'[m] = queue[m]
         /\ m.type = "email_assistant" =>
              \/ queue'[m] = queue[m]
              \/ /\ queue'[m] = queue[m] + 1
                 /\ \E w \in Worker : PublishRun(w) /\ m = Assist(job[w].run, job[w].msg.email)
  <1>0. queue \in [Message -> Nat] /\ JobsTyped
    BY DEF WellTyped, RestTyped
  <1>1. CASE queue' = queue
    BY <1>1
  <1>2. ASSUME NEW w \in Worker, PublishRun(w), queue' # queue
        PROVE  /\ m.type = "process_incoming_email" => queue'[m] = queue[m]
               /\ m.type = "email_assistant" =>
                    \/ queue'[m] = queue[m]
                    \/ /\ queue'[m] = queue[m] + 1
                       /\ m = Assist(job[w].run, job[w].msg.email)
    <2>1. Publish(Assist(job[w].run, job[w].msg.email))
      BY <1>2 DEF PublishRun
    <2>2. Assist(job[w].run, job[w].msg.email).type = "email_assistant"
      BY DEF Assist
    <2> QED
      BY <1>0, <2>1, <2>2 DEF Publish
  <1>3. ASSUME NEW k, k.type \in {"email_workflow_reply", "email_workflow_reply_gmail"}, Publish(k)
        PROVE  m.type \in {"process_incoming_email", "email_assistant"} => queue'[m] = queue[m]
    BY <1>0, <1>3 DEF Publish
  <1>4. ASSUME NEW w \in Worker, PublishReply(w) \/ RouteReply(w), queue' # queue
        PROVE  m.type \in {"process_incoming_email", "email_assistant"} => queue'[m] = queue[m]
    <2>1. CASE PublishReply(w)
      <3>1. Reply(job[w].msg.run, job[w].msg.email, "generated").type = "email_workflow_reply"
        BY DEF Reply
      <3> QED
        BY <1>3, <2>1, <3>1 DEF PublishReply
    <2>2. CASE RouteReply(w)
      <3>1. GmailReply(job[w].msg.run, job[w].msg.email, job[w].msg.body).type
              = "email_workflow_reply_gmail"
        BY DEF GmailReply
      <3> QED
        BY <1>3, <1>4, <2>2, <3>1 DEF RouteReply
    <2> QED
      BY <1>4, <2>1, <2>2
  <1>5. ASSUME NEW w \in Worker, RefuseGmail(w)
        PROVE  m.type \in {"process_incoming_email", "email_assistant"} => queue'[m] = queue[m]
    <2>1. job[w].msg.type = "email_workflow_reply_gmail"
      BY <1>0, <1>5, Busy DEF RefuseGmail
    <2> QED
      BY <1>0, <1>5, <2>1 DEF RefuseGmail, Nack
  <1>6. ASSUME NEW u \in User, PublishApproved(u)
        PROVE  m.type \in {"process_incoming_email", "email_assistant"} => queue'[m] = queue[m]
    <2>1. Reply(request[u].run, request[u].snap.email, request[u].snap.draft).type
            = "email_workflow_reply"
      BY DEF Reply
    <2> QED
      BY <1>3, <1>6, <2>1 DEF PublishApproved
  <1>7. \/ queue' = queue
        \/ \E w \in Worker : PublishRun(w) /\ queue' # queue
        \/ \E w \in Worker : (PublishReply(w) \/ RouteReply(w)) /\ queue' # queue
        \/ \E w \in Worker : RefuseGmail(w)
        \/ \E u \in User : PublishApproved(u)
    BY DEF HandlerStep, RequestStep, SurroundingStep, WorkerStep, UserStep, FindEmail, FindRun,
           InsertRun, LinkEmail, Load, Categorize, Skip, Reload, FindCategory, Explain, Record, Ack,
           SendGmail, Approve, LoadDraft, SaveDraft, CompleteApproved, EditCategory, DeleteRuns,
           DeleteEmails, vars
  <1> QED
    BY <1>1, <1>2, <1>4, <1>5, <1>6, <1>7

-----------------------------------------------------------------------------
(* Deliveries that come back *)

LEMMA ReturnedCounts ==
  ASSUME WellTyped, NEW m \in Message
  PROVE  /\ Returned[m] \in Nat /\ queue[m] \in Nat /\ Returned[m] >= queue[m]
         /\ \A w \in Worker : job[w].held /\ job[w].msg = m => Returned[m] > 0
         /\ (\A v, w \in Worker : job[v].held /\ job[v].msg = m /\ job[w].held /\ job[w].msg = m
               => v = w) => Returned[m] <= queue[m] + 1
         /\ (\A w \in Worker : ~ (job[w].held /\ job[w].msg = m)) => Returned[m] = queue[m]
  <1> DEFINE S == {w \in Worker : job[w].held /\ job[w].msg = m}
  <1>1. IsFiniteSet(S)
    BY ConstantsAssumption, FS_Subset
  <1>2. Cardinality(S) \in Nat /\ (S # {} => Cardinality(S) > 0) /\ (S = {} => Cardinality(S) = 0)
    BY <1>1, FS_CardinalityType, FS_EmptySet
  <1>3. queue[m] \in Nat /\ Returned[m] = queue[m] + Cardinality(S)
    BY DEF WellTyped, RestTyped, Returned
  <1>4. ASSUME \A v, w \in S : v = w
        PROVE  Cardinality(S) <= 1
    <2>1. CASE S = {}
      BY <1>2, <2>1
    <2>2. CASE S # {}
      <3>1. PICK w \in S : S = {w}
        BY <1>4, <2>2
      <3>2. Cardinality({w}) = 1
        BY FS_Singleton
      <3> HIDE DEF S
      <3> QED
        BY <3>1, <3>2
    <2> QED
      BY <2>1, <2>2
  <1>5. /\ (\A w \in Worker : job[w].held /\ job[w].msg = m => w \in S)
        /\ (\A w \in S : w \in Worker /\ job[w].held /\ job[w].msg = m)
    OBVIOUS
  <1> HIDE DEF S
  <1> QED
    BY <1>2, <1>3, <1>4, <1>5

-----------------------------------------------------------------------------
(* The handler of an announcement *)

\* How a handler gets to each of its steps, and with what.
LEMMA IntakeMoves ==
  ASSUME WellTyped, NEW w \in Worker, HandlerStep(w),
         job'[w].pc \in {"find_run", "insert_run", "link_email", "publish_run"}
  PROVE  /\ job[w].msg.type = "process_incoming_email"
         /\ job'[w].msg = job[w].msg /\ job'[w].held = job[w].held
         /\ \/ /\ job[w].pc = "find_email" /\ job'[w].pc = "find_run"
               /\ job'[w].todo = Workflow /\ UNCHANGED <<runs, rows>>
            \/ /\ job[w].pc = "find_run" /\ job'[w].pc \in {"insert_run", "link_email"}
               /\ job'[w].todo = job[w].todo /\ job'[w].snap.workflow \in job[w].todo
               /\ job'[w].pc = "insert_run" =>
                    RunsFor(job'[w].snap.workflow, job[w].msg.email) = {}
               /\ job'[w].pc = "link_email" =>
                    job'[w].run \in RunsFor(job'[w].snap.workflow, job[w].msg.email)
               /\ UNCHANGED <<runs, rows>>
            \/ /\ job[w].pc = "insert_run" /\ job'[w].pc = "link_email"
               /\ job'[w].todo = job[w].todo /\ job'[w].snap.workflow = job[w].snap.workflow
               /\ job'[w].run \in RunId /\ InsertRun(w, job'[w].run)
            \/ /\ job[w].pc = "link_email" /\ job'[w].pc = "publish_run"
               /\ job'[w].todo = job[w].todo /\ job'[w].snap = job[w].snap
               /\ job'[w].run = job[w].run /\ Exists(job[w].run) /\ UNCHANGED runs
            \/ /\ job[w].pc = "publish_run" /\ job'[w].pc = "find_run" /\ PublishRun(w)
               /\ job'[w].todo = job[w].todo \ {job[w].snap.workflow}
               /\ job[w].snap.workflow \in NamedAsType /\ UNCHANGED <<runs, rows>>
  <1>0. /\ job \in [Worker -> Job] /\ job[w] \in Job /\ JobsTyped
        /\ runs \in [RunId -> Run]
    BY DEF WellTyped, JobsTyped, RunsTyped
  <1>1. /\ job[w].pc # "idle"
        /\ job'[w].msg = job[w].msg /\ job'[w].held = job[w].held
    BY HandlerSteps DEF HandlerStep, Idle
  <1>2. job[w].pc \in {"find_email", "find_run", "insert_run", "link_email", "publish_run"}
          => job[w].msg.type = "process_incoming_email"
    BY <1>0, <1>1, Busy DEF StepsOf
  <1>3. CASE FindEmail(w)
    BY <1>0, <1>1, <1>2, <1>3 DEF FindEmail, Goto, Job, tables
  <1>4. CASE FindRun(w)
    <2>1. PICK f \in job[w].todo :
            \/ /\ RunsFor(f, job[w].msg.email) = {}
               /\ job' = [job EXCEPT ![w].pc = "insert_run", ![w].snap.workflow = f]
            \/ \E q \in RunsFor(f, job[w].msg.email) :
                 job' = [job EXCEPT ![w].pc = "link_email", ![w].run = q,
                                    ![w].snap.workflow = f]
      BY <1>4 DEF FindRun
    <2>2. job[w].pc = "find_run" /\ UNCHANGED <<runs, rows>>
      BY <1>4 DEF FindRun, tables
    <2>3. job[w].snap \in Run
      BY <1>0 DEF Job
    <2>4. CASE /\ RunsFor(f, job[w].msg.email) = {}
               /\ job' = [job EXCEPT ![w].pc = "insert_run", ![w].snap.workflow = f]
      <3>1. /\ job'[w].pc = "insert_run" /\ job'[w].todo = job[w].todo
            /\ job'[w].snap.workflow = f
        BY <1>0, <2>3, <2>4 DEF Job, Run
      <3> QED
        BY <1>1, <1>2, <2>2, <2>4, <3>1
    <2>5. ASSUME NEW q \in RunsFor(f, job[w].msg.email),
                 job' = [job EXCEPT ![w].pc = "link_email", ![w].run = q, ![w].snap.workflow = f]
          PROVE  /\ job'[w].pc = "link_email" /\ job'[w].todo = job[w].todo
                 /\ job'[w].snap.workflow = f /\ job'[w].run = q
      BY <1>0, <2>3, <2>5 DEF Job, Run
    <2> QED
      BY <1>1, <1>2, <2>1, <2>2, <2>4, <2>5
  <1>5. ASSUME NEW r \in RunId, InsertRun(w, r)
        PROVE  /\ job[w].pc = "insert_run" /\ job'[w].pc = "link_email"
               /\ job'[w].todo = job[w].todo /\ job'[w].snap.workflow = job[w].snap.workflow
               /\ job'[w].run \in RunId /\ InsertRun(w, job'[w].run)
    <2>1. /\ job[w].pc = "insert_run" /\ job'[w].pc = "link_email" /\ job'[w].run = r
          /\ job'[w].todo = job[w].todo /\ job'[w].snap = job[w].snap
      BY <1>0, <1>5 DEF InsertRun, Job
    <2> QED
      BY <1>5, <2>1
  <1>6. CASE LinkEmail(w)
    BY <1>0, <1>1, <1>2, <1>6 DEF LinkEmail, Goto, GiveUp, Job
  <1>7. CASE PublishRun(w)
    BY <1>0, <1>1, <1>2, <1>7 DEF PublishRun, Goto, GiveUp, Job, tables
  <1>8. CASE Load(w) \/ Reload(w)
    BY <1>0, <1>8 DEF Load, Reload, AfterRead, Job
  <1>9. CASE Categorize(w) \/ Skip(w) \/ Explain(w) \/ Record(w)
    <2>1. CASE Categorize(w)
      <3>1. Goto(w, "skip") \/ Goto(w, "reload") \/ Goto(w, "done")
        BY <2>1 DEF Categorize, GiveUp
      <3>2. job'[w].pc \in {"skip", "reload", "done"}
        BY <1>0, <3>1 DEF Goto, Job
      <3> QED
        BY <3>2
    <2>2. CASE Skip(w) \/ Explain(w) \/ Record(w)
      <3>1. job'[w].pc = "done"
        BY <1>0, <2>2 DEF Skip, Explain, Record, Goto, Job
      <3> QED
        BY <3>1
    <2> QED
      BY <1>9, <2>1, <2>2
  <1>10. CASE FindCategory(w) \/ PublishReply(w)
    BY <1>0, <1>10 DEF FindCategory, PublishReply, Goto, GiveUp, Job
  <1>11. CASE RouteReply(w) \/ SendGmail(w) \/ RefuseGmail(w) \/ Ack(w)
    BY <1>0, <1>11 DEF RouteReply, SendGmail, RefuseGmail, Ack, Nack, Goto, Job, Idle
  <1> QED
    BY <1>1, <1>2, <1>3, <1>4, <1>5, <1>6, <1>7, <1>8, <1>9, <1>10, <1>11
       DEF HandlerStep, WorkerStep

-----------------------------------------------------------------------------
(* One run for each workflow and email *)

\* But for an insertion, no run appears for a workflow and an email.
LEMMA RunsForShrinks ==
  ASSUME WellTyped,
         \/ \E w \in Worker : HandlerStep(w) /\ \A r \in RunId : ~ InsertRun(w, r)
         \/ \E u \in User : RequestStep(u)
         \/ SurroundingStep \/ DeleteRuns
  PROVE  /\ \A r \in RunId : Exists(r)' =>
              /\ Exists(r)
              /\ runs'[r].workflow = runs[r].workflow /\ runs'[r].email = runs[r].email
         /\ \A f, e : RunsFor(f, e)' \subseteq RunsFor(f, e)
  <1>1. ASSUME NEW r \in RunId, Exists(r)'
        PROVE  /\ Exists(r)
               /\ runs'[r].workflow = runs[r].workflow /\ runs'[r].email = runs[r].email
    <2>1. CASE DeleteRuns
      <3>1. runs'[r] = runs[r]
        BY <1>1, <2>1 DEF DeleteRuns, Exists, NoRun
      <3> QED
        BY <1>1, <3>1 DEF Exists
    <2>2. CASE ~ DeleteRuns
      BY <1>1, <2>2, IdentityKept
    <2> QED
      BY <2>1, <2>2
  <1> QED
    BY <1>1 DEF RunsFor

LEMMA OnceReceive ==
  ASSUME WellTyped, OnceInv, NEW w \in Worker, NEW m \in Message, Receive(w, m)
  PROVE  OnceInv'
  <1>0. /\ job \in [Worker -> Job] /\ queue \in [Message -> Nat]
        /\ runs' = runs /\ reconnects' = reconnects
    BY DEF WellTyped, JobsTyped, RestTyped, Receive, tables, faults
  <1> SUFFICES ASSUME reconnects' = 0
               PROVE  (\A e \in Email : OneAnnouncement(e)') /\ StillNone' /\ NoTwins'
    BY DEF OnceInv
  <1>1. (\A e \in Email : OneAnnouncement(e)) /\ StillNone /\ NoTwins
    BY <1>0 DEF OnceInv
  <1>2. /\ job'[w].pc = FirstStep(m) /\ job'[w].msg = m /\ job[w].pc = "idle"
        /\ \A v \in Worker \ {w} : job'[v] = job[v]
        /\ queue[m] > 0 /\ queue' = [queue EXCEPT ![m] = @ - 1]
    BY <1>0 DEF Receive, Idle, Queued
  <1>3. FirstStep(m) \notin {"idle", "insert_run"}
    BY Messages DEF FirstStep
  <1>4. ASSUME NEW e \in Email
        PROVE  OneAnnouncement(e)'
    <2>0. ProcessEmail(e) \in Message /\ OneAnnouncement(e)
      BY <1>1, Messages
    <2>1. CASE m = ProcessEmail(e)
      <3>1. /\ queue'[ProcessEmail(e)] = 0
            /\ \A v \in Worker : ~ TakesIn(job[v], e)
        BY <1>0, <1>2, <2>0, <2>1 DEF OneAnnouncement
      <3>2. \A v \in Worker : TakesIn(job'[v], e) => v = w
        BY <1>2, <3>1
      <3> QED
        BY <3>1, <3>2 DEF OneAnnouncement
    <2>2. CASE m # ProcessEmail(e)
      <3>1. queue'[ProcessEmail(e)] = queue[ProcessEmail(e)]
        BY <1>0, <1>2, <2>0, <2>2
      <3>2. \A v \in Worker : TakesIn(job'[v], e) => TakesIn(job[v], e)
        BY <1>2, <2>2 DEF TakesIn
      <3> QED
        BY <2>0, <3>1, <3>2 DEF OneAnnouncement
    <2> QED
      BY <2>1, <2>2
  <1>5. StillNone'
    BY <1>0, <1>1, <1>2, <1>3 DEF StillNone, RunsFor, Exists
  <1>6. NoTwins'
    BY <1>0, <1>1 DEF NoTwins, Exists
  <1> QED
    BY <1>4, <1>5, <1>6

LEMMA OnceCrash ==
  ASSUME WellTyped, RunInv, OnceInv, Crash
  PROVE  OnceInv'
  <1>0. /\ runs' = runs /\ reconnects' = reconnects /\ queue' = Returned
        /\ \A w \in Worker : job'[w] = Idle
    BY DEF Crash, tables
  <1> SUFFICES ASSUME reconnects' = 0
               PROVE  (\A e \in Email : OneAnnouncement(e)') /\ StillNone' /\ NoTwins'
    BY DEF OnceInv
  <1>1. (\A e \in Email : OneAnnouncement(e)) /\ NoTwins
    BY <1>0 DEF OnceInv
  <1>2. ASSUME NEW e \in Email
        PROVE  OneAnnouncement(e)'
    <2> DEFINE m == ProcessEmail(e)
    <2>1. m \in Message /\ OneAnnouncement(e)
      BY <1>1, Messages
    <2>2. \A w \in Worker : job[w].held /\ job[w].msg = m => TakesIn(job[w], e)
      BY DEF RunInv, HeldBusy, TakesIn
    <2> HIDE DEF m
    <2>3. Returned[m] <= 1
      <3>1. CASE \E w \in Worker : job[w].held /\ job[w].msg = m
        <4>1. queue[m] = 0 /\ Returned[m] <= queue[m] + 1
          BY <2>1, <2>2, <3>1, ReturnedCounts DEF OneAnnouncement, m
        <4> QED
          BY <4>1
      <3>2. CASE ~ \E w \in Worker : job[w].held /\ job[w].msg = m
        BY <2>1, <3>2, ReturnedCounts DEF OneAnnouncement, m
      <3> QED
        BY <3>1, <3>2
    <2>4. \A w \in Worker : ~ TakesIn(job'[w], e)
      BY <1>0 DEF TakesIn, Idle
    <2> QED
      BY <1>0, <2>3, <2>4 DEF OneAnnouncement, m
  <1>3. StillNone'
    BY <1>0 DEF StillNone, Idle
  <1>4. NoTwins'
    BY <1>0, <1>1 DEF NoTwins, Exists
  <1> QED
    BY <1>2, <1>3, <1>4

LEMMA OnceWorker ==
  ASSUME WellTyped, OnceInv, NEW w \in Worker, HandlerStep(w)
  PROVE  OnceInv'
  <1>0. runs \in [RunId -> Run] /\ reconnects' = reconnects /\ JobsTyped
    <2>1. reconnects' = reconnects
      BY DEF HandlerStep, WorkerStep, FindEmail, FindRun, InsertRun, LinkEmail, PublishRun, Load,
             Categorize, Skip, Reload, FindCategory, Explain, PublishReply, Record, RouteReply, Ack,
             SendGmail, RefuseGmail, faults
    <2> QED
      BY <2>1 DEF WellTyped, RunsTyped
  <1> SUFFICES ASSUME reconnects' = 0
               PROVE  (\A e \in Email : OneAnnouncement(e)') /\ StillNone' /\ NoTwins'
    BY DEF OnceInv
  <1>1. (\A e \in Email : OneAnnouncement(e)) /\ StillNone /\ NoTwins
    BY <1>0 DEF OnceInv
  <1>2. /\ job[w].pc # "idle"
        /\ \A v \in Worker \ {w} : job'[v] = job[v]
        /\ \/ job'[w].msg = job[w].msg /\ job'[w].pc # "idle"
           \/ job'[w] = Idle
    BY HandlerSteps DEF HandlerStep
  <1>3. ASSUME NEW e \in Email
        PROVE  OneAnnouncement(e)'
    <2>1. \A v \in Worker : TakesIn(job'[v], e) => TakesIn(job[v], e)
      BY <1>2 DEF TakesIn, Idle
    <2>2. queue'[ProcessEmail(e)] = queue[ProcessEmail(e)]
      BY Messages, QueueKept DEF ProcessEmail
    <2> QED
      BY <1>1, <2>1, <2>2 DEF OneAnnouncement
  <1>4. CASE \A r \in RunId : ~ InsertRun(w, r)
    <2>2. ASSUME NEW v \in Worker, NEW r \in RunId, job'[v].pc = "insert_run", Exists(r)'
          PROVE  runs'[r].workflow # job'[v].snap.workflow \/ runs'[r].email # job'[v].msg.email
      <3>1. Exists(r) /\ runs'[r].workflow = runs[r].workflow /\ runs'[r].email = runs[r].email
        BY <1>4, <2>2, RunsForShrinks
      <3>2. CASE v = w
        <4>1. job'[w].msg = job[w].msg
              /\ RunsFor(job'[w].snap.workflow, job[w].msg.email) = {}
          BY <2>2, <3>2, IntakeMoves
        <4> QED
          BY <3>1, <3>2, <4>1 DEF RunsFor
      <3>3. CASE v # w
        BY <1>1, <1>2, <2>2, <3>1, <3>3 DEF StillNone
      <3> QED
        BY <3>2, <3>3
    <2>3. NoTwins'
      <3>1. \A r \in RunId : Exists(r)' =>
              /\ Exists(r)
              /\ runs'[r].workflow = runs[r].workflow /\ runs'[r].email = runs[r].email
        BY <1>4, RunsForShrinks
      <3> QED
        BY <1>1, <3>1 DEF NoTwins
    <2> QED
      BY <1>3, <2>2, <2>3 DEF StillNone
  <1>5. ASSUME NEW r \in RunId, InsertRun(w, r)
        PROVE  StillNone' /\ NoTwins'
    <2> DEFINE f == job[w].snap.workflow
               e == job[w].msg.email
    <2>1. /\ job[w].pc = "insert_run" /\ job'[w].pc = "link_email" /\ ~ Exists(r)
          /\ runs'[r].workflow = f /\ runs'[r].email = e
          /\ \A q \in RunId \ {r} : runs'[q] = runs[q]
      <3>1. job \in [Worker -> Job] /\ job[w] \in Job
        BY DEF WellTyped, JobsTyped
      <3> QED
        BY <1>0, <1>5, <3>1 DEF InsertRun, NoRun, Exists, Job
    <2>2. e \in Email /\ TakesIn(job[w], e)
      <3>1. job[w].msg \in Message /\ job[w].msg.type = "process_incoming_email" /\ e \in Email
        BY <1>0, <2>1, Busy DEF StepsOf
      <3> QED
        BY <2>1, <3>1, SameMessage DEF TakesIn
    <2>3. \A q \in RunId : ~ (Exists(q) /\ runs[q].workflow = f /\ runs[q].email = e)
      BY <1>1, <2>1 DEF StillNone
    <2>4. ASSUME NEW v \in Worker, NEW q \in RunId, job'[v].pc = "insert_run", Exists(q)'
          PROVE  runs'[q].workflow # job'[v].snap.workflow \/ runs'[q].email # job'[v].msg.email
      <3>1. v # w /\ job'[v] = job[v] /\ job[v].pc = "insert_run"
        BY <1>2, <2>1, <2>4
      <3>2. job[v].msg \in Message /\ job[v].msg.type = "process_incoming_email"
            /\ job[v].msg.email \in Email
        BY <1>0, <3>1, Busy DEF StepsOf
      <3>3. TakesIn(job[v], job[v].msg.email)
        BY <3>1, <3>2, SameMessage DEF TakesIn
      <3>4. job[v].msg.email # e
        BY <1>1, <2>2, <3>1, <3>3 DEF OneAnnouncement
      <3>5. CASE q = r
        BY <2>1, <3>1, <3>4, <3>5
      <3>6. CASE q # r
        BY <1>1, <2>1, <2>4, <3>1, <3>6 DEF StillNone, Exists
      <3> QED
        BY <3>5, <3>6
    <2>5. NoTwins'
      <3> SUFFICES ASSUME NEW p \in RunId, NEW q \in RunId, Exists(p)', Exists(q)',
                          runs'[p].workflow = runs'[q].workflow, runs'[p].email = runs'[q].email,
                          p # q
                   PROVE  FALSE
        BY DEF NoTwins
      <3> HIDE DEF f, e
      <3>1. CASE p # r /\ q # r
        BY <1>1, <2>1, <3>1 DEF NoTwins, Exists
      <3>2. CASE p = r /\ q # r
        BY <2>1, <2>3, <3>2 DEF Exists
      <3>3. CASE q = r /\ p # r
        BY <2>1, <2>3, <3>3 DEF Exists
      <3> QED
        BY <3>1, <3>2, <3>3
    <2> QED
      BY <2>4, <2>5 DEF StillNone
  <1> QED
    BY <1>3, <1>4, <1>5

LEMMA OnceRest ==
  ASSUME WellTyped, OnceInv,
         (\E u \in User : RequestStep(u)) \/ SurroundingStep \/ DeleteRuns
  PROVE  OnceInv'
  <1>0. reconnects' = reconnects /\ job' = job
    <2>1. CASE \E u \in User : RequestStep(u)
      BY <2>1 DEF RequestStep, UserStep, Approve, LoadDraft, SaveDraft, PublishApproved,
                  CompleteApproved, faults
    <2>2. CASE SurroundingStep \/ DeleteRuns
      BY <2>2 DEF SurroundingStep, EditCategory, DeleteEmails, DeleteRuns, vars, faults
    <2> QED
      BY <2>1, <2>2
  <1>1. \A e \in Email : queue'[ProcessEmail(e)] = queue[ProcessEmail(e)]
    BY Messages, QueueKept DEF ProcessEmail
  <1>2. /\ \A f, e : RunsFor(f, e)' \subseteq RunsFor(f, e)
        /\ \A r \in RunId : Exists(r)' =>
              /\ Exists(r)
              /\ runs'[r].workflow = runs[r].workflow /\ runs'[r].email = runs[r].email
    BY RunsForShrinks
  <1>3. ASSUME NEW e \in Email, OneAnnouncement(e)
        PROVE  OneAnnouncement(e)'
    BY <1>0, <1>1, <1>3 DEF OneAnnouncement
  <1>4. StillNone => StillNone'
    BY <1>0, <1>2 DEF StillNone
  <1>5. NoTwins => NoTwins'
    BY <1>2 DEF NoTwins
  <1> QED
    BY <1>0, <1>3, <1>4, <1>5 DEF OnceInv

LEMMA OnceNext ==
  ASSUME WellTyped, RunInv, OnceInv, [Next]_vars
  PROVE  OnceInv'
  <1>1. CASE \E w \in Worker, m \in Message : Receive(w, m)
    BY <1>1, OnceReceive
  <1>2. CASE \E w \in Worker : WorkerStep(w) \/ SendGmail(w) \/ RefuseGmail(w)
    BY <1>2, OnceWorker DEF HandlerStep
  <1>3. CASE \E u \in User : (\E q \in RunId : Approve(u, q)) \/ UserStep(u)
    BY <1>3, OnceRest DEF RequestStep
  <1>4. CASE Crash
    BY <1>4, OnceCrash
  <1>5. CASE Reconnect
    <2>1. reconnects' # 0
      BY <1>5 DEF Reconnect, WellTyped, RestTyped
    <2> QED
      BY <2>1 DEF OnceInv
  <1>6. CASE (\E c \in Category : EditCategory(c)) \/ DeleteRuns \/ DeleteEmails \/ UNCHANGED vars
    BY <1>6, OnceRest DEF SurroundingStep
  <1> QED
    BY <1>1, <1>2, <1>3, <1>4, <1>5, <1>6 DEF Next

LEMMA OnceInit == Init => OnceInv
  <1> SUFFICES ASSUME Init PROVE OnceInv
    OBVIOUS
  <1>1. /\ \A w \in Worker : job[w] = Idle
        /\ \A e \in Email : queue[ProcessEmail(e)] = 1
        /\ \A r \in RunId : runs[r] = NoRun
    BY Messages DEF Init, ProcessEmail
  <1> QED
    BY <1>1 DEF OnceInv, OneAnnouncement, TakesIn, StillNone, NoTwins, Exists, Idle, NoRun

\* createWorkflowRun finds what an earlier attempt at the same email has made:
\* however often the process dies, an email has one run for each workflow, as
\* long as it is not handed to two handlers that are both alive.
THEOREM EmailsHaveOneRun == Spec => []OneRunPerEmail
  <1>1. OnceInv => OneRunPerEmail
    BY DEF OnceInv, NoTwins, OneRunPerEmail
  <1>2. Init => OnceInv
    BY OnceInit
  <1>3. WellTyped /\ RunInv /\ OnceInv /\ [Next]_vars => OnceInv'
    BY OnceNext
  <1> QED
    BY <1>1, <1>2, <1>3, AlwaysKept, PTL DEF Spec

-----------------------------------------------------------------------------
(* No run is left without someone to work on it *)

\* A handler that is to start a workflow is so after its next step, gives up in
\* a caught error, or publishes the message of the run it has made or found.
LEMMA StartingKept ==
  ASSUME WellTyped, NEW w \in Worker, HandlerStep(w), connector = "linked",
         NEW f \in Workflow, NEW e \in Email, rows[e].stored,
         Starting(job[w], f, e), IntakeHolds(job[w])
  PROVE  \/ Starting(job'[w], f, e)
         \/ \E s \in abandoned' : runs'[s].email = e
         \/ /\ job[w].pc = "publish_run" /\ f = job[w].snap.workflow
            /\ job[w].run \in RunsFor(f, e) /\ queue'[Assist(job[w].run, e)] > 0
            /\ runs' = runs
  <1>0. /\ job \in [Worker -> Job] /\ job[w] \in Job /\ JobsTyped
        /\ queue \in [Message -> Nat]
    BY DEF WellTyped, JobsTyped, RestTyped
  <1>1. /\ job[w].msg = ProcessEmail(e) /\ job[w].msg.email = e
        /\ job[w].msg.type = "process_incoming_email"
        /\ job[w].pc \in {"find_email", "find_run", "insert_run", "link_email", "publish_run"}
    BY <1>0, Busy DEF Starting, ProcessEmail, JobsTyped, JobOK, StepsOf
  <1>2. \/ job'[w].held = job[w].held /\ job'[w].msg = job[w].msg
        \/ job'[w] = Idle
    BY HandlerSteps DEF HandlerStep
  <1>3. CASE FindEmail(w)
    <2>1. /\ job'[w].pc = "find_run" /\ job'[w].todo = Workflow
          /\ job'[w].held /\ job'[w].msg = job[w].msg
      BY <1>0, <1>1, <1>3 DEF FindEmail, Job, Starting
    <2> QED
      BY <1>1, <2>1 DEF Starting
  <1>4. CASE FindRun(w)
    <2>1. job'[w].pc \in {"insert_run", "link_email"} /\ job'[w].msg = job[w].msg
          /\ job'[w].held = job[w].held
      BY <1>0, <1>4, FindRunMoves
    <2>2. job'[w].todo = job[w].todo /\ job[w].pc = "find_run"
      BY <1>4, <2>1, IntakeMoves DEF HandlerStep, WorkerStep, FindRun
    <2> QED
      BY <2>1, <2>2 DEF Starting
  <1>5. ASSUME NEW r \in RunId, InsertRun(w, r)
        PROVE  Starting(job'[w], f, e)
    BY <1>0, <1>1, <1>5 DEF InsertRun, Starting, Job
  <1>6. CASE LinkEmail(w)
    <2>1. Exists(job[w].run)
      BY <1>6 DEF LinkEmail, IntakeHolds, RunsFor
    <2>2. job'[w].pc = "publish_run" /\ job'[w].todo = job[w].todo /\ job'[w].held = job[w].held
          /\ job'[w].msg = job[w].msg /\ job[w].pc = "link_email"
      BY <1>0, <1>6, <2>1 DEF LinkEmail, Goto, Job
    <2> QED
      BY <1>1, <2>2 DEF Starting
  <1>7. CASE PublishRun(w)
    <2> DEFINE g == job[w].snap.workflow
    <2>1. /\ job[w].pc = "publish_run" /\ runs' = runs /\ g \in job[w].todo
          /\ job[w].run \in RunsFor(g, e) /\ job[w].run \in RunId
      BY <1>1, <1>7 DEF PublishRun, IntakeHolds, tables, RunsFor
    <2>2. CASE g \notin NamedAsType
      <3>1. job[w].run \in abandoned' /\ runs'[job[w].run].email = e
        BY <1>7, <2>1, <2>2 DEF PublishRun, GiveUp, RunsFor
      <3> QED
        BY <3>1
    <2>3. CASE g \in NamedAsType /\ f = g
      <3>1. Assist(job[w].run, e) \in Message
        BY <2>1, Messages
      <3>2. queue'[Assist(job[w].run, e)] > 0
        BY <1>0, <1>1, <1>7, <2>3, <3>1 DEF PublishRun, Publish
      <3> QED
        BY <2>1, <2>3, <3>2
    <2>4. CASE g \in NamedAsType /\ f # g
      <3>1. f \in job[w].todo \ {g}
        BY <2>1, <2>4 DEF Starting
      <3>2. job'[w].pc = "find_run" /\ job'[w].todo = job[w].todo \ {g}
            /\ job'[w].held = job[w].held /\ job'[w].msg = job[w].msg
        BY <1>0, <1>7, <2>4, <3>1 DEF PublishRun, Job
      <3> QED
        BY <1>1, <3>1, <3>2 DEF Starting
    <2> QED
      BY <2>2, <2>3, <2>4
  <1> QED
    BY <1>1, <1>3, <1>4, <1>5, <1>6, <1>7
       DEF HandlerStep, WorkerStep, Load, Categorize, Skip, Reload, FindCategory, Explain,
           PublishReply, Record, RouteReply, Ack, SendGmail, RefuseGmail

LEMMA GoesTo ==
  ASSUME job \in [Worker -> Job], NEW w \in Worker, NEW pc, Goto(w, pc)
  PROVE  /\ job'[w].pc = pc /\ job'[w].held = job[w].held /\ job'[w].msg = job[w].msg
         /\ job'[w].snap = job[w].snap /\ job'[w].run = job[w].run
         /\ \A v \in Worker \ {w} : job'[v] = job[v]
  BY DEF Goto, Job

\* A handler stays at work on its run until the run is pending no more, or gives
\* it up in a caught error.
LEMMA MindedKept ==
  ASSUME WellTyped, NEW w \in Worker, HandlerStep(w), NEW r \in RunId,
         Deals(job[w], r), job[w].held, job[w].pc # "done",
         runs[r].status = "pending", runs'[r].status = "pending"
  PROVE  r \in abandoned' \/ (job'[w].held /\ job'[w].pc # "done" /\ Deals(job'[w], r))
  <1>0. /\ job \in [Worker -> Job] /\ job[w] \in Job /\ runs \in [RunId -> Run] /\ runs[r] \in Run
    BY DEF WellTyped, JobsTyped, RunsTyped
  <1>1. /\ job[w].msg.type = "email_assistant" /\ job[w].msg.run = r
        /\ job[w].pc \in StepsOf("email_assistant") \ {"done"}
    BY DEF WellTyped, JobsTyped, JobOK, Deals
  <1>2. CASE Load(w) \/ Reload(w)
    <2>1. job'[w].pc \in {"find_category", "categorize"} /\ job'[w].held = job[w].held
          /\ job'[w].msg = job[w].msg
      BY <1>0, <1>1, <1>2 DEF Load, Reload, AfterRead, Job
    <2> QED
      BY <1>1, <2>1 DEF Deals
  <1>3. CASE Categorize(w)
    <2>1. GiveUp(w, r) \/ Goto(w, "skip") \/ Goto(w, "reload")
      BY <1>1, <1>3 DEF Categorize
    <2>2. CASE GiveUp(w, r)
      BY <2>2 DEF GiveUp
    <2>3. CASE Goto(w, "skip") \/ Goto(w, "reload")
      <3>1. job'[w].pc \in {"skip", "reload"} /\ job'[w].held = job[w].held
            /\ job'[w].msg = job[w].msg
        BY <1>0, <2>3, GoesTo
      <3> QED
        BY <1>1, <3>1 DEF Deals
    <2> QED
      BY <2>1, <2>2, <2>3
  <1>4. CASE Skip(w)
    <2>1. runs'[r].status = "skipped"
      BY <1>0, <1>1, <1>4 DEF Skip, Exists, Run
    <2> QED
      BY <2>1
  <1>5. CASE Explain(w)
    <2>1. runs'[r].status = "completed"
      BY <1>0, <1>1, <1>5 DEF Explain, Exists, Run
    <2> QED
      BY <2>1
  <1>6. CASE Record(w)
    <2>1. runs'[r].status \in {"completed", "awaiting_action"}
      BY <1>0, <1>1, <1>6 DEF Record, Exists, Run
    <2> QED
      BY <2>1
  <1>7. CASE FindCategory(w)
    <2>1. GiveUp(w, r) \/ Goto(w, "explain") \/ Goto(w, "publish_reply") \/ Goto(w, "record")
      BY <1>1, <1>7 DEF FindCategory
    <2>2. CASE GiveUp(w, r)
      BY <2>2 DEF GiveUp
    <2>3. CASE Goto(w, "explain") \/ Goto(w, "publish_reply") \/ Goto(w, "record")
      <3>1. job'[w].pc \in {"explain", "publish_reply", "record"} /\ job'[w].held = job[w].held
            /\ job'[w].msg = job[w].msg
        BY <1>0, <2>3, GoesTo
      <3> QED
        BY <1>1, <3>1 DEF Deals
    <2> QED
      BY <2>1, <2>2, <2>3
  <1>8. CASE PublishReply(w)
    <2>1. job'[w].pc = "record" /\ job'[w].held = job[w].held /\ job'[w].msg = job[w].msg
      BY <1>0, <1>8 DEF PublishReply, Goto, Job
    <2> QED
      BY <1>1, <2>1 DEF Deals
  <1> QED
    BY <1>1, <1>2, <1>3, <1>4, <1>5, <1>6, <1>7, <1>8
       DEF HandlerStep, WorkerStep, StepsOf, FindEmail, FindRun, InsertRun, LinkEmail, PublishRun,
           RouteReply, Ack, SendGmail, RefuseGmail

LEMMA CareReceive ==
  ASSUME WellTyped, CareInv, NEW w \in Worker, NEW m \in Message, Receive(w, m)
  PROVE  CareInv'
  <1>0. /\ job \in [Worker -> Job] /\ queue \in [Message -> Nat]
        /\ UNCHANGED <<runs, rows, connector, abandoned>>
    BY DEF WellTyped, JobsTyped, RestTyped, Receive, tables
  <1>1. /\ job'[w].pc = FirstStep(m) /\ job'[w].msg = m /\ job'[w].held /\ job[w].pc = "idle"
        /\ \A v \in Worker \ {w} : job'[v] = job[v]
        /\ queue' = [queue EXCEPT ![m] = @ - 1]
    BY <1>0 DEF Receive, Idle
  <1>2. /\ m.type = "process_incoming_email" => FirstStep(m) = "find_email"
        /\ m.type = "email_assistant" => FirstStep(m) = "load"
        /\ FirstStep(m) \notin {"find_run", "insert_run", "link_email", "publish_run"}
    BY Messages DEF FirstStep
  <1>3. \A f, e : RunsFor(f, e)' = RunsFor(f, e)
    BY <1>0 DEF RunsFor, Exists
  <1>4. IntakesHold => IntakesHold'
    <2>1. IntakeHolds(job[w])'
      BY <1>1, <1>2 DEF IntakeHolds
    <2>2. \A v \in Worker \ {w} : IntakeHolds(job[v]) => IntakeHolds(job[v])'
      BY <1>1, <1>3 DEF IntakeHolds
    <2> QED
      BY <2>1, <2>2 DEF IntakesHold
  <1>5. ASSUME NEW f \in Workflow, NEW e \in Email, Due(f, e)
        PROVE  Due(f, e)'
    <2>1. CASE m = ProcessEmail(e)
      <3>1. Starting(job'[w], f, e)
        BY <1>1, <1>2, <2>1 DEF Starting, ProcessEmail
      <3> QED
        BY <3>1 DEF Due, Starting
    <2>2. CASE queue[ProcessEmail(e)] > 0 /\ m # ProcessEmail(e)
      <3>1. queue'[ProcessEmail(e)] > 0
        BY <1>0, <1>1, <2>2, Messages
      <3> QED
        BY <3>1 DEF Due
    <2>3. ASSUME NEW v \in Worker, Starting(job[v], f, e)
          PROVE  Due(f, e)'
      <3>1. Starting(job'[v], f, e)
        BY <1>1, <2>3 DEF Starting
      <3> QED
        BY <3>1 DEF Due, Starting
    <2> QED
      BY <1>5, <2>1, <2>2, <2>3 DEF Due
  <1>6. ASSUME NEW r \in RunId, Minded(r)
        PROVE  Minded(r)'
    <2>1. ASSUME NEW e \in Email, queue[Assist(r, e)] > 0
          PROVE  Minded(r)'
      <3>1. CASE m = Assist(r, e)
        <4>1. m.type = "email_assistant" /\ m.run = r
          BY <3>1 DEF Assist
        <4>2. job'[w].held /\ job'[w].pc # "done" /\ Deals(job'[w], r)
          BY <1>1, <1>2, <4>1 DEF Deals
        <4> QED
          BY <4>2 DEF Minded, Deals
      <3>2. CASE m # Assist(r, e)
        <4>1. queue'[Assist(r, e)] > 0
          BY <1>0, <1>1, <2>1, <3>2, Messages
        <4> QED
          BY <4>1 DEF Minded
      <3> QED
        BY <3>1, <3>2
    <2>2. ASSUME NEW v \in Worker, job[v].held, job[v].pc # "done", Deals(job[v], r)
          PROVE  Minded(r)'
      <3>1. job'[v] = job[v]
        BY <1>1, <2>2 DEF Deals
      <3> QED
        BY <2>2, <3>1 DEF Minded, Deals
    <2> QED
      BY <1>6, <2>1, <2>2 DEF Minded
  <1>7. \A e : GivenUp(e)' <=> GivenUp(e)
    BY <1>0 DEF GivenUp
  <1>8. NoneMissed => NoneMissed'
    BY <1>3, <1>5, <1>7 DEF NoneMissed
  <1>9. RunsMade /\ AllPursued => AllPursued'
    <2> SUFFICES ASSUME RunsMade, AllPursued, NEW r \in RunId, runs[r].status = "pending"
                 PROVE  Pursued(r)'
      BY <1>0 DEF AllPursued
    <2>1. runs[r].workflow \in Workflow /\ runs[r].email \in Email
      BY DEF WellTyped, RunsTyped, RunOK, RunsMade, Exists
    <2>2. Due(runs[r].workflow, runs[r].email) => Due(runs[r].workflow, runs[r].email)'
      BY <1>0, <1>5, <2>1
    <2> QED
      BY <1>0, <1>3, <1>6, <1>7, <2>1, <2>2 DEF AllPursued, Pursued
  <1> QED
    BY <1>0, <1>4, <1>8, <1>9 DEF CareInv, AllStored, RunsMade, GivenUpExist, Exists

\* Deliveries that come back are work to be done again.
LEMMA CareFaults ==
  ASSUME WellTyped, RunInv, CareInv, Crash \/ Reconnect
  PROVE  CareInv'
  <1>0. /\ UNCHANGED <<runs, rows, connector, abandoned>> /\ queue' = Returned
        /\ job \in [Worker -> Job] /\ JobsTyped
    BY DEF WellTyped, JobsTyped, Crash, Reconnect, tables, history
  <1>1. \A f, e : RunsFor(f, e)' = RunsFor(f, e)
    BY <1>0 DEF RunsFor, Exists
  <1>2. ASSUME NEW w \in Worker, IntakeHolds(job[w])
        PROVE  IntakeHolds(job[w])'
    <2>1. CASE Crash
      BY <2>1 DEF Crash, IntakeHolds, Idle
    <2>2. CASE Reconnect
      <3>1. /\ job'[w].pc = job[w].pc /\ job'[w].todo = job[w].todo /\ job'[w].snap = job[w].snap
            /\ job'[w].run = job[w].run /\ job'[w].msg = job[w].msg
        BY <1>0, <2>2 DEF Reconnect, Job
      <3> QED
        BY <1>1, <1>2, <3>1 DEF IntakeHolds
    <2> QED
      BY <2>1, <2>2
  <1>3. ASSUME NEW f \in Workflow, NEW e \in Email, Due(f, e)
        PROVE  Due(f, e)'
    <2>1. Returned[ProcessEmail(e)] > 0
      BY <1>3, Messages, ReturnedCounts DEF Due, Starting
    <2> QED
      BY <1>0, <2>1 DEF Due
  <1>4. ASSUME NEW r \in RunId, Minded(r)
        PROVE  Minded(r)'
    <2>1. PICK e \in Email : Returned[Assist(r, e)] > 0
      <3>1. ASSUME NEW e \in Email, queue[Assist(r, e)] > 0
            PROVE  Returned[Assist(r, e)] > 0
        BY <3>1, Messages, ReturnedCounts
      <3>2. ASSUME NEW w \in Worker, job[w].held, Deals(job[w], r)
            PROVE  job[w].msg.email \in Email /\ Returned[Assist(r, job[w].msg.email)] > 0
        <4>1. job[w].msg \in Message /\ job[w].msg = Assist(r, job[w].msg.email)
              /\ job[w].msg.email \in Email
          BY <1>0, <3>2, Busy, SameMessage DEF Deals
        <4> QED
          BY <3>2, <4>1, ReturnedCounts
      <3> QED
        BY <1>4, <3>1, <3>2 DEF Minded
    <2> QED
      BY <1>0, <2>1 DEF Minded
  <1>5. \A e : GivenUp(e)' <=> GivenUp(e)
    BY <1>0 DEF GivenUp
  <1>6. IntakesHold => IntakesHold'
    BY <1>2 DEF IntakesHold
  <1>7. NoneMissed => NoneMissed'
    BY <1>1, <1>3, <1>5 DEF NoneMissed
  <1>8. RunsMade /\ AllPursued => AllPursued'
    <2> SUFFICES ASSUME RunsMade, AllPursued, NEW r \in RunId, runs[r].status = "pending"
                 PROVE  Pursued(r)'
      BY <1>0 DEF AllPursued
    <2>1. runs[r].workflow \in Workflow /\ runs[r].email \in Email
      BY DEF WellTyped, RunsTyped, RunOK, RunsMade, Exists
    <2>2. Due(runs[r].workflow, runs[r].email) => Due(runs[r].workflow, runs[r].email)'
      BY <1>0, <1>3, <2>1
    <2> QED
      BY <1>0, <1>1, <1>4, <1>5, <2>1, <2>2 DEF AllPursued, Pursued
  <1> QED
    BY <1>0, <1>6, <1>7, <1>8 DEF CareInv, AllStored, RunsMade, GivenUpExist, Exists

\* Requests and edits of the team take no work away.
LEMMA CareRest ==
  ASSUME WellTyped, CareInv, (\E u \in User : RequestStep(u)) \/ SurroundingStep
  PROVE  CareInv'
  <1> SUFFICES ASSUME connector' = "linked"
               PROVE  CareInv'
    BY DEF CareInv
  <1>0. UNCHANGED <<job, rows, connector, abandoned>>
    <2>1. CASE \E u \in User : RequestStep(u)
      BY <2>1 DEF RequestStep, UserStep, Approve, LoadDraft, SaveDraft, PublishApproved,
                  CompleteApproved, tables, history
    <2>2. CASE SurroundingStep
      BY <2>2 DEF SurroundingStep, EditCategory, DeleteEmails, vars, tables, history
    <2> QED
      BY <2>1, <2>2
  <1>1. \A f, e : RunsFor(f, e)' = RunsFor(f, e)
    BY RunsForKept
  <1>2. ASSUME NEW r \in RunId
        PROVE  /\ runs'[r].workflow = runs[r].workflow /\ runs'[r].email = runs[r].email
               /\ Exists(r)' <=> Exists(r)
               /\ runs'[r].status = "pending" => runs[r].status = "pending"
               /\ runs'[r].status = "deleted" <=> runs[r].status = "deleted"
    BY IdentityKept
  <1>3. ASSUME NEW m \in Message, m.type \in {"process_incoming_email", "email_assistant"},
               queue[m] > 0
        PROVE  queue'[m] > 0
    BY <1>3, QueueKept DEF WellTyped, RestTyped
  <1>4. AllStored /\ RunsMade /\ GivenUpExist /\ IntakesHold /\ NoneMissed /\ AllPursued
    BY <1>0 DEF CareInv
  <1>5. abandoned \subseteq RunId
    BY DEF WellTyped, RestTyped
  <1>6. \A f, e : e \in Email /\ Due(f, e) => Due(f, e)'
    BY <1>0, <1>3, Messages DEF Due, ProcessEmail
  <1>7. \A r \in RunId : Minded(r) => Minded(r)'
    BY <1>0, <1>3, Messages DEF Minded, Assist, Deals
  <1>8. \A e : GivenUp(e) => GivenUp(e)'
    BY <1>0, <1>2, <1>5 DEF GivenUp
  <1>9. AllStored' /\ RunsMade' /\ GivenUpExist' /\ IntakesHold'
    BY <1>0, <1>1, <1>2, <1>4, <1>5 DEF AllStored, RunsMade, GivenUpExist, IntakesHold, IntakeHolds
  <1>10. NoneMissed'
    BY <1>1, <1>4, <1>6, <1>8 DEF NoneMissed
  <1>11. AllPursued'
    <2> SUFFICES ASSUME NEW r \in RunId, runs[r].status = "pending",
                        runs'[r].workflow = runs[r].workflow, runs'[r].email = runs[r].email
                 PROVE  Pursued(r)'
      BY <1>2 DEF AllPursued
    <2>1. runs[r].email \in Email /\ Pursued(r)
      BY <1>4 DEF WellTyped, RunsTyped, RunOK, AllPursued, Exists
    <2>2. Due(runs[r].workflow, runs[r].email) => Due(runs[r].workflow, runs[r].email)'
      BY <1>6, <2>1
    <2> QED
      BY <1>1, <1>7, <1>8, <2>1, <2>2 DEF Pursued
  <1> QED
    BY <1>9, <1>10, <1>11 DEF CareInv

\* A handler gives up only on a run that is there.
LEMMA GivesUpOnly ==
  ASSUME WellTyped, RunInv, NEW w \in Worker, HandlerStep(w),
         connector = "linked", RunsMade, IntakeHolds(job[w]), NEW s \in abandoned'
  PROVE  s \in abandoned \/ (s \in RunId /\ Exists(s) /\ UNCHANGED runs)
  <1>0. JobsTyped
    BY DEF WellTyped
  <1>1. CASE LinkEmail(w)
    <2>1. Exists(job[w].run)
      BY <1>1 DEF LinkEmail, IntakeHolds, RunsFor
    <2> QED
      BY <1>1, <2>1 DEF LinkEmail
  <1>2. CASE PublishRun(w)
    <2>1. job[w].run \in RunId /\ Exists(job[w].run) /\ UNCHANGED runs
      BY <1>2 DEF PublishRun, IntakeHolds, RunsFor, tables
    <2> QED
      BY <1>2, <2>1 DEF PublishRun, GiveUp
  <1>3. CASE Categorize(w) \/ FindCategory(w)
    <2> DEFINE r == job[w].msg.run
    <2>1. r \in RunId /\ Deals(job[w], r)
      <3>1. job[w].pc \in {"categorize", "find_category"}
        BY <1>3 DEF Categorize, FindCategory
      <3> QED
        BY <1>0, <3>1, Busy DEF StepsOf, Deals
    <2>2. Exists(r)
      <3>1. runs[r].status # "absent"
        BY <2>1 DEF RunInv, Fresh, Unheard
      <3>2. runs[r].status # "deleted"
        BY <2>1 DEF RunsMade
      <3> QED
        BY <3>1, <3>2 DEF Exists
    <2>3. abandoned' = abandoned \/ (abandoned' = abandoned \cup {r} /\ UNCHANGED runs)
      BY <1>3 DEF Categorize, FindCategory, GiveUp, tables
    <2> QED
      BY <2>1, <2>2, <2>3
  <1>4. CASE abandoned' = abandoned
    BY <1>4
  <1> QED
    BY <1>1, <1>2, <1>3, <1>4
       DEF HandlerStep, WorkerStep, FindEmail, FindRun, InsertRun, Load, Skip, Reload, Explain,
           PublishReply, Record, RouteReply, Ack, SendGmail, RefuseGmail, history

\* A handler's step, on the runs: one may be new, the others stay those of their
\* workflow and email.
LEMMA RunsAfterHandler ==
  ASSUME WellTyped, NEW w \in Worker, HandlerStep(w)
  PROVE  /\ \A r \in RunId : Exists(r) =>
              /\ Exists(r)'
              /\ runs'[r].workflow = runs[r].workflow /\ runs'[r].email = runs[r].email
              /\ runs'[r].status = "pending" => runs[r].status = "pending"
         /\ \A r \in RunId : Exists(r)' => Exists(r) \/ InsertRun(w, r)
         /\ \A r \in RunId : runs'[r].status = "deleted" => runs[r].status = "deleted"
         /\ \A f, e : RunsFor(f, e) \subseteq RunsFor(f, e)'
         /\ \A r \in RunId : InsertRun(w, r) =>
              /\ ~ Exists(r) /\ Exists(r)'
              /\ job[w].pc = "insert_run" /\ runs'[r].status = "pending"
              /\ runs'[r].workflow = job[w].snap.workflow /\ runs'[r].email = job[w].msg.email
  <1>0. runs \in [RunId -> Run]
    BY DEF WellTyped, RunsTyped
  <1>1. ASSUME NEW r \in RunId, InsertRun(w, r)
        PROVE  /\ ~ Exists(r) /\ Exists(r)'
               /\ job[w].pc = "insert_run" /\ runs'[r].status = "pending"
               /\ runs'[r].workflow = job[w].snap.workflow /\ runs'[r].email = job[w].msg.email
    <2>1. runs'[r] = [NoRun EXCEPT !.workflow = job[w].snap.workflow, !.email = job[w].msg.email,
                                   !.status = "pending"]
      BY <1>0, <1>1 DEF InsertRun
    <2>2. runs'[r].status = "pending" /\ runs'[r].workflow = job[w].snap.workflow
          /\ runs'[r].email = job[w].msg.email
      BY <2>1 DEF NoRun
    <2> QED
      BY <1>1, <2>2 DEF InsertRun, Exists
  <1>2. \A r \in RunId : ~ InsertRun(w, r) =>
          /\ runs'[r].workflow = runs[r].workflow /\ runs'[r].email = runs[r].email
          /\ Exists(r)' <=> Exists(r)
          /\ runs'[r].status = "pending" => runs[r].status = "pending"
          /\ runs'[r].status = "deleted" <=> runs[r].status = "deleted"
    BY IdentityKept
  <1>3. \A r \in RunId : Exists(r) =>
          /\ Exists(r)'
          /\ runs'[r].workflow = runs[r].workflow /\ runs'[r].email = runs[r].email
          /\ runs'[r].status = "pending" => runs[r].status = "pending"
    BY <1>1, <1>2
  <1>4. \A f, e : RunsFor(f, e) \subseteq RunsFor(f, e)'
    BY <1>3 DEF RunsFor
  <1> QED
    BY <1>1, <1>2, <1>3, <1>4

\* What a handler holds of an email it still holds after a step of some handler.
LEMMA IntakesKept ==
  ASSUME WellTyped, NEW w \in Worker, HandlerStep(w), RunsMade, IntakesHold
  PROVE  IntakesHold'
  <1>1. \A v \in Worker \ {w} : job'[v] = job[v]
    BY HandlerSteps DEF HandlerStep
  <1>2. \A f, e : RunsFor(f, e) \subseteq RunsFor(f, e)'
    BY RunsAfterHandler
  <1>3. ASSUME NEW v \in Worker, v # w
        PROVE  IntakeHolds(job[v])'
    BY <1>1, <1>2, <1>3 DEF IntakesHold, IntakeHolds
  <1>4. ASSUME job'[w].pc \in {"find_run", "insert_run", "link_email", "publish_run"}
        PROVE  IntakeHolds(job[w])'
    <2>0. IntakeHolds(job[w])
      BY DEF IntakesHold
    <2>1. CASE job'[w].pc = "find_run"
      BY <1>4, <2>0, <2>1, IntakeMoves DEF IntakeHolds
    <2>2. CASE job[w].pc = "find_run"
      BY <1>2, <1>4, <2>0, <2>2, IntakeMoves DEF IntakeHolds
    <2>3. CASE job[w].pc = "insert_run"
      <3>1. PICK q \in RunId :
            /\ job'[w].run = q /\ job'[w].pc = "link_email" /\ job'[w].todo = job[w].todo
            /\ job'[w].snap.workflow = job[w].snap.workflow /\ job'[w].msg = job[w].msg
            /\ InsertRun(w, q)
        BY <1>4, <2>3, IntakeMoves
      <3>2. Exists(q)' /\ runs'[q].workflow = job[w].snap.workflow
            /\ runs'[q].email = job[w].msg.email
        BY <3>1, RunsAfterHandler
      <3>3. q \in RunsFor(job[w].snap.workflow, job[w].msg.email)'
        BY <3>1, <3>2 DEF RunsFor
      <3> QED
        BY <2>0, <2>3, <3>1, <3>3 DEF IntakeHolds
    <2>4. CASE job[w].pc = "link_email"
      BY <1>2, <1>4, <2>0, <2>4, IntakeMoves DEF IntakeHolds
    <2> QED
      BY <1>4, <2>1, <2>2, <2>3, <2>4, IntakeMoves
  <1>5. ASSUME job'[w].pc \notin {"find_run", "insert_run", "link_email", "publish_run"}
        PROVE  IntakeHolds(job[w])'
    BY <1>5 DEF IntakeHolds
  <1> QED
    BY <1>3, <1>4, <1>5 DEF IntakesHold

\* A workflow that is due for an email stays due through a handler's step, or
\* its run has been made and its message is queued, or the email is given up.
LEMMA DueKept ==
  ASSUME WellTyped, NEW w \in Worker, HandlerStep(w), connector = "linked", AllStored,
         IntakesHold, NEW f \in Workflow, NEW e \in Email, Due(f, e)
  PROVE  \/ Due(f, e)'
         \/ GivenUp(e)'
         \/ /\ runs' = runs
            /\ \E q \in RunsFor(f, e) : queue'[Assist(q, e)] > 0
  <1>1. CASE queue[ProcessEmail(e)] > 0
    <2>1. queue'[ProcessEmail(e)] > 0
      BY <1>1, Messages, QueueKept DEF ProcessEmail
    <2> QED
      BY <2>1 DEF Due
  <1>2. ASSUME NEW v \in Worker, v # w, Starting(job[v], f, e)
        PROVE  Due(f, e)'
    <2>1. job'[v] = job[v]
      BY <1>2, HandlerSteps DEF HandlerStep
    <2> QED
      BY <1>2, <2>1 DEF Due, Starting
  <1>3. CASE Starting(job[w], f, e)
    <2>1. rows[e].stored /\ IntakeHolds(job[w])
      BY DEF AllStored, IntakesHold
    <2>2. \/ Starting(job'[w], f, e)
          \/ \E s \in abandoned' : runs'[s].email = e
          \/ job[w].run \in RunsFor(f, e) /\ queue'[Assist(job[w].run, e)] > 0 /\ runs' = runs
      BY <1>3, <2>1, StartingKept
    <2> QED
      BY <2>2 DEF Due, GivenUp, Starting
  <1> QED
    BY <1>1, <1>2, <1>3 DEF Due

LEMMA MessagesQueued ==
  ASSUME WellTyped, NEW w \in Worker, HandlerStep(w), NEW r \in RunId, NEW e \in Email,
         queue[Assist(r, e)] > 0
  PROVE  queue'[Assist(r, e)] > 0
  <1>1. Assist(r, e) \in Message /\ Assist(r, e).type = "email_assistant"
    BY Messages DEF Assist
  <1>2. queue[Assist(r, e)] \in Nat
    BY <1>1 DEF WellTyped, RestTyped
  <1> QED
    BY <1>1, <1>2, QueueKept

LEMMA CareWorker ==
  ASSUME WellTyped, RunInv, CareInv, NEW w \in Worker, HandlerStep(w)
  PROVE  CareInv'
  <1>0. connector' = connector
    BY DEF HandlerStep, WorkerStep, FindEmail, FindRun, InsertRun, LinkEmail, PublishRun, Load,
           Categorize, Skip, Reload, FindCategory, Explain, PublishReply, Record, RouteReply, Ack,
           SendGmail, RefuseGmail, tables
  <1> SUFFICES ASSUME connector = "linked"
               PROVE  /\ AllStored' /\ RunsMade' /\ GivenUpExist' /\ IntakesHold'
                      /\ NoneMissed' /\ AllPursued'
    BY <1>0 DEF CareInv
  <1>1. AllStored /\ RunsMade /\ GivenUpExist /\ IntakesHold /\ NoneMissed /\ AllPursued
    BY DEF CareInv
  <1>2. /\ runs \in [RunId -> Run] /\ abandoned \subseteq RunId
        /\ \A r \in RunId : Exists(r) => runs[r].email \in Email
    BY DEF WellTyped, RunsTyped, RunOK, RestTyped, Exists
  <1>3. \A s \in abandoned' : s \in abandoned \/ (s \in RunId /\ Exists(s) /\ UNCHANGED runs)
    BY <1>1, GivesUpOnly DEF IntakesHold
  <1>4. abandoned \subseteq abandoned'
    BY DEF HandlerStep, WorkerStep, FindEmail, FindRun, InsertRun, LinkEmail, PublishRun, Load,
           Categorize, Skip, Reload, FindCategory, Explain, PublishReply, Record, RouteReply, Ack,
           SendGmail, RefuseGmail, GiveUp, history
  <1>5. AllStored'
    <2>1. CASE LinkEmail(w)
      BY <1>1, <2>1 DEF AllStored, LinkEmail, WellTyped, RestTyped
    <2>2. CASE ~ LinkEmail(w)
      <3>1. rows' = rows
        BY <2>2 DEF HandlerStep, WorkerStep, FindEmail, FindRun, InsertRun, PublishRun, Load,
                    Categorize, Skip, Reload, FindCategory, Explain, PublishReply, Record,
                    RouteReply, Ack, SendGmail, RefuseGmail, tables
      <3> QED
        BY <1>1, <3>1 DEF AllStored
    <2> QED
      BY <2>1, <2>2
  <1>6. RunsMade'
    <2>1. ASSUME NEW r \in RunId, InsertRun(w, r)
          PROVE  runs'[r].workflow \in Workflow
      BY <1>1, <2>1, RunsAfterHandler DEF IntakesHold, IntakeHolds
    <2>2. ASSUME NEW r \in RunId, Exists(r)
          PROVE  runs'[r].workflow \in Workflow
      BY <1>1, <2>2, RunsAfterHandler DEF RunsMade
    <2> QED
      BY <1>1, <2>1, <2>2, RunsAfterHandler DEF RunsMade
  <1>7. GivenUpExist'
    <2>1. ASSUME NEW s \in RunId, Exists(s)
          PROVE  Exists(s)'
      BY <2>1, RunsAfterHandler
    <2> QED
      BY <1>1, <1>2, <1>3, <2>1 DEF GivenUpExist
  <1>8. \A e : GivenUp(e) => GivenUp(e)'
    <2>1. \A s \in abandoned : runs'[s].email = runs[s].email
      BY <1>1, <1>2, RunsAfterHandler DEF GivenUpExist
    <2> QED
      BY <1>4, <2>1 DEF GivenUp
  <1>9. \A f, e : RunsFor(f, e) \subseteq RunsFor(f, e)'
    BY RunsAfterHandler
  <1>10. NoneMissed'
    <2> SUFFICES ASSUME NEW f \in Workflow, NEW e \in Email
                 PROVE  (Due(f, e) \/ RunsFor(f, e) # {} \/ GivenUp(e))'
      BY DEF NoneMissed
    <2>1. Due(f, e) \/ RunsFor(f, e) # {} \/ GivenUp(e)
      BY <1>1 DEF NoneMissed
    <2>2. CASE Due(f, e)
      BY <1>1, <1>9, <2>2, DueKept
    <2> QED
      BY <1>8, <1>9, <2>1, <2>2
  <1>11. AllPursued'
    <2> SUFFICES ASSUME NEW r \in RunId, runs'[r].status = "pending"
                 PROVE  Pursued(r)'
      BY DEF AllPursued
    <2>0. Exists(r)'
      BY DEF Exists
    <2>1. ASSUME InsertRun(w, r)
          PROVE  Pursued(r)'
      <3>0. /\ ~ Exists(r) /\ job[w].pc = "insert_run"
            /\ runs'[r].workflow = job[w].snap.workflow /\ runs'[r].email = job[w].msg.email
        BY <2>1, RunsAfterHandler
      <3>2. job[w].snap.workflow \in Workflow /\ job[w].msg.email \in Email
        <4>1. JobsTyped
          BY DEF WellTyped
        <4> QED
          BY <1>1, <3>0, <4>1, Busy DEF IntakesHold, IntakeHolds
      <3>1. PICK f \in Workflow, e \in Email :
              ~ Exists(r) /\ runs'[r].workflow = f /\ runs'[r].email = e
        BY <3>0, <3>2
      <3>3. CASE Due(f, e)
        <4>1. runs' # runs
          BY <2>0, <3>1 DEF Exists
        <4>2. Due(f, e)' \/ GivenUp(e)'
          BY <1>1, <3>3, <4>1, DueKept
        <4> QED
          BY <3>1, <4>2 DEF Pursued, Due, GivenUp
      <3>4. CASE RunsFor(f, e) # {}
        <4>1. PICK q \in RunsFor(f, e) : TRUE
          BY <3>4
        <4>2. q # r /\ q \in RunsFor(f, e)'
          BY <1>9, <3>1, <4>1 DEF RunsFor
        <4>3. RunsFor(runs[r].workflow, runs[r].email)' # {r}
          BY <3>1, <4>2 DEF RunsFor, Exists
        <4> QED
          BY <4>3 DEF Pursued
      <3>5. CASE GivenUp(e)
        <4>1. GivenUp(e)'
          BY <1>8, <3>5
        <4> QED
          BY <3>1, <4>1 DEF Pursued, GivenUp
      <3> QED
        BY <1>1, <3>3, <3>4, <3>5 DEF NoneMissed
    <2>2. ASSUME ~ InsertRun(w, r)
          PROVE  Pursued(r)'
      <3>0. /\ Exists(r) /\ runs[r].status = "pending" /\ Pursued(r)
            /\ runs'[r].workflow = runs[r].workflow /\ runs'[r].email = runs[r].email
        BY <1>1, <2>0, <2>2, RunsAfterHandler DEF AllPursued
      <3>1. PICK f \in Workflow, e \in Email :
              /\ runs[r].workflow = f /\ runs[r].email = e
              /\ runs'[r].workflow = f /\ runs'[r].email = e
        BY <1>1, <1>2, <3>0 DEF RunsMade
      <3>3. ASSUME NEW q \in RunsFor(f, e)', q # r
            PROVE  Pursued(r)'
        <4>1. RunsFor(runs[r].workflow, runs[r].email)' # {r}
          BY <3>1, <3>3 DEF RunsFor, Exists
        <4> QED
          BY <4>1 DEF Pursued
      <3>4. ASSUME GivenUp(e)'
            PROVE  Pursued(r)'
        BY <3>1, <3>4 DEF Pursued, GivenUp
      <3>5. CASE Minded(r)
        <4>1. ASSUME NEW d \in Email, queue[Assist(r, d)] > 0
              PROVE  Pursued(r)'
          BY <4>1, MessagesQueued DEF Pursued, Minded
        <4>2. ASSUME NEW v \in Worker, v # w, job[v].held, job[v].pc # "done", Deals(job[v], r)
              PROVE  Pursued(r)'
          <5>1. job'[v] = job[v]
            BY <4>2, HandlerSteps DEF HandlerStep
          <5> QED
            BY <4>2, <5>1 DEF Pursued, Minded, Deals
        <4>3. ASSUME job[w].held, job[w].pc # "done", Deals(job[w], r)
              PROVE  Pursued(r)'
          <5>1. r \in abandoned' \/ (job'[w].held /\ job'[w].pc # "done" /\ Deals(job'[w], r))
            BY <3>0, <4>3, MindedKept
          <5>2. CASE r \in abandoned'
            <6>1. GivenUp(e)'
              BY <3>1, <5>2 DEF GivenUp
            <6> QED
              BY <3>4, <6>1
          <5> QED
            BY <5>1, <5>2 DEF Pursued, Minded, Deals
        <4> QED
          BY <3>5, <4>1, <4>2, <4>3 DEF Minded
      <3>6. CASE Due(f, e)
        <4>1. CASE Due(f, e)'
          BY <3>1, <4>1 DEF Pursued, Due
        <4>2. ASSUME runs' = runs, NEW q \in RunsFor(f, e), queue'[Assist(q, e)] > 0
              PROVE  Pursued(r)'
          <5>1. CASE q = r
            BY <4>2, <5>1 DEF Pursued, Minded
          <5>2. CASE q # r
            BY <1>9, <3>3, <4>2, <5>2
          <5> QED
            BY <5>1, <5>2
        <4> QED
          BY <1>1, <3>4, <3>6, <4>1, <4>2, DueKept
      <3>7. CASE GivenUp(e)
        BY <1>8, <3>4, <3>7
      <3>8. CASE RunsFor(f, e) # {r}
        <4>1. r \in RunsFor(f, e)
          BY <3>0, <3>1 DEF RunsFor
        <4>2. PICK q \in RunsFor(f, e) : q # r
          BY <3>8, <4>1
        <4> QED
          BY <1>9, <3>3, <4>2
      <3> QED
        BY <3>0, <3>1, <3>5, <3>6, <3>7, <3>8 DEF Pursued
    <2> QED
      BY <2>1, <2>2
  <1> QED
    BY <1>5, <1>6, <1>7, <1>10, <1>11, IntakesKept, <1>1

LEMMA CareNext ==
  ASSUME WellTyped, RunInv, CareInv, [Next]_vars
  PROVE  CareInv'
  <1>1. CASE \E w \in Worker, m \in Message : Receive(w, m)
    BY <1>1, CareReceive
  <1>2. CASE \E w \in Worker : WorkerStep(w) \/ SendGmail(w) \/ RefuseGmail(w)
    BY <1>2, CareWorker DEF HandlerStep
  <1>3. CASE \E u \in User : (\E q \in RunId : Approve(u, q)) \/ UserStep(u)
    BY <1>3, CareRest DEF RequestStep
  <1>4. CASE Crash \/ Reconnect
    BY <1>4, CareFaults
  <1>5. CASE DeleteRuns
    BY <1>5 DEF DeleteRuns, CareInv
  <1>6. CASE (\E c \in Category : EditCategory(c)) \/ DeleteEmails \/ UNCHANGED vars
    BY <1>6, CareRest DEF SurroundingStep
  <1> QED
    BY <1>1, <1>2, <1>3, <1>4, <1>5, <1>6 DEF Next

LEMMA CareInit == Init => CareInv
  <1> SUFFICES ASSUME Init PROVE CareInv
    OBVIOUS
  <1>1. /\ \A w \in Worker : job[w] = Idle
        /\ \A e \in Email : queue[ProcessEmail(e)] = 1 /\ rows[e].stored
        /\ \A r \in RunId : runs[r] = NoRun
        /\ abandoned = {}
    BY Messages DEF Init, ProcessEmail
  <1> QED
    BY <1>1 DEF CareInv, AllStored, RunsMade, GivenUpExist, IntakesHold, IntakeHolds, NoneMissed,
                AllPursued, Due, Exists, Idle, NoRun

\* However the process dies and whatever comes back twice, a pending run always
\* has its message queued, a handler at work or an announcement that will come
\* to it again; only an error that a handler catches, a second run or the end of
\* the connector leaves it behind.
THEOREM RunsAreRemembered == Spec => []NoRunForgotten
  <1>1. WellTyped /\ CareInv => NoRunForgotten
    <2> SUFFICES ASSUME WellTyped, CareInv, connector = "linked", NEW r \in RunId,
                        runs[r].status = "pending", ~ GivenUp(runs[r].email),
                        RunsFor(runs[r].workflow, runs[r].email) = {r}
                 PROVE  Attended(r)
      BY DEF NoRunForgotten, GivenUp
    <2>1. Minded(r) \/ Due(runs[r].workflow, runs[r].email)
      BY DEF CareInv, AllPursued, Pursued
    <2>2. runs[r].email \in Email
      BY DEF WellTyped, RunsTyped, RunOK
    <2>3. CASE Minded(r)
      BY <2>3 DEF Minded, Attended, Deals, Assisting
    <2>4. CASE Due(runs[r].workflow, runs[r].email)
      BY <2>2, <2>4 DEF Due, Starting, Attended, ProcessEmail
    <2> QED
      BY <2>1, <2>3, <2>4
  <1>2. Init => CareInv
    BY CareInit
  <1>3. WellTyped /\ RunInv /\ CareInv /\ [Next]_vars => CareInv'
    BY CareNext
  <1> QED
    BY <1>1, <1>2, <1>3, AlwaysKept, PTL DEF Spec

-----------------------------------------------------------------------------
(* One reply per sender *)

\* Of the messages M in the queues q and the workers W, at most one is there: a
\* single piece of work that is queued or in one handler's hands.
Alone(q, M, W) ==
  /\ \A m \in M : q[m] <= 1
  /\ \A m, n \in M : q[m] > 0 /\ q[n] > 0 => m = n
  /\ \A v, w \in W : v = w
  /\ \A m \in M, w \in W : q[m] = 0

NoneOf(q, M, W) == (\A m \in M : q[m] = 0) /\ W = {}

\* The work on a run: to announce it, its message, to carry the message out.
Announces(j, r) == j.pc \in {"link_email", "publish_run"} /\ j.run = r
Errands(r) == {m \in Message : m.type = "email_assistant" /\ m.run = r}
Errant(r)  == {w \in Worker : Announces(job[w], r) \/ Deals(job[w], r)}

\* The reply of a run on its way: at the router, then at Gmail.
Replies(r)  == {m \in Message : /\ m.type \in {"email_workflow_reply", "email_workflow_reply_gmail"}
                                /\ m.run = r}
Carries(j, r) == j.pc \in {"route", "send"} /\ j.msg.run = r
Carriers(r) == {w \in Worker : Carries(job[w], r)}

\* The runs that the handler of an email is yet to make are not there.
FirstTime(e) ==
  /\ queue[ProcessEmail(e)] > 0 => \A f \in Workflow : RunsFor(f, e) = {}
  /\ \A w \in Worker : TakesIn(job[w], e) =>
       LET pc == job[w].pc IN
       \A f \in Workflow :
         \/ pc = "find_email"
         \/ pc \in {"find_run", "insert_run"} /\ f \in job[w].todo
         \/ pc \in {"link_email", "publish_run"} /\ f \in job[w].todo \ {job[w].snap.workflow}
         => RunsFor(f, e) = {}

\* Nobody has decided yet what becomes of the run.
Undecided(r) ==
  /\ runs[r].status \in {"pending", "deleted"}
  /\ \A u \in User : request[u].run = r => request[u].pc \notin {"publish", "complete"}

\* The work on the run has not come to a reply yet.
Early(r) ==
  \/ \E m \in Errands(r) : queue[m] > 0
  \/ \E w \in Errant(r) : job[w].pc \notin {"record", "done"}

ErrandOnce(r) ==
  /\ Alone(queue, Errands(r), Errant(r))
  /\ runs[r].status = "absent" => NoneOf(queue, Errands(r), Errant(r))
  /\ Early(r) => Undecided(r) /\ replies[r] = 0
  /\ \A w \in Errant(r) :
       /\ job[w].pc = "publish_reply" => AutoReply(w)
       /\ job[w].pc = "record" => Undecided(r) /\ replies[r] = IF AutoReply(w) THEN 1 ELSE 0

AnsweredOnce(r) ==
  /\ replies[r] <= 1
  /\ \A u \in User : request[u].run = r /\ request[u].pc = "publish" => replies[r] = 0
  /\ runs[r].status = "awaiting_action" =>
       replies[r] = 0 \/ \E u \in User : request[u].run = r /\ request[u].pc = "complete"

SentOnce(r) ==
  /\ Alone(queue, Replies(r), Carriers(r))
  /\ replies[r] = 0 \/ sent[r] = 1 => NoneOf(queue, Replies(r), Carriers(r))
  /\ sent[r] <= replies[r]

Calm == crashes = 0 /\ reconnects = 0 /\ \A u, v \in User : u = v

CalmInv ==
  Calm =>
    /\ raced = {}
    /\ \A e \in Email : FirstTime(e)
    /\ \A r \in RunId : ErrandOnce(r) /\ AnsweredOnce(r) /\ SentOnce(r)

-----------------------------------------------------------------------------
(* A single piece of work *)

LEMMA AloneKept ==
  ASSUME NEW q \in [Message -> Nat], NEW p \in [Message -> Nat], NEW M \in SUBSET Message,
         NEW W, NEW V, Alone(q, M, W), \A m \in M : p[m] <= q[m], V \subseteq W
  PROVE  Alone(p, M, V) /\ (NoneOf(q, M, W) => NoneOf(p, M, V))
  <1>1. \A m \in M : q[m] \in Nat /\ p[m] \in Nat
    OBVIOUS
  <1>2. \A m \in M : p[m] <= 1 /\ (p[m] > 0 => q[m] > 0) /\ (q[m] = 0 => p[m] = 0)
    BY <1>1 DEF Alone
  <1> QED
    BY <1>2 DEF Alone, NoneOf

\* A worker takes the message.
LEMMA AloneTaken ==
  ASSUME NEW q \in [Message -> Nat], NEW M \in SUBSET Message, NEW W, NEW V, NEW w,
         Alone(q, M, W), NEW k \in M, q[k] > 0, V \subseteq W \cup {w}
  PROVE  Alone([q EXCEPT ![k] = @ - 1], M, V)
  <1>1. W = {} /\ q[k] = 1 /\ \A m \in M \ {k} : q[m] = 0
    <2>1. \A m \in M : q[m] \in Nat
      OBVIOUS
    <2> QED
      BY <2>1 DEF Alone
  <1>2. \A m \in M : [q EXCEPT ![k] = @ - 1][m] = 0
    BY <1>1
  <1> QED
    BY <1>1, <1>2 DEF Alone

\* A worker queues it, or another one in its place.
LEMMA AlonePut ==
  ASSUME NEW q \in [Message -> Nat], NEW M \in SUBSET Message, NEW W, NEW V, NEW w \in W,
         Alone(q, M, W), NEW k \in M, V \subseteq W \ {w}
  PROVE  Alone([q EXCEPT ![k] = @ + 1], M, V)
  <1>1. V = {} /\ \A m \in M : q[m] = 0
    BY DEF Alone
  <1>2. \A m \in M : [q EXCEPT ![k] = @ + 1][m] = IF m = k THEN 1 ELSE 0
    BY <1>1
  <1> QED
    BY <1>1, <1>2 DEF Alone

\* It comes to be.
LEMMA AloneBorn ==
  ASSUME NEW q \in [Message -> Nat], NEW M \in SUBSET Message, NEW W, NEW V, NoneOf(q, M, W)
  PROVE  /\ \A k \in M : V \subseteq W => Alone([q EXCEPT ![k] = @ + 1], M, V)
         /\ \A w : V \subseteq {w} => Alone(q, M, V)
  <1>1. W = {} /\ \A m \in M : q[m] = 0
    BY DEF NoneOf
  <1>2. \A w : V \subseteq {w} => Alone(q, M, V)
    BY <1>1 DEF Alone
  <1>3. ASSUME NEW k \in M, V \subseteq W
        PROVE  Alone([q EXCEPT ![k] = @ + 1], M, V)
    <2>1. \A m \in M : [q EXCEPT ![k] = @ + 1][m] = IF m = k THEN 1 ELSE 0
      BY <1>1
    <2> QED
      BY <1>1, <1>3, <2>1 DEF Alone
  <1> QED
    BY <1>2, <1>3

LEMMA Constant ==
  ASSUME NEW r \in RunId
  PROVE  /\ Errands(r)' = Errands(r) /\ Errands(r) \in SUBSET Message
         /\ Replies(r)' = Replies(r) /\ Replies(r) \in SUBSET Message
  BY DEF Errands, Replies

\* No handler comes back to where it began.
LEMMA HandlerGoesOn ==
  ASSUME WellTyped, NEW w \in Worker, HandlerStep(w)
  PROVE  job'[w].pc \notin {"find_email", "load", "route", "send"}
  <1>0. job \in [Worker -> Job] /\ job[w] \in Job
    BY DEF WellTyped, JobsTyped
  <1>1. CASE FindEmail(w) \/ LinkEmail(w) \/ PublishRun(w)
    BY <1>0, <1>1 DEF FindEmail, LinkEmail, PublishRun, Goto, GiveUp, Job
  <1>2. CASE FindRun(w) \/ \E r \in RunId : InsertRun(w, r)
    <2>1. job'[w].pc \in {"insert_run", "link_email"}
      <3>1. CASE FindRun(w)
        BY <1>0, <3>1, FindRunMoves
      <3>2. ASSUME NEW r \in RunId, InsertRun(w, r)
            PROVE  job'[w].pc = "link_email"
        BY <1>0, <3>2 DEF InsertRun, Job
      <3> QED
        BY <1>2, <3>1, <3>2
    <2> QED
      BY <2>1
  <1>3. CASE Load(w) \/ Reload(w)
    BY <1>0, <1>3 DEF Load, Reload, AfterRead, Job
  <1>4. ASSUME NEW pc \in Pc \ {"find_email", "load", "route", "send"}, Goto(w, pc)
        PROVE  job'[w].pc \notin {"find_email", "load", "route", "send"}
    BY <1>0, <1>4, GoesTo
  <1>5. CASE Categorize(w)
    <2>1. Goto(w, "skip") \/ Goto(w, "reload") \/ Goto(w, "done")
      BY <1>5 DEF Categorize, GiveUp
    <2> QED
      BY <1>4, <2>1 DEF Pc
  <1>6. CASE FindCategory(w)
    <2>1. \/ Goto(w, "explain") \/ Goto(w, "done")
          \/ Goto(w, "publish_reply") \/ Goto(w, "record")
      BY <1>6 DEF FindCategory, GiveUp
    <2> QED
      BY <1>4, <2>1 DEF Pc
  <1>7. CASE Skip(w) \/ Explain(w) \/ PublishReply(w) \/ Record(w) \/ RouteReply(w) \/ SendGmail(w)
    <2>1. Goto(w, "done") \/ Goto(w, "record")
      BY <1>7 DEF Skip, Explain, PublishReply, Record, RouteReply, SendGmail
    <2> QED
      BY <1>4, <2>1 DEF Pc
  <1>8. CASE Ack(w) \/ RefuseGmail(w)
    BY <1>0, <1>8 DEF Ack, RefuseGmail, Nack, Idle
  <1> QED
    BY <1>1, <1>2, <1>3, <1>5, <1>6, <1>7, <1>8 DEF HandlerStep, WorkerStep

-----------------------------------------------------------------------------
(* The runs yet to be made *)

LEMMA FirstReceive ==
  ASSUME WellTyped, NEW w \in Worker, NEW m \in Message, Receive(w, m), NEW e \in Email,
         OneAnnouncement(e), FirstTime(e)
  PROVE  FirstTime(e)'
  <1>0. /\ job \in [Worker -> Job] /\ queue \in [Message -> Nat] /\ runs' = runs
        /\ ProcessEmail(e) \in Message
    BY Messages DEF WellTyped, JobsTyped, RestTyped, Receive, tables
  <1>1. /\ job'[w].pc = FirstStep(m) /\ job'[w].msg = m /\ job[w].pc = "idle"
        /\ \A v \in Worker \ {w} : job'[v] = job[v]
        /\ queue[m] > 0 /\ queue' = [queue EXCEPT ![m] = @ - 1]
    BY <1>0 DEF Receive, Idle, Queued
  <1>2. \A f : RunsFor(f, e)' = RunsFor(f, e)
    BY <1>0 DEF RunsFor, Exists
  <1>3. queue'[ProcessEmail(e)] > 0 => queue[ProcessEmail(e)] > 0
    BY <1>0, <1>1
  <1>4. CASE m = ProcessEmail(e)
    BY <1>1, <1>2, <1>4 DEF FirstTime, TakesIn
  <1>5. CASE m # ProcessEmail(e)
    BY <1>1, <1>2, <1>3, <1>5 DEF FirstTime, TakesIn
  <1> QED
    BY <1>4, <1>5

LEMMA FirstWorker ==
  ASSUME WellTyped, NEW w \in Worker, HandlerStep(w), NEW e \in Email,
         OneAnnouncement(e), FirstTime(e)
  PROVE  FirstTime(e)'
  <1>0. /\ \A v \in Worker \ {w} : job'[v] = job[v]
        /\ job[w].pc # "idle"
        /\ \/ job'[w].msg = job[w].msg /\ job'[w].pc # "idle"
           \/ job'[w] = Idle
        /\ JobsTyped
    BY HandlerSteps DEF HandlerStep, WellTyped
  <1>1. queue'[ProcessEmail(e)] = queue[ProcessEmail(e)]
    BY Messages, QueueKept DEF ProcessEmail
  <1>2. CASE \A r \in RunId : ~ InsertRun(w, r)
    <2>1. \A f : RunsFor(f, e)' \subseteq RunsFor(f, e)
      BY <1>2, RunsForShrinks
    <2>2. ASSUME NEW v \in Worker, TakesIn(job'[v], e), NEW f \in Workflow,
                 \/ job'[v].pc = "find_email"
                 \/ job'[v].pc \in {"find_run", "insert_run"} /\ f \in job'[v].todo
                 \/ /\ job'[v].pc \in {"link_email", "publish_run"}
                    /\ f \in job'[v].todo \ {job'[v].snap.workflow}
          PROVE  RunsFor(f, e) = {}
      <3>1. CASE v # w
        BY <1>0, <2>2, <3>1 DEF FirstTime
      <3>2. CASE v = w
        <4>0. TakesIn(job[w], e)
          BY <1>0, <2>2, <3>2 DEF TakesIn, Idle
        <4>1. job'[w].pc # "find_email"
          BY <1>0, HandlerGoesOn
        <4>2. CASE job[w].pc = "find_email"
          BY <4>0, <4>2 DEF FirstTime
        <4>3. CASE job[w].pc = "find_run"
          BY <2>2, <3>2, <4>0, <4>1, <4>3, IntakeMoves DEF FirstTime
        <4>4. CASE job[w].pc = "insert_run"
          BY <1>2, <2>2, <3>2, <4>1, <4>4, IntakeMoves
        <4>5. CASE job[w].pc = "link_email"
          BY <2>2, <3>2, <4>0, <4>1, <4>5, IntakeMoves DEF FirstTime
        <4>6. CASE job[w].pc = "publish_run"
          BY <2>2, <3>2, <4>0, <4>1, <4>6, IntakeMoves DEF FirstTime
        <4> QED
          BY <2>2, <3>2, <4>1, <4>2, <4>3, <4>4, <4>5, <4>6, IntakeMoves
      <3> QED
        BY <3>1, <3>2
    <2> QED
      BY <1>1, <2>1, <2>2 DEF FirstTime
  <1>3. ASSUME NEW r \in RunId, InsertRun(w, r)
        PROVE  FirstTime(e)'
    <2>1. /\ job[w].pc = "insert_run" /\ job'[w].pc = "link_email"
          /\ job'[w].snap = job[w].snap /\ job'[w].todo = job[w].todo
      BY <1>0, <1>3 DEF JobsTyped, InsertRun, Job
    <2>2. \A q \in RunId \ {r} : runs'[q] = runs[q]
      BY <1>3 DEF InsertRun, WellTyped, RunsTyped
    <2>3. ~ Exists(r) /\ runs'[r].workflow = job[w].snap.workflow
          /\ runs'[r].email = job[w].msg.email
      BY <1>3, RunsAfterHandler
    <2>4. \A f : f # job[w].snap.workflow \/ job[w].msg.email # e =>
                   RunsFor(f, e)' \subseteq RunsFor(f, e)
      BY <2>2, <2>3 DEF RunsFor, Exists
    <2>5. TakesIn(job[w], job[w].msg.email) /\ job[w].msg = ProcessEmail(job[w].msg.email)
      BY <1>0, <2>1, Busy, SameMessage DEF StepsOf, TakesIn
    <2>6. CASE job[w].msg.email # e
      <3>1. \A v \in Worker : TakesIn(job'[v], e) => TakesIn(job[v], e) /\ job'[v] = job[v]
        <4>1. job'[w].msg = ProcessEmail(job[w].msg.email)
          BY <1>0, <2>1, <2>5 DEF Idle
        <4>2. ProcessEmail(job[w].msg.email) # ProcessEmail(e)
          BY <2>6 DEF ProcessEmail
        <4> QED
          BY <1>0, <4>1, <4>2 DEF TakesIn
      <3> QED
        BY <1>1, <2>4, <2>6, <3>1 DEF FirstTime
    <2>7. CASE job[w].msg.email = e
      <3>1. queue[ProcessEmail(e)] = 0 /\ \A v \in Worker : TakesIn(job[v], e) => v = w
        BY <2>5, <2>7 DEF OneAnnouncement
      <3>2. \A v \in Worker : TakesIn(job'[v], e) => v = w
        BY <1>0, <3>1
      <3>3. \A f \in job[w].todo \cap Workflow : RunsFor(f, e) = {}
        BY <2>1, <2>5, <2>7 DEF FirstTime
      <3> QED
        BY <1>1, <2>1, <2>4, <3>1, <3>2, <3>3 DEF FirstTime
    <2> QED
      BY <2>6, <2>7
  <1> QED
    BY <1>2, <1>3

LEMMA FirstRest ==
  ASSUME WellTyped, (\E u \in User : RequestStep(u)) \/ SurroundingStep \/ DeleteRuns,
         NEW e \in Email, FirstTime(e)
  PROVE  FirstTime(e)'
  <1>0. job' = job
    <2>1. CASE \E u \in User : RequestStep(u)
      BY <2>1 DEF RequestStep, UserStep, Approve, LoadDraft, SaveDraft, PublishApproved,
                  CompleteApproved
    <2>2. CASE SurroundingStep \/ DeleteRuns
      BY <2>2 DEF SurroundingStep, EditCategory, DeleteEmails, DeleteRuns, vars
    <2> QED
      BY <2>1, <2>2
  <1>1. queue'[ProcessEmail(e)] = queue[ProcessEmail(e)]
    BY Messages, QueueKept DEF ProcessEmail
  <1>2. \A f : RunsFor(f, e)' \subseteq RunsFor(f, e)
    BY RunsForShrinks
  <1> QED
    BY <1>0, <1>1, <1>2 DEF FirstTime

-----------------------------------------------------------------------------
(* The work on a run *)

\* The work on the run stays where it is, or ends.
LEMMA ErrandSame ==
  ASSUME queue \in [Message -> Nat], queue' \in [Message -> Nat], NEW r \in RunId,
         ErrandOnce(r), \A m \in Errands(r) : queue'[m] = queue[m],
         Errant(r)' \subseteq Errant(r),
         \A w \in Errant(r)' :
           \/ job'[w].pc = job[w].pc /\ job'[w].snap = job[w].snap
           \/ job'[w].pc = "done"
           \/ job'[w].pc = "publish_run" /\ job[w].pc = "link_email",
         replies'[r] = replies[r],
         Undecided(r) /\ replies[r] <= 1 /\ (Early(r) \/ \E w \in Errant(r) : job[w].pc = "record")
           => Undecided(r)',
         runs'[r].status = "absent" => runs[r].status = "absent"
  PROVE  ErrandOnce(r)'
  <1>0. Errands(r)' = Errands(r) /\ Errands(r) \in SUBSET Message
    BY Constant
  <1>1. /\ Alone(queue', Errands(r), Errant(r)')
        /\ NoneOf(queue, Errands(r), Errant(r)) => NoneOf(queue', Errands(r), Errant(r)')
    <2>1. \A m \in Errands(r) : queue'[m] <= queue[m]
      BY <1>0
    <2>2. Alone(queue, Errands(r), Errant(r))
      BY DEF ErrandOnce
    <2> QED
      BY <1>0, <2>1, <2>2, AloneKept
  <1>2. Early(r)' => Early(r)
    BY <1>0 DEF Early
  <1>3. \A w \in Errant(r)' : job'[w].pc \in {"publish_reply", "record"} =>
          job'[w].pc = job[w].pc /\ (AutoReply(w)' <=> AutoReply(w)) /\ w \in Errant(r)
    BY DEF AutoReply
  <1>4. /\ Early(r) => Undecided(r) /\ replies[r] = 0
        /\ runs[r].status = "absent" => NoneOf(queue, Errands(r), Errant(r))
        /\ \A w \in Errant(r) :
             /\ job[w].pc = "publish_reply" => AutoReply(w)
             /\ job[w].pc = "record" => Undecided(r) /\ replies[r] = IF AutoReply(w) THEN 1 ELSE 0
    BY DEF ErrandOnce
  <1>5. Early(r)' => Undecided(r)' /\ replies'[r] = 0
    BY <1>2, <1>4
  <1>6. \A w \in Errant(r)' :
          /\ job'[w].pc = "publish_reply" => AutoReply(w)'
          /\ job'[w].pc = "record" =>
               Undecided(r)' /\ replies'[r] = IF AutoReply(w)' THEN 1 ELSE 0
    BY <1>3, <1>4
  <1> QED
    BY <1>0, <1>1, <1>4, <1>5, <1>6 DEF ErrandOnce

\* The one handler at work on the run moves on.
LEMMA ErrandOwned ==
  ASSUME queue \in [Message -> Nat], NEW r \in RunId, ErrandOnce(r), NEW w \in Errant(r),
         \A m \in Errands(r) : queue'[m] = queue[m],
         Errant(r)' \subseteq Errant(r),
         runs'[r].status # "absent",
         job'[w].pc \in {"record", "done"} \/ (Undecided(r)' /\ replies'[r] = 0),
         job'[w].pc = "publish_reply" => AutoReply(w)',
         job'[w].pc = "record" => Undecided(r)' /\ replies'[r] = IF AutoReply(w)' THEN 1 ELSE 0
  PROVE  ErrandOnce(r)'
  <1>0. Errands(r)' = Errands(r)
    BY Constant
  <1>1. (\A m \in Errands(r) : queue'[m] = 0) /\ \A v \in Errant(r)' : v = w
    BY DEF ErrandOnce, Alone
  <1>2. Alone(queue', Errands(r), Errant(r)')
    BY <1>1 DEF Alone
  <1>3. Early(r)' => job'[w].pc \notin {"record", "done"}
    BY <1>0, <1>1 DEF Early
  <1> QED
    BY <1>0, <1>1, <1>2, <1>3 DEF ErrandOnce

LEMMA ErrandReceive ==
  ASSUME WellTyped, NEW w \in Worker, NEW m \in Message, Receive(w, m), NEW r \in RunId,
         ErrandOnce(r)
  PROVE  ErrandOnce(r)' /\ (m \in Errands(r) => raced' = raced)
  <1>0. /\ job \in [Worker -> Job] /\ queue \in [Message -> Nat]
        /\ UNCHANGED <<runs, request, replies>>
    BY DEF WellTyped, JobsTyped, RestTyped, Receive, tables
  <1>1. /\ job'[w].pc = FirstStep(m) /\ job'[w].msg = m /\ job[w].pc = "idle"
        /\ \A v \in Worker \ {w} : job'[v] = job[v]
        /\ queue[m] > 0 /\ queue' = [queue EXCEPT ![m] = @ - 1]
    BY <1>0 DEF Receive, Idle, Queued
  <1>2. Errands(r)' = Errands(r) /\ Errands(r) \in SUBSET Message
    BY Constant
  <1>3. FirstStep(m) \notin {"idle", "link_email", "publish_run", "publish_reply", "record", "done"}
    BY Messages DEF FirstStep
  <1>4. queue' \in [Message -> Nat]
    BY <1>0, <1>1
  <1>5. Undecided(r)' <=> Undecided(r)
    BY <1>0 DEF Undecided
  <1>6. CASE m \in Errands(r)
    <2>1. Errant(r)' \subseteq Errant(r) \cup {w}
      BY <1>1 DEF Errant
    <2>2. Alone(queue', Errands(r), Errant(r)')
      BY <1>0, <1>1, <1>2, <1>6, <2>1, AloneTaken DEF ErrandOnce
    <2>3. Early(r) /\ Errant(r) = {}
      <3>1. \A v \in Errant(r) : queue[m] = 0
        BY <1>6 DEF ErrandOnce, Alone
      <3> QED
        BY <1>1, <1>6, <3>1 DEF Early
    <2>4. Undecided(r) /\ replies[r] = 0 /\ runs[r].status # "absent"
      BY <1>1, <1>6, <2>3 DEF ErrandOnce, NoneOf
    <2>5. \A v \in Errant(r)' : v = w
      BY <2>1, <2>3
    <2>6. ErrandOnce(r)'
      BY <1>0, <1>1, <1>2, <1>3, <1>5, <2>2, <2>4, <2>5 DEF ErrandOnce
    <2>7. \A v \in Worker : ~ Assisting(v, m.run)
      BY <1>6, <2>3 DEF Errands, Errant, Deals, Assisting
    <2> QED
      BY <2>6, <2>7 DEF Receive
  <1>7. CASE m \notin Errands(r)
    <2>1. Errant(r)' \subseteq Errant(r) /\ w \notin Errant(r)'
      BY <1>1, <1>3, <1>7 DEF Errant, Errands, Announces, Deals
    <2>2. \A k \in Errands(r) : queue'[k] = queue[k]
      BY <1>0, <1>1, <1>2, <1>7
    <2>3. \A v \in Errant(r)' : job'[v].pc = job[v].pc /\ job'[v].snap = job[v].snap
      BY <1>1, <2>1 DEF Errant
    <2> QED
      BY <1>0, <1>4, <1>5, <1>7, <2>1, <2>2, <2>3, ErrandSame
  <1> QED
    BY <1>6, <1>7

-----------------------------------------------------------------------------
(* Requests and the surroundings *)

\* What a step of a request does to a run.
LEMMA RequestMovesOn ==
  ASSUME WellTyped, NEW u \in User, RequestStep(u), NEW r \in RunId
  PROVE  LET mine == request[u].run = r
             pc == request[u].pc
             next == request'[u].pc IN
         /\ sent' = sent
         /\ \/ replies'[r] = replies[r]
            \/ /\ mine /\ pc = "publish" /\ request'[u].run = r /\ next = "complete"
               /\ replies'[r] = replies[r] + 1 /\ runs' = runs
         /\ \/ runs'[r].status = runs[r].status
            \/ mine /\ pc = "complete" /\ runs'[r].status = "completed"
         /\ mine /\ pc = "complete" => runs'[r].status \in {"completed", "absent", "deleted"}
         /\ request'[u].run = r /\ next = "publish" =>
              /\ mine /\ pc = "send" /\ runs[r].status = "awaiting_action"
              /\ runs' = runs /\ replies' = replies
         /\ request'[u].run = r /\ next = "complete" => mine /\ pc = "publish"
  <1>0. /\ request \in [User -> Request] /\ runs \in [RunId -> Run]
        /\ replies \in [RunId -> Nat] /\ request[u] \in Request
        /\ runs[r] \in Run /\ request[u].pc # "idle" => request[u].run \in RunId
    BY DEF WellTyped, RequestsTyped, RequestOK, RunsTyped, RestTyped
  <1>1. CASE \E q \in RunId : Approve(u, q)
    <2>1. PICK q \in RunId, pc \in {"edit", "send"} :
            /\ request' = [request EXCEPT ![u] = [pc |-> pc, run |-> q, snap |-> NoRun]]
            /\ request[u].pc = "idle" /\ UNCHANGED <<runs, replies, sent>>
      BY <1>1 DEF Approve, tables, history
    <2> QED
      BY <1>0, <2>1
  <1>2. CASE LoadDraft(u, "edit", "save_draft") \/ LoadDraft(u, "send", "publish")
    <2>0. UNCHANGED <<runs, replies, sent>>
      BY <1>2 DEF LoadDraft, tables, history
    <2>1. CASE request' = [request EXCEPT ![u] = NoRequest]
      BY <1>0, <1>2, <2>0, <2>1 DEF LoadDraft, NoRequest
    <2>2. ASSUME NEW next \in {"save_draft", "publish"},
                 LoadDraft(u, IF next = "publish" THEN "send" ELSE "edit", next),
                 HasDraftToSend(request[u].run),
                 request' = [request EXCEPT ![u].pc = next, ![u].snap = runs[request[u].run]]
          PROVE  /\ request'[u].pc = next /\ request'[u].run = request[u].run
                 /\ request[u].pc = IF next = "publish" THEN "send" ELSE "edit"
                 /\ runs[request[u].run].status = "awaiting_action"
      BY <1>0, <2>2 DEF LoadDraft, HasDraftToSend, Request
    <2>3. \/ request' = [request EXCEPT ![u] = NoRequest]
          \/ \E next \in {"save_draft", "publish"} :
               /\ LoadDraft(u, IF next = "publish" THEN "send" ELSE "edit", next)
               /\ HasDraftToSend(request[u].run)
               /\ request' = [request EXCEPT ![u].pc = next, ![u].snap = runs[request[u].run]]
      <3>1. CASE LoadDraft(u, "edit", "save_draft")
        BY <3>1 DEF LoadDraft, Answered
      <3>2. CASE LoadDraft(u, "send", "publish")
        BY <3>2 DEF LoadDraft, Answered
      <3> QED
        BY <1>2, <3>1, <3>2
    <2> QED
      BY <2>0, <2>1, <2>2, <2>3
  <1>3. CASE SaveDraft(u)
    <2> DEFINE q == request[u].run
    <2>1. /\ request[u].pc = "save_draft" /\ request'[u].pc = "send"
          /\ UNCHANGED <<replies, sent>>
      BY <1>0, <1>3 DEF SaveDraft, Ask, history, Request
    <2>2. runs'[r].status = runs[r].status
      <3>1. runs'[r] = [runs[r] EXCEPT !.category = request[u].snap.category, !.draft = u]
            \/ runs'[r] = runs[r]
        BY <1>0, <1>3 DEF SaveDraft
      <3> QED
        BY <1>0, <3>1 DEF Run
    <2> QED
      BY <2>1, <2>2
  <1>4. CASE PublishApproved(u)
    <2>1. /\ request[u].pc = "publish" /\ request'[u].pc = "complete"
          /\ request'[u].run = request[u].run /\ UNCHANGED <<runs, sent>>
          /\ replies' = [replies EXCEPT ![request[u].run] = @ + 1]
      BY <1>0, <1>4 DEF PublishApproved, Ask, tables, Request
    <2> QED
      BY <1>0, <2>1
  <1>5. CASE CompleteApproved(u)
    <2> DEFINE q == request[u].run
    <2>1. /\ request[u].pc = "complete" /\ request'[u].pc = "idle" /\ q \in RunId
          /\ UNCHANGED <<replies, sent>>
      BY <1>0, <1>5 DEF CompleteApproved, Answered, NoRequest, history
    <2>2. CASE Exists(q)
      <3>1. runs' = [runs EXCEPT ![q].status = "completed",
                                 ![q].category = request[u].snap.category,
                                 ![q].draft = request[u].snap.draft]
        BY <1>5, <2>2 DEF CompleteApproved
      <3>2. q # r => runs'[r] = runs[r]
        BY <1>0, <3>1
      <3>3. q = r => runs'[r].status = "completed"
        <4>1. q = r => runs'[r] = [runs[r] EXCEPT !.status = "completed",
                                                 !.category = request[u].snap.category,
                                                 !.draft = request[u].snap.draft]
          BY <1>0, <2>1, <3>1
        <4> QED
          BY <1>0, <4>1 DEF Run
      <3> QED
        BY <2>1, <3>2, <3>3
    <2>3. CASE ~ Exists(q)
      <3>1. runs' = runs /\ q \in RunId /\ ~ Exists(q)
        BY <1>5, <2>1, <2>3 DEF CompleteApproved
      <3> QED
        BY <2>1, <3>1 DEF Exists
    <2> QED
      BY <2>2, <2>3
  <1> QED
    BY <1>1, <1>2, <1>3, <1>4, <1>5 DEF RequestStep, UserStep

LEMMA SurroundingsQuiet ==
  ASSUME SurroundingStep \/ DeleteRuns, WellTyped, NEW r \in RunId
  PROVE  /\ UNCHANGED <<job, queue, request, replies, sent, raced>>
         /\ runs'[r].status = runs[r].status \/ runs'[r].status = "deleted"
  <1>1. CASE SurroundingStep
    BY <1>1 DEF SurroundingStep, EditCategory, DeleteEmails, vars, tables, history
  <1>2. CASE DeleteRuns
    <2>1. runs'[r] = runs[r] \/ runs'[r] = [NoRun EXCEPT !.status = "deleted"]
      BY <1>2 DEF DeleteRuns
    <2>2. [NoRun EXCEPT !.status = "deleted"].status = "deleted"
      BY DEF NoRun
    <2> QED
      BY <1>2, <2>1, <2>2 DEF DeleteRuns, history
  <1> QED
    BY <1>1, <1>2

\* Requests do not disturb a run that nobody has decided about.
LEMMA ErrandRest ==
  ASSUME WellTyped, WellTyped', (\E u \in User : RequestStep(u)) \/ SurroundingStep \/ DeleteRuns,
         NEW r \in RunId, ErrandOnce(r), AnsweredOnce(r)
  PROVE  ErrandOnce(r)'
  <1>0. queue \in [Message -> Nat] /\ queue' \in [Message -> Nat]
    BY DEF WellTyped, RestTyped
  <1>1. CASE SurroundingStep \/ DeleteRuns
    <2>1. Errant(r)' = Errant(r)
      BY <1>1, SurroundingsQuiet DEF Errant
    <2>2. Undecided(r) => Undecided(r)'
      BY <1>1, SurroundingsQuiet DEF Undecided
    <2> QED
      BY <1>0, <1>1, <2>1, <2>2, SurroundingsQuiet, ErrandSame
  <1>2. ASSUME NEW u \in User, RequestStep(u)
        PROVE  ErrandOnce(r)'
    <2>1. /\ job' = job /\ \A v \in User \ {u} : request'[v] = request[v]
          /\ \A m \in Errands(r) : queue'[m] = queue[m]
      BY <1>2, RequestSteps DEF RequestStep, Errands
    <2>2. Errant(r)' = Errant(r)
      BY <2>1 DEF Errant
    <2>3. CASE ~ (request[u].run = r /\ request[u].pc \in {"publish", "complete"})
      <3>1. replies'[r] = replies[r] /\ runs'[r].status = runs[r].status
        BY <1>2, <2>3, RequestMovesOn
      <3>2. Undecided(r) => Undecided(r)'
        BY <1>2, <2>1, <2>3, <3>1, RequestMovesOn DEF Undecided
      <3> QED
        BY <1>0, <2>1, <2>2, <3>1, <3>2, ErrandSame
    <2>4. CASE request[u].run = r /\ request[u].pc \in {"publish", "complete"}
      <3>1. ~ Undecided(r)
        BY <2>4 DEF Undecided
      <3>2. ~ Early(r) /\ \A w \in Errant(r) : job[w].pc = "done"
        BY <3>1 DEF ErrandOnce, Early
      <3>3. Errands(r)' = Errands(r) /\ Errands(r) \in SUBSET Message
        BY Constant
      <3>4. Alone(queue', Errands(r), Errant(r)')
        BY <1>0, <2>1, <2>2, <3>3, AloneKept DEF ErrandOnce
      <3>5. ~ Early(r)'
        BY <2>1, <2>2, <3>2, <3>3 DEF Early
      <3>6. runs'[r].status = "absent" => NoneOf(queue', Errands(r), Errant(r)')
        <4>1. runs'[r].status = "absent" => runs[r].status = "absent"
          BY <1>2, <2>4, RequestMovesOn
        <4>2. runs[r].status = "absent" => NoneOf(queue, Errands(r), Errant(r))
          BY DEF ErrandOnce
        <4> QED
          BY <2>1, <2>2, <4>1, <4>2 DEF NoneOf
      <3> QED
        BY <2>1, <2>2, <3>2, <3>3, <3>4, <3>5, <3>6 DEF ErrandOnce
    <2> QED
      BY <2>3, <2>4
  <1> QED
    BY <1>1, <1>2

-----------------------------------------------------------------------------
(* The handlers *)

\* A handler's step that is not one of EMAIL_ASSISTANT on this run leaves its
\* replies and its status alone, unless it inserts the run.
LEMMA OtherHandler ==
  ASSUME WellTyped, NEW w \in Worker, HandlerStep(w), NEW r \in RunId,
         ~ Deals(job[w], r), ~ InsertRun(w, r)
  PROVE  replies'[r] = replies[r] /\ runs'[r].status = runs[r].status
  <1>0. runs \in [RunId -> Run] /\ replies \in [RunId -> Nat] /\ JobsTyped
    BY DEF WellTyped, RunsTyped, RestTyped
  <1>1. CASE Categorize(w) \/ Skip(w) \/ Explain(w) \/ PublishReply(w) \/ Record(w)
    <2>1. job[w].pc \in {"categorize", "skip", "explain", "publish_reply", "record"}
      BY <1>1 DEF Categorize, Skip, Explain, PublishReply, Record
    <2>2. job[w].msg.run # r
      BY <1>0, <2>1, Busy DEF StepsOf, Deals
    <2>3. runs'[r] = runs[r] /\ replies'[r] = replies[r]
      BY <1>0, <1>1, <2>2 DEF Categorize, Skip, Explain, PublishReply, Record, history, tables
    <2> QED
      BY <2>3
  <1>2. ASSUME NEW q \in RunId, InsertRun(w, q)
        PROVE  runs'[r] = runs[r] /\ replies' = replies
    BY <1>0, <1>2 DEF InsertRun, history
  <1>3. CASE runs' = runs /\ replies' = replies
    BY <1>3
  <1> QED
    BY <1>1, <1>2, <1>3
       DEF HandlerStep, WorkerStep, FindEmail, FindRun, LinkEmail, PublishRun, Load, Reload,
           FindCategory, RouteReply, Ack, SendGmail, RefuseGmail, tables, history

\* Nobody works on a run that is not there yet; its maker is the first.
LEMMA ErrandInserted ==
  ASSUME WellTyped, WellTyped', RunInv, NEW w \in Worker, NEW r \in RunId, InsertRun(w, r),
         ErrandOnce(r)
  PROVE  ErrandOnce(r)'
  <1>0. /\ job \in [Worker -> Job] /\ job[w] \in Job /\ queue \in [Message -> Nat]
    BY DEF WellTyped, JobsTyped, RestTyped
  <1>1. /\ UNCHANGED <<queue, request, replies>> /\ runs[r].status = "absent"
        /\ runs'[r].status = "pending"
        /\ job'[w].pc = "link_email" /\ job'[w].run = r
        /\ \A v \in Worker \ {w} : job'[v] = job[v]
    <2>1. HandlerStep(w)
      BY DEF HandlerStep, WorkerStep
    <2> QED
      BY <1>0, <2>1, RunsAfterHandler DEF InsertRun, Job, history
  <1>2. NoneOf(queue, Errands(r), Errant(r)) /\ Errands(r)' = Errands(r)
        /\ Errands(r) \in SUBSET Message
    BY <1>1, Constant DEF ErrandOnce
  <1>3. replies[r] = 0 /\ \A u \in User : request[u].run # r
    BY <1>1 DEF RunInv, Fresh, Unheard
  <1>4. Errant(r)' \subseteq {w}
    BY <1>1, <1>2 DEF NoneOf, Errant
  <1>5. Alone(queue', Errands(r), Errant(r)')
    BY <1>0, <1>1, <1>2, <1>4, AloneBorn
  <1>6. Undecided(r)' /\ replies'[r] = 0
    BY <1>1, <1>3 DEF Undecided
  <1>7. \A v \in Errant(r)' : job'[v].pc = "link_email"
    BY <1>1, <1>4
  <1> QED
    BY <1>1, <1>2, <1>5, <1>6, <1>7 DEF ErrandOnce

\* The message of the run is published: it takes the place of its publisher.
LEMMA ErrandPublished ==
  ASSUME WellTyped, WellTyped', NEW w \in Worker, NEW r \in RunId, PublishRun(w),
         job[w].run = r, job[w].snap.workflow \in NamedAsType, ErrandOnce(r)
  PROVE  ErrandOnce(r)'
  <1>0. /\ job \in [Worker -> Job] /\ job[w] \in Job /\ queue \in [Message -> Nat] /\ JobsTyped
    BY DEF WellTyped, JobsTyped, RestTyped
  <1> DEFINE k == Assist(r, job[w].msg.email)
  <1>1. /\ job[w].pc = "publish_run" /\ UNCHANGED <<runs, request, replies>>
        /\ queue' = [queue EXCEPT ![k] = @ + 1]
        /\ job'[w].pc \in {"done", "find_run"} /\ job'[w].msg = job[w].msg
        /\ \A v \in Worker \ {w} : job'[v] = job[v]
    BY <1>0 DEF PublishRun, Publish, Job, tables
  <1>2. k \in Errands(r)
    <2>1. k \in Message
      BY <1>0, <1>1, Messages, Busy
    <2> QED
      BY <2>1 DEF Errands, Assist
  <1> HIDE DEF k
  <1>3. Errands(r)' = Errands(r) /\ Errands(r) \in SUBSET Message
    BY Constant
  <1>4. w \in Errant(r) /\ Errant(r)' \subseteq Errant(r) \ {w}
    <2>1. job[w].msg.type = "process_incoming_email"
      BY <1>0, <1>1, Busy DEF StepsOf
    <2> QED
      BY <1>1, <2>1 DEF Errant, Announces, Deals
  <1>5. Alone(queue', Errands(r), Errant(r)')
    BY <1>0, <1>1, <1>2, <1>3, <1>4, AlonePut DEF ErrandOnce
  <1>6. Errant(r) = {w} /\ Errant(r)' = {}
    BY <1>4 DEF ErrandOnce, Alone
  <1>7. Undecided(r) /\ replies[r] = 0 /\ runs[r].status # "absent"
    BY <1>1, <1>4 DEF ErrandOnce, Early, NoneOf
  <1>8. Undecided(r)'
    BY <1>1, <1>7 DEF Undecided
  <1> QED
    BY <1>1, <1>3, <1>5, <1>6, <1>7, <1>8 DEF ErrandOnce

\* A handler of EMAIL_ASSISTANT, at the run it has the message of.
LEMMA ErrandAssisted ==
  ASSUME WellTyped, WellTyped', NEW w \in Worker, NEW r \in RunId, Deals(job[w], r),
         HandlerStep(w), ErrandOnce(r)
  PROVE  ErrandOnce(r)'
  <1>0. /\ job \in [Worker -> Job] /\ job[w] \in Job /\ runs \in [RunId -> Run]
        /\ queue \in [Message -> Nat] /\ runs[r] \in Run /\ JobsTyped
        /\ replies \in [RunId -> Nat] /\ queue' \in [Message -> Nat]
    BY DEF WellTyped, JobsTyped, RunsTyped, RestTyped
  <1>1. /\ job[w].msg.type = "email_assistant" /\ job[w].msg.run = r
        /\ job[w].pc \in StepsOf("email_assistant")
    BY <1>0 DEF JobsTyped, JobOK, Deals
  <1>2. /\ \A v \in Worker \ {w} : job'[v] = job[v]
        /\ \/ job'[w].msg = job[w].msg /\ job'[w].pc # "idle"
           \/ job'[w] = Idle
        /\ request' = request
    BY HandlerSteps DEF HandlerStep
  <1>3. \/ Load(w) \/ Categorize(w) \/ Skip(w) \/ Reload(w) \/ FindCategory(w) \/ Explain(w)
        \/ PublishReply(w) \/ Record(w) \/ Ack(w)
    BY <1>1 DEF HandlerStep, WorkerStep, FindEmail, FindRun, InsertRun, LinkEmail, PublishRun,
                RouteReply, SendGmail, RefuseGmail, StepsOf
  <1>4. \A m \in Errands(r) : queue'[m] = queue[m]
    <2>1. ~ PublishRun(w) /\ \A v \in Worker \ {w} : ~ PublishRun(v)
      <3>1. ~ PublishRun(w)
        BY <1>1 DEF PublishRun, StepsOf
      <3>2. ASSUME NEW v \in Worker \ {w}, PublishRun(v)
            PROVE  FALSE
        <4>1. job'[v].pc # "publish_run"
          BY <1>0, <3>2 DEF PublishRun, GiveUp, Goto, Job
        <4> QED
          BY <1>2, <3>2, <4>1 DEF PublishRun
      <3> QED
        BY <3>1, <3>2
    <2> QED
      BY <2>1, QueueKept DEF Errands
  <1>5. w \in Errant(r) /\ Errant(r)' \subseteq Errant(r)
    <2>1. job'[w].pc \notin {"link_email", "publish_run"}
      BY <1>1, IntakeMoves
    <2> QED
      BY <1>2, <2>1 DEF Errant, Announces, Deals, Idle
  <1>6. runs'[r].status # "absent"
    <2>1. runs[r].status # "absent"
      BY <1>5 DEF ErrandOnce, NoneOf
    <2>2. ~ InsertRun(w, r)
      BY <1>1 DEF InsertRun, StepsOf
    <2>3. Exists(r)' <=> Exists(r)
      BY <2>2, IdentityKept
    <2>4. runs'[r].status = "deleted" <=> runs[r].status = "deleted"
      BY <2>2, IdentityKept
    <2> QED
      BY <2>1, <2>3, <2>4 DEF Exists
  <1>7. /\ job[w].pc \notin {"record", "done"} => Undecided(r) /\ replies[r] = 0
        /\ job[w].pc = "publish_reply" => AutoReply(w)
    BY <1>5 DEF ErrandOnce, Early
  <1>8. ASSUME runs'[r].status = runs[r].status, Undecided(r)
        PROVE  Undecided(r)'
    BY <1>2, <1>8 DEF Undecided
  <1>9. ASSUME job'[w].pc = "done"
        PROVE  ErrandOnce(r)'
    BY <1>0, <1>4, <1>5, <1>6, <1>9, ErrandOwned
  <1>10. CASE Load(w) \/ Reload(w)
    <2>1. /\ job[w].pc \in {"load", "reload"} /\ replies' = replies /\ runs' = runs
          /\ job'[w].pc \in {"find_category", "categorize", "done"}
      BY <1>0, <1>10 DEF Load, Reload, AfterRead, Job, tables, history
    <2> QED
      BY <1>0, <1>4, <1>5, <1>6, <1>7, <1>8, <1>9, <2>1, ErrandOwned
  <1>11. CASE Categorize(w)
    <2>1. job[w].pc = "categorize" /\ replies' = replies
      BY <1>11 DEF Categorize
    <2>2. job'[w].pc \in {"skip", "reload", "done"}
      <3>1. Goto(w, "skip") \/ Goto(w, "reload") \/ Goto(w, "done")
        BY <1>11 DEF Categorize, GiveUp
      <3> QED
        BY <1>0, <3>1, GoesTo
    <2>3. runs'[r].status = runs[r].status
      <3>1. \/ runs' = runs
            \/ \E a : runs' = [runs EXCEPT ![r].currentStep = "Categorize Email",
                                           ![r].category = a, ![r].draft = None]
        BY <1>1, <1>11 DEF Categorize
      <3>2. ASSUME NEW a, runs' = [runs EXCEPT ![r].currentStep = "Categorize Email",
                                              ![r].category = a, ![r].draft = None]
            PROVE  runs'[r].status = runs[r].status
        <4>1. runs'[r] = [runs[r] EXCEPT !.currentStep = "Categorize Email", !.category = a,
                                         !.draft = None]
          BY <1>0, <3>2
        <4> QED
          BY <1>0, <4>1 DEF Run
      <3> QED
        BY <3>1, <3>2
    <2> QED
      BY <1>0, <1>4, <1>5, <1>6, <1>7, <1>8, <1>9, <2>1, <2>2, <2>3, ErrandOwned
  <1>12. CASE FindCategory(w)
    <2>1. job[w].pc = "find_category" /\ replies' = replies /\ runs' = runs
      BY <1>12 DEF FindCategory, tables
    <2>2. /\ job'[w].snap = job[w].snap
          /\ \/ job'[w].pc \in {"explain", "done"}
             \/ job'[w].pc = IF AutoReply(w) THEN "publish_reply" ELSE "record"
      <3>1. \/ Goto(w, "explain") \/ Goto(w, "done")
            \/ Goto(w, IF AutoReply(w) THEN "publish_reply" ELSE "record")
        BY <1>12 DEF FindCategory, GiveUp
      <3> QED
        BY <1>0, <3>1, GoesTo
    <2>3. AutoReply(w)' <=> AutoReply(w)
      BY <2>2 DEF AutoReply
    <2> QED
      BY <1>0, <1>4, <1>5, <1>6, <1>7, <1>8, <1>9, <2>1, <2>2, <2>3, ErrandOwned
  <1>13. CASE PublishReply(w)
    <2>1. /\ job[w].pc = "publish_reply" /\ runs' = runs /\ replies'[r] = replies[r] + 1
          /\ job'[w].pc = "record" /\ job'[w].snap = job[w].snap
      BY <1>0, <1>1, <1>13, GoesTo DEF PublishReply, tables
    <2>2. AutoReply(w)'
      BY <1>7, <2>1 DEF AutoReply
    <2> QED
      BY <1>0, <1>4, <1>5, <1>6, <1>7, <1>8, <2>1, <2>2, ErrandOwned
  <1>14. CASE Skip(w) \/ Explain(w) \/ Record(w)
    <2>1. job'[w].pc = "done"
      BY <1>0, <1>14, GoesTo DEF Skip, Explain, Record
    <2> QED
      BY <1>9, <2>1
  <1>15. CASE Ack(w)
    <2>1. w \notin Errant(r)' /\ job[w].pc = "done" /\ replies' = replies /\ runs' = runs
      BY <1>0, <1>15 DEF Ack, Errant, Announces, Deals, Idle, tables, history
    <2>2. \A v \in Errant(r)' : job'[v].pc = job[v].pc /\ job'[v].snap = job[v].snap
      BY <1>2, <2>1 DEF Errant
    <2>3. Undecided(r) => Undecided(r)'
      BY <1>8, <2>1
    <2> QED
      BY <1>0, <1>4, <1>5, <2>1, <2>2, <2>3, ErrandSame
  <1> QED
    BY <1>3, <1>10, <1>11, <1>12, <1>13, <1>14, <1>15

LEMMA ErrandWorker ==
  ASSUME WellTyped, WellTyped', RunInv, NEW w \in Worker, HandlerStep(w), NEW r \in RunId,
         \A e \in Email : FirstTime(e), ErrandOnce(r)
  PROVE  ErrandOnce(r)'
  <1>0. /\ job \in [Worker -> Job] /\ job[w] \in Job /\ JobsTyped
        /\ queue \in [Message -> Nat] /\ queue' \in [Message -> Nat]
    BY DEF WellTyped, JobsTyped, RestTyped
  <1>1. /\ \A v \in Worker \ {w} : job'[v] = job[v]
        /\ \/ job'[w].msg = job[w].msg /\ job'[w].pc # "idle"
           \/ job'[w] = Idle
        /\ request' = request /\ job[w].pc # "idle"
    BY HandlerSteps DEF HandlerStep
  <1>2. CASE InsertRun(w, r)
    BY <1>2, ErrandInserted
  <1>3. CASE Deals(job[w], r)
    BY <1>3, ErrandAssisted
  <1>4. CASE PublishRun(w) /\ job[w].run = r /\ job[w].snap.workflow \in NamedAsType
    BY <1>4, ErrandPublished
  <1>5. CASE /\ ~ InsertRun(w, r) /\ ~ Deals(job[w], r)
             /\ ~ (PublishRun(w) /\ job[w].run = r /\ job[w].snap.workflow \in NamedAsType)
    <2>1. replies'[r] = replies[r] /\ runs'[r].status = runs[r].status
      BY <1>5, OtherHandler
    <2>2. Undecided(r) => Undecided(r)'
      BY <1>1, <2>1 DEF Undecided
    <2>3. ~ Deals(job'[w], r)
      BY <1>1, <1>5 DEF Deals, Idle
    <2>4. Announces(job'[w], r) =>
            /\ Announces(job[w], r)
            /\ job'[w].pc = job[w].pc \/ (job'[w].pc = "publish_run" /\ job[w].pc = "link_email")
      <3> SUFFICES ASSUME Announces(job'[w], r)
                   PROVE  Announces(job[w], r) /\ job'[w].pc = "publish_run"
                          /\ job[w].pc = "link_email"
        OBVIOUS
      <3>1. CASE job[w].pc = "find_run"
        <4>1. /\ job'[w].pc = "link_email" /\ job[w].msg.type = "process_incoming_email"
              /\ job'[w].snap.workflow \in job[w].todo
              /\ job'[w].run \in RunsFor(job'[w].snap.workflow, job[w].msg.email)
          BY <3>1, IntakeMoves DEF Announces
        <4>2. job[w].todo \subseteq Workflow
          BY <1>0 DEF Job
        <4>3. job[w].msg.email \in Email /\ TakesIn(job[w], job[w].msg.email)
          BY <1>0, <3>1, <4>1, Busy, SameMessage DEF TakesIn
        <4>4. RunsFor(job'[w].snap.workflow, job[w].msg.email) = {}
          BY <3>1, <4>1, <4>2, <4>3 DEF FirstTime
        <4> QED
          BY <4>1, <4>4
      <3>2. CASE job[w].pc = "insert_run"
        BY <1>5, <3>2, IntakeMoves DEF Announces
      <3>3. CASE job[w].pc = "link_email"
        BY <3>3, IntakeMoves DEF Announces
      <3> QED
        BY <3>1, <3>2, <3>3, IntakeMoves DEF Announces
    <2>5. /\ Errant(r)' \subseteq Errant(r)
          /\ \A v \in Errant(r)' :
               \/ job'[v].pc = job[v].pc /\ job'[v].snap = job[v].snap
               \/ job'[v].pc = "publish_run" /\ job[v].pc = "link_email"
      <3>1. ASSUME NEW v \in Errant(r)', v # w
            PROVE  v \in Errant(r) /\ job'[v] = job[v]
        BY <1>1, <3>1 DEF Errant
      <3>2. ASSUME w \in Errant(r)'
            PROVE  w \in Errant(r) /\ job'[w].pc = "publish_run" /\ job[w].pc = "link_email"
        <4>1. Announces(job'[w], r)
          BY <2>3, <3>2 DEF Errant
        <4>2. Announces(job[w], r) /\ job'[w].pc # job[w].pc
          BY <2>4, <4>1, IntakeMoves DEF Announces
        <4> QED
          BY <2>4, <4>1, <4>2 DEF Errant
      <3> QED
        BY <3>1, <3>2
    <2>6. \A m \in Errands(r) : queue'[m] = queue[m]
      <3> SUFFICES ASSUME NEW m \in Errands(r), queue'[m] # queue[m]
                   PROVE  FALSE
        OBVIOUS
      <3>1. PICK v \in Worker : PublishRun(v) /\ m = Assist(job[v].run, job[v].msg.email)
        BY QueueKept DEF Errands
      <3>2. v = w
        <4>1. job'[v].pc # "publish_run"
          BY <1>0, <3>1 DEF PublishRun, GiveUp, Goto, Job
        <4> QED
          BY <1>1, <3>1, <4>1 DEF PublishRun
      <3>3. job[w].run = r
        BY <3>1, <3>2 DEF Errands, Assist
      <3>4. queue' # queue
        OBVIOUS
      <3>5. job[w].snap.workflow \in NamedAsType
        BY <3>1, <3>2, <3>4 DEF PublishRun
      <3> QED
        BY <1>5, <3>1, <3>2, <3>3, <3>5
    <2> QED
      BY <1>0, <2>1, <2>2, <2>5, <2>6, ErrandSame
  <1> QED
    BY <1>2, <1>3, <1>4, <1>5

-----------------------------------------------------------------------------
(* The replies of a run *)

LEMMA AnsweredWorker ==
  ASSUME WellTyped, NEW w \in Worker, HandlerStep(w), NEW r \in RunId,
         ErrandOnce(r), AnsweredOnce(r)
  PROVE  AnsweredOnce(r)'
  <1>0. /\ job \in [Worker -> Job] /\ job[w] \in Job /\ runs \in [RunId -> Run]
        /\ runs[r] \in Run /\ replies \in [RunId -> Nat] /\ JobsTyped /\ request' = request
    BY HandlerSteps DEF WellTyped, JobsTyped, RunsTyped, RestTyped, HandlerStep
  <1>1. CASE PublishReply(w) /\ Deals(job[w], r)
    <2>1. /\ job[w].pc = "publish_reply" /\ replies'[r] = replies[r] + 1 /\ runs' = runs
      BY <1>0, <1>1 DEF PublishReply, Deals, tables
    <2>2. Undecided(r) /\ replies[r] = 0
      BY <1>1, <2>1 DEF ErrandOnce, Early, Errant
    <2> QED
      BY <1>0, <2>1, <2>2 DEF AnsweredOnce, Undecided
  <1>2. CASE Record(w) /\ Deals(job[w], r)
    <2>1. job[w].pc = "record" /\ replies' = replies
      BY <1>2 DEF Record, history
    <2>2. replies[r] = IF AutoReply(w) THEN 1 ELSE 0
      BY <1>2, <2>1 DEF ErrandOnce, Errant
    <2>3. runs'[r].status = "awaiting_action" => ~ AutoReply(w) \/ runs' = runs
      <3>1. \/ runs' = runs
            \/ runs'[r] = [runs[r] EXCEPT !.status = IF AutoReply(w) THEN "completed"
                                                                     ELSE "awaiting_action",
                                          !.currentStep = "Reply Email",
                                          !.category = job[w].snap.category,
                                          !.draft = "generated"]
        BY <1>0, <1>2 DEF Record, Deals
      <3> QED
        BY <1>0, <3>1 DEF Run
    <2> QED
      BY <1>0, <2>1, <2>2, <2>3 DEF AnsweredOnce
  <1>3. CASE (Skip(w) \/ Explain(w) \/ Categorize(w)) /\ Deals(job[w], r)
    <2>1. replies' = replies
      BY <1>3 DEF Skip, Explain, Categorize, history
    <2>2. runs'[r].status = "awaiting_action" => runs[r].status = "awaiting_action"
      <3>1. CASE Skip(w)
        <4>1. runs'[r] = runs[r] \/ runs'[r] = [runs[r] EXCEPT !.status = "skipped",
                                                              !.explanation = "no_category"]
          BY <1>0, <1>3, <3>1 DEF Skip, Deals
        <4> QED
          BY <1>0, <4>1 DEF Run
      <3>2. CASE Explain(w)
        <4>1. runs'[r] = runs[r] \/ runs'[r] = [runs[r] EXCEPT !.status = "completed",
                                                              !.explanation = "no_resources"]
          BY <1>0, <1>3, <3>2 DEF Explain, Deals
        <4> QED
          BY <1>0, <4>1 DEF Run
      <3>3. CASE Categorize(w)
        <4>1. \/ runs' = runs
              \/ \E a : runs' = [runs EXCEPT ![r].currentStep = "Categorize Email",
                                             ![r].category = a, ![r].draft = None]
          BY <1>3, <3>3 DEF Categorize, Deals
        <4>2. ASSUME NEW a, runs' = [runs EXCEPT ![r].currentStep = "Categorize Email",
                                                ![r].category = a, ![r].draft = None]
              PROVE  runs'[r].status = runs[r].status
          <5>1. runs'[r] = [runs[r] EXCEPT !.currentStep = "Categorize Email", !.category = a,
                                           !.draft = None]
            BY <1>0, <4>2
          <5> QED
            BY <1>0, <5>1 DEF Run
        <4> QED
          BY <4>1, <4>2
      <3> QED
        BY <1>3, <3>1, <3>2, <3>3
    <2> QED
      BY <1>0, <2>1, <2>2 DEF AnsweredOnce
  <1>4. CASE InsertRun(w, r)
    <2>1. runs'[r].status = "pending" /\ replies' = replies
      BY <1>4, RunsAfterHandler DEF InsertRun, history
    <2> QED
      BY <1>0, <2>1 DEF AnsweredOnce
  <1>5. CASE replies'[r] = replies[r] /\ runs'[r].status = runs[r].status
    BY <1>0, <1>5 DEF AnsweredOnce
  <1>6. CASE /\ Deals(job[w], r)
             /\ ~ (PublishReply(w) \/ Record(w) \/ Skip(w) \/ Explain(w) \/ Categorize(w))
    <2>1. replies' = replies /\ (runs' = runs \/ \E q \in RunId : InsertRun(w, q))
      BY <1>6 DEF HandlerStep, WorkerStep, FindEmail, FindRun, LinkEmail, PublishRun, InsertRun,
                  Load, Reload, FindCategory, RouteReply, Ack, SendGmail, RefuseGmail, tables,
                  history
    <2>2. \A q \in RunId : ~ InsertRun(w, q)
      BY <1>0, <1>6, Busy DEF InsertRun, Deals, StepsOf
    <2> QED
      BY <1>5, <2>1, <2>2
  <1> QED
    BY <1>1, <1>2, <1>3, <1>4, <1>5, <1>6, OtherHandler

LEMMA AnsweredRest ==
  ASSUME WellTyped, \A u, v \in User : u = v,
         (\E u \in User : RequestStep(u)) \/ SurroundingStep \/ DeleteRuns,
         NEW r \in RunId, AnsweredOnce(r)
  PROVE  AnsweredOnce(r)'
  <1>0. replies \in [RunId -> Nat]
    BY DEF WellTyped, RestTyped
  <1>1. CASE SurroundingStep \/ DeleteRuns
    BY <1>1, SurroundingsQuiet DEF AnsweredOnce
  <1>2. ASSUME NEW u \in User, RequestStep(u)
        PROVE  AnsweredOnce(r)'
    <2>1. \A v \in User : v = u
      OBVIOUS
    <2> DEFINE at(pc) == request[u].run = r /\ request[u].pc = pc
    <2>2. CASE at("publish")
      <3>1. replies[r] = 0 /\ runs'[r].status = runs[r].status
        BY <1>2, <2>2, RequestMovesOn DEF AnsweredOnce
      <3>2. \/ replies'[r] = 0
            \/ replies'[r] = 1 /\ request'[u].run = r /\ request'[u].pc = "complete"
        BY <1>0, <1>2, <3>1, RequestMovesOn
      <3> QED
        BY <1>0, <2>1, <3>1, <3>2 DEF AnsweredOnce
    <2>3. CASE at("complete")
      <3>1. /\ replies'[r] = replies[r] /\ runs'[r].status # "awaiting_action"
            /\ ~ (request'[u].run = r /\ request'[u].pc = "publish")
        BY <1>2, <2>3, RequestMovesOn
      <3> QED
        BY <1>0, <2>1, <3>1 DEF AnsweredOnce
    <2>4. CASE ~ at("publish") /\ ~ at("complete")
      <3>1. replies'[r] = replies[r] /\ runs'[r].status = runs[r].status
        BY <1>2, <2>4, RequestMovesOn
      <3>2. runs[r].status = "awaiting_action" => replies[r] = 0
        BY <2>1, <2>4 DEF AnsweredOnce
      <3>3. request'[u].run = r /\ request'[u].pc = "publish" =>
              runs[r].status = "awaiting_action"
        BY <1>2, RequestMovesOn
      <3> QED
        BY <1>0, <2>1, <3>1, <3>2, <3>3 DEF AnsweredOnce
    <2> QED
      BY <2>2, <2>3, <2>4
  <1> QED
    BY <1>1, <1>2

-----------------------------------------------------------------------------
(* The reply on its way *)

\* The reply stays where it is, or is dropped.
LEMMA SentSame ==
  ASSUME queue \in [Message -> Nat], queue' \in [Message -> Nat], NEW r \in RunId,
         SentOnce(r), \A m \in Replies(r) : queue'[m] <= queue[m],
         Carriers(r)' \subseteq Carriers(r), replies'[r] = replies[r], sent'[r] = sent[r]
  PROVE  SentOnce(r)'
  <1>0. Replies(r)' = Replies(r) /\ Replies(r) \in SUBSET Message
    BY Constant
  <1>1. /\ Alone(queue', Replies(r), Carriers(r)')
        /\ NoneOf(queue, Replies(r), Carriers(r)) => NoneOf(queue', Replies(r), Carriers(r)')
    BY <1>0, AloneKept DEF SentOnce
  <1> QED
    BY <1>0, <1>1 DEF SentOnce

\* The first reply of a run is published.
LEMMA SentBorn ==
  ASSUME queue \in [Message -> Nat], NEW r \in RunId, SentOnce(r), NEW k \in Replies(r),
         queue' = [queue EXCEPT ![k] = @ + 1], Carriers(r)' \subseteq Carriers(r),
         sent[r] \in Nat, replies[r] = 0, replies'[r] = 1, sent'[r] = sent[r]
  PROVE  SentOnce(r)'
  <1>0. Replies(r)' = Replies(r) /\ Replies(r) \in SUBSET Message
    BY Constant
  <1>1. NoneOf(queue, Replies(r), Carriers(r)) /\ sent[r] = 0
    BY DEF SentOnce
  <1>2. Alone(queue', Replies(r), Carriers(r)')
    BY <1>0, <1>1, AloneBorn
  <1> QED
    BY <1>0, <1>1, <1>2 DEF SentOnce

\* Its handler puts it back, or on.
LEMMA SentPut ==
  ASSUME queue \in [Message -> Nat], NEW r \in RunId, SentOnce(r), NEW k \in Replies(r),
         NEW w \in Carriers(r),
         queue' = [queue EXCEPT ![k] = @ + 1], Carriers(r)' \subseteq Carriers(r) \ {w},
         replies'[r] = replies[r], sent'[r] = sent[r]
  PROVE  SentOnce(r)'
  <1>0. Replies(r)' = Replies(r) /\ Replies(r) \in SUBSET Message
    BY Constant
  <1>1. Alone(queue', Replies(r), Carriers(r)')
    BY <1>0, AlonePut DEF SentOnce
  <1>2. replies[r] # 0 /\ sent[r] # 1
    BY DEF SentOnce, NoneOf
  <1> QED
    BY <1>0, <1>1, <1>2 DEF SentOnce

LEMMA SentReceive ==
  ASSUME WellTyped, WellTyped', NEW w \in Worker, NEW m \in Message, Receive(w, m),
         NEW r \in RunId, SentOnce(r)
  PROVE  SentOnce(r)'
  <1>0. /\ job \in [Worker -> Job] /\ queue \in [Message -> Nat] /\ queue' \in [Message -> Nat]
        /\ UNCHANGED <<replies, sent>>
    BY DEF WellTyped, JobsTyped, RestTyped, Receive
  <1>1. /\ job'[w].pc = FirstStep(m) /\ job'[w].msg = m /\ job[w].pc = "idle"
        /\ \A v \in Worker \ {w} : job'[v] = job[v]
        /\ queue[m] > 0 /\ queue' = [queue EXCEPT ![m] = @ - 1]
    BY <1>0 DEF Receive, Idle, Queued
  <1>2. Replies(r)' = Replies(r) /\ Replies(r) \in SUBSET Message
    BY Constant
  <1>3. CASE m \in Replies(r)
    <2>1. Carriers(r)' \subseteq Carriers(r) \cup {w}
      BY <1>1 DEF Carriers
    <2>2. Alone(queue', Replies(r), Carriers(r)')
      BY <1>0, <1>1, <1>2, <1>3, <2>1, AloneTaken DEF SentOnce
    <2>3. ~ NoneOf(queue, Replies(r), Carriers(r))
      BY <1>1, <1>3 DEF NoneOf
    <2> QED
      BY <1>0, <1>2, <2>2, <2>3 DEF SentOnce
  <1>4. CASE m \notin Replies(r)
    <2>1. w \notin Carriers(r)'
      <3>1. FirstStep(m) \in {"route", "send"} =>
              m.type \in {"email_workflow_reply", "email_workflow_reply_gmail"}
        BY Messages DEF FirstStep
      <3> QED
        BY <1>1, <1>4, <3>1 DEF Carriers, Carries, Replies
    <2>2. Carriers(r)' \subseteq Carriers(r)
      BY <1>1, <2>1 DEF Carriers
    <2>3. \A k \in Replies(r) : queue'[k] <= queue[k]
      BY <1>0, <1>1, <1>2, <1>4
    <2> QED
      BY <1>0, <2>2, <2>3, SentSame
  <1> QED
    BY <1>3, <1>4

LEMMA SentWorker ==
  ASSUME WellTyped, WellTyped', NEW w \in Worker, HandlerStep(w), NEW r \in RunId,
         ErrandOnce(r), AnsweredOnce(r), SentOnce(r)
  PROVE  SentOnce(r)'
  <1>0. /\ job \in [Worker -> Job] /\ job[w] \in Job /\ JobsTyped
        /\ queue \in [Message -> Nat] /\ queue' \in [Message -> Nat]
        /\ replies \in [RunId -> Nat] /\ sent \in [RunId -> Nat]
    BY DEF WellTyped, JobsTyped, RestTyped
  <1>1. Carriers(r)' \subseteq Carriers(r) \ {w}
    <2>1. job'[w].pc \notin {"route", "send"} /\ \A v \in Worker \ {w} : job'[v] = job[v]
      BY HandlerGoesOn, HandlerSteps DEF HandlerStep
    <2> QED
      BY <2>1 DEF Carriers, Carries
  <1>2. Replies(r) \in SUBSET Message
    BY Constant
  <1>3. ASSUME NEW k, k.type = "email_assistant" \/ k.run # r, Publish(k)
        PROVE  \A m \in Replies(r) : queue'[m] = queue[m]
    BY <1>0, <1>3 DEF Publish, Replies
  <1>4. CASE PublishReply(w)
    <2> DEFINE q == job[w].msg.run
               k == Reply(q, job[w].msg.email, "generated")
    <2>1. /\ job[w].pc = "publish_reply" /\ Deals(job[w], q) /\ q \in RunId
          /\ k.type = "email_workflow_reply" /\ k.run = q /\ k \in Message
          /\ queue' = [queue EXCEPT ![k] = @ + 1] /\ replies' = [replies EXCEPT ![q] = @ + 1]
          /\ sent' = sent
      <3>1. job[w].pc = "publish_reply"
        BY <1>4 DEF PublishReply
      <3>2. job[w].msg.type = "email_assistant" /\ q \in RunId /\ job[w].msg.email \in Email
        BY <1>0, <3>1, Busy DEF StepsOf
      <3>3. k \in Message
        BY <3>2, Messages DEF Body
      <3> QED
        BY <1>4, <3>1, <3>2, <3>3 DEF PublishReply, Publish, Deals, Reply
    <2> HIDE DEF k
    <2>2. CASE q = r
      <3>1. k \in Replies(r)
        BY <2>1, <2>2 DEF Replies
      <3>2. replies[r] = 0
        BY <2>1, <2>2 DEF ErrandOnce, Early, Errant
      <3>3. replies'[r] = 1
        BY <1>0, <2>1, <2>2, <3>2
      <3> QED
        BY <1>0, <1>1, <2>1, <3>1, <3>2, <3>3, SentBorn
    <2>3. CASE q # r
      <3>1. \A m \in Replies(r) : queue'[m] = queue[m]
        BY <1>0, <2>1, <2>3 DEF Replies
      <3> QED
        BY <1>0, <1>1, <1>2, <2>1, <2>3, <3>1, SentSame
    <2> QED
      BY <2>2, <2>3
  <1>5. CASE RouteReply(w)
    <2> DEFINE m == job[w].msg
               k == GmailReply(m.run, m.email, m.body)
    <2>1. /\ job[w].pc = "route" /\ m.run \in RunId /\ m.email \in Email /\ m.body \in Body
          /\ UNCHANGED <<replies, sent>>
      <3>1. job[w].pc = "route"
        BY <1>5 DEF RouteReply
      <3> QED
        BY <1>0, <1>5, <3>1, Busy DEF RouteReply, history
    <2>2. k.type = "email_workflow_reply_gmail" /\ k.run = m.run /\ k \in Message
      BY <2>1, Messages DEF GmailReply
    <2>3. queue' = [queue EXCEPT ![k] = @ + 1] \/ queue' = queue
      BY <1>5 DEF RouteReply, Publish
    <2> HIDE DEF k
    <2>4. CASE queue' = queue
      BY <1>0, <1>1, <1>2, <2>1, <2>4, SentSame
    <2>5. CASE queue' = [queue EXCEPT ![k] = @ + 1] /\ m.run = r
      <3>1. k \in Replies(r) /\ w \in Carriers(r)
        BY <2>1, <2>2, <2>5 DEF Replies, Carriers, Carries
      <3> QED
        BY <1>0, <1>1, <2>1, <2>5, <3>1, SentPut
    <2>6. CASE queue' = [queue EXCEPT ![k] = @ + 1] /\ m.run # r
      <3>1. \A n \in Replies(r) : queue'[n] = queue[n]
        BY <1>0, <2>2, <2>6 DEF Replies
      <3> QED
        BY <1>0, <1>1, <1>2, <2>1, <3>1, SentSame
    <2> QED
      BY <2>3, <2>4, <2>5, <2>6
  <1>6. CASE SendGmail(w)
    <2> DEFINE q == job[w].msg.run
    <2>1. /\ job[w].pc = "send" /\ q \in RunId /\ sent' = [sent EXCEPT ![q] = @ + 1]
          /\ UNCHANGED <<queue, replies>>
      <3>1. job[w].pc = "send"
        BY <1>6 DEF SendGmail
      <3> QED
        BY <1>0, <1>6, <3>1, Busy DEF SendGmail
    <2>2. CASE q = r
      <3>1. w \in Carriers(r)
        BY <2>1, <2>2 DEF Carriers, Carries
      <3>2. replies[r] # 0 /\ sent[r] # 1 /\ sent[r] <= replies[r] /\ replies[r] <= 1
        BY <3>1 DEF SentOnce, NoneOf, AnsweredOnce
      <3>3. NoneOf(queue, Replies(r), Carriers(r)')
        BY <1>1, <3>1 DEF SentOnce, Alone, NoneOf
      <3>4. Alone(queue, Replies(r), Carriers(r)')
        BY <1>1, <3>3 DEF Alone, NoneOf
      <3>5. Replies(r)' = Replies(r)
        BY Constant
      <3>6. sent'[r] = sent[r] + 1 /\ sent[r] \in Nat /\ replies[r] \in Nat
        BY <1>0, <2>1, <2>2
      <3>7. sent'[r] <= replies[r]
        BY <3>2, <3>6
      <3> QED
        BY <1>0, <2>1, <3>2, <3>3, <3>4, <3>5, <3>7 DEF SentOnce
    <2>3. CASE q # r
      BY <1>0, <1>1, <1>2, <2>1, <2>3, SentSame
    <2> QED
      BY <2>2, <2>3
  <1>7. CASE RefuseGmail(w)
    <2> DEFINE m == job[w].msg
    <2>1. /\ job[w].pc = "send" /\ m \in Message /\ m.type = "email_workflow_reply_gmail"
          /\ UNCHANGED <<replies, sent>>
          /\ queue' = [queue EXCEPT ![m] = @ + 1] \/ queue' = queue
      <3>1. job[w].pc = "send"
        BY <1>7 DEF RefuseGmail
      <3> QED
        BY <1>0, <1>7, <3>1, Busy DEF RefuseGmail, Nack, history
    <2>2. CASE queue' = queue
      BY <1>0, <1>1, <1>2, <2>1, <2>2, SentSame
    <2>3. CASE queue' = [queue EXCEPT ![m] = @ + 1] /\ m.run = r
      <3>1. m \in Replies(r) /\ w \in Carriers(r)
        BY <2>1, <2>3 DEF Replies, Carriers, Carries
      <3> QED
        BY <1>0, <1>1, <2>1, <2>3, <3>1, SentPut
    <2>4. CASE queue' = [queue EXCEPT ![m] = @ + 1] /\ m.run # r
      <3>1. \A n \in Replies(r) : queue'[n] = queue[n]
        BY <1>0, <2>1, <2>4 DEF Replies
      <3> QED
        BY <1>0, <1>1, <1>2, <2>1, <3>1, SentSame
    <2> QED
      BY <2>1, <2>2, <2>3, <2>4
  <1>8. CASE PublishRun(w)
    <2>1. UNCHANGED <<replies, sent>>
      BY <1>8 DEF PublishRun
    <2>2. \A m \in Replies(r) : queue'[m] = queue[m]
      <3>1. Assist(job[w].run, job[w].msg.email).type = "email_assistant"
        BY DEF Assist
      <3> QED
        BY <1>3, <1>8, <3>1 DEF PublishRun
    <2> QED
      BY <1>0, <1>1, <1>2, <2>1, <2>2, SentSame
  <1>9. CASE UNCHANGED <<queue, replies, sent>>
    BY <1>0, <1>1, <1>2, <1>9, SentSame
  <1> QED
    BY <1>4, <1>5, <1>6, <1>7, <1>8, <1>9
       DEF HandlerStep, WorkerStep, FindEmail, FindRun, LinkEmail, InsertRun, Load, Categorize,
           Skip, Reload, FindCategory, Explain, Record, Ack, history

LEMMA SentRest ==
  ASSUME WellTyped, WellTyped',
         (\E u \in User : RequestStep(u)) \/ SurroundingStep \/ DeleteRuns,
         NEW r \in RunId, AnsweredOnce(r), SentOnce(r)
  PROVE  SentOnce(r)'
  <1>0. /\ queue \in [Message -> Nat] /\ queue' \in [Message -> Nat]
        /\ replies \in [RunId -> Nat] /\ sent \in [RunId -> Nat]
        /\ Replies(r) \in SUBSET Message
    BY Constant DEF WellTyped, RestTyped
  <1>1. CASE SurroundingStep \/ DeleteRuns
    <2>1. UNCHANGED <<job, queue, replies, sent>>
      BY <1>1, SurroundingsQuiet
    <2>2. Carriers(r)' \subseteq Carriers(r)
      BY <2>1 DEF Carriers
    <2> QED
      BY <1>0, <2>1, <2>2, SentSame
  <1>2. ASSUME NEW u \in User, RequestStep(u)
        PROVE  SentOnce(r)'
    <2>1. job' = job /\ sent' = sent
      BY <1>2, RequestSteps, RequestMovesOn DEF RequestStep
    <2>2. Carriers(r)' \subseteq Carriers(r)
      BY <2>1 DEF Carriers
    <2>3. CASE PublishApproved(u)
      <3> DEFINE q == request[u].run
                 k == Reply(q, request[u].snap.email, request[u].snap.draft)
      <3>1. /\ request[u].pc = "publish" /\ q \in RunId /\ k.type = "email_workflow_reply"
            /\ k.run = q /\ k \in Message /\ queue' = [queue EXCEPT ![k] = @ + 1]
            /\ replies' = [replies EXCEPT ![q] = @ + 1]
        <4>1. request[u].pc = "publish"
          BY <2>3 DEF PublishApproved
        <4>2. q \in RunId /\ request[u].snap.email \in Email /\ request[u].snap.draft \in Body
          BY <4>1 DEF WellTyped, RequestsTyped, RequestOK
        <4>3. k \in Message
          BY <4>2, Messages
        <4> QED
          BY <2>3, <4>1, <4>2, <4>3 DEF PublishApproved, Publish, Reply
      <3> HIDE DEF k
      <3>2. CASE q = r
        <4>1. k \in Replies(r)
          BY <3>1, <3>2 DEF Replies
        <4>2. replies[r] = 0
          BY <3>1, <3>2 DEF AnsweredOnce
        <4>3. replies'[r] = 1
          BY <1>0, <3>1, <3>2, <4>2
        <4> QED
          BY <1>0, <2>1, <2>2, <3>1, <4>1, <4>2, <4>3, SentBorn
      <3>3. CASE q # r
        <4>1. \A m \in Replies(r) : queue'[m] = queue[m]
          BY <1>0, <3>1, <3>3 DEF Replies
        <4> QED
          BY <1>0, <2>1, <2>2, <3>1, <3>3, <4>1, SentSame
      <3> QED
        BY <3>2, <3>3
    <2>4. CASE UNCHANGED <<queue, replies>>
      BY <1>0, <2>1, <2>2, <2>4, SentSame
    <2> QED
      BY <1>2, <2>3, <2>4 DEF RequestStep, UserStep, Approve, LoadDraft, SaveDraft,
                              CompleteApproved, history
  <1> QED
    BY <1>1, <1>2

-----------------------------------------------------------------------------
(* At most one reply *)

LEMMA CalmNext ==
  ASSUME WellTyped, WellTyped', RunInv, OnceInv, CalmInv, [Next]_vars
  PROVE  CalmInv'
  <1> SUFFICES ASSUME Calm'
               PROVE  /\ raced' = {}
                      /\ \A e \in Email : FirstTime(e)'
                      /\ \A r \in RunId : ErrandOnce(r)' /\ AnsweredOnce(r)' /\ SentOnce(r)'
    BY DEF CalmInv
  <1>1. ~ Crash /\ ~ Reconnect
    BY DEF Calm, Crash, Reconnect, WellTyped, RestTyped
  <1>2. Calm
    <2>1. crashes' = crashes /\ reconnects' = reconnects
      <3>1. ASSUME NEW w \in Worker, HandlerStep(w)
            PROVE  crashes' = crashes /\ reconnects' = reconnects
        BY <3>1 DEF HandlerStep, WorkerStep, FindEmail, FindRun, InsertRun, LinkEmail,
                    PublishRun, Load, Categorize, Skip, Reload, FindCategory, Explain,
                    PublishReply, Record, RouteReply, Ack, SendGmail, RefuseGmail, faults
      <3>2. CASE ~ \E w \in Worker : HandlerStep(w)
        BY <1>1, <3>2 DEF Next, HandlerStep, UserStep, Receive, Approve, LoadDraft, SaveDraft,
                          PublishApproved, CompleteApproved, EditCategory, DeleteRuns,
                          DeleteEmails, vars, faults
      <3> QED
        BY <3>1, <3>2
    <2> QED
      BY <2>1 DEF Calm
  <1>3. /\ raced = {} /\ \A u, v \in User : u = v
        /\ \A e \in Email : FirstTime(e) /\ OneAnnouncement(e)
        /\ \A r \in RunId : ErrandOnce(r) /\ AnsweredOnce(r) /\ SentOnce(r)
    BY <1>2 DEF CalmInv, OnceInv, Calm
  <1>4. ASSUME NEW w \in Worker, NEW m \in Message, Receive(w, m)
        PROVE  /\ raced' = {}
               /\ \A e \in Email : FirstTime(e)'
               /\ \A r \in RunId : ErrandOnce(r)' /\ AnsweredOnce(r)' /\ SentOnce(r)'
    <2>1. raced' = {}
      <3>1. CASE m.type = "email_assistant"
        <4>1. m.run \in RunId /\ m \in Errands(m.run)
          BY <3>1, Messages DEF Errands
        <4> QED
          BY <1>3, <1>4, <4>1, ErrandReceive
      <3>2. CASE m.type # "email_assistant"
        BY <1>3, <1>4, <3>2 DEF Receive
      <3> QED
        BY <3>1, <3>2
    <2>2. \A r \in RunId : AnsweredOnce(r)'
      BY <1>3, <1>4 DEF Receive, tables, AnsweredOnce
    <2> QED
      BY <1>3, <1>4, <2>1, <2>2, FirstReceive, ErrandReceive, SentReceive
  <1>5. ASSUME NEW w \in Worker, HandlerStep(w)
        PROVE  /\ raced' = {}
               /\ \A e \in Email : FirstTime(e)'
               /\ \A r \in RunId : ErrandOnce(r)' /\ AnsweredOnce(r)' /\ SentOnce(r)'
    <2>1. raced' = {}
      BY <1>3, <1>5, HandlerSteps DEF HandlerStep
    <2> QED
      BY <1>3, <1>5, <2>1, FirstWorker, ErrandWorker, AnsweredWorker, SentWorker
  <1>6. ASSUME (\E u \in User : RequestStep(u)) \/ SurroundingStep \/ DeleteRuns
        PROVE  /\ raced' = {}
               /\ \A e \in Email : FirstTime(e)'
               /\ \A r \in RunId : ErrandOnce(r)' /\ AnsweredOnce(r)' /\ SentOnce(r)'
    <2>1. raced' = {}
      <3>1. CASE \E u \in User : RequestStep(u)
        BY <1>3, <3>1, RequestSteps DEF RequestStep
      <3>2. CASE SurroundingStep \/ DeleteRuns
        BY <1>3, <3>2 DEF SurroundingStep, EditCategory, DeleteEmails, DeleteRuns, vars, history
      <3> QED
        BY <1>6, <3>1, <3>2
    <2> QED
      BY <1>3, <1>6, <2>1, FirstRest, ErrandRest, AnsweredRest, SentRest
  <1> QED
    BY <1>1, <1>4, <1>5, <1>6 DEF Next, HandlerStep, RequestStep, SurroundingStep

LEMMA CalmInit == Init => CalmInv
  <1> SUFFICES ASSUME Init PROVE CalmInv
    OBVIOUS
  <1>1. /\ \A w \in Worker : job[w] = Idle
        /\ \A u \in User : request[u] = NoRequest
        /\ \A m \in Message : m.type # "process_incoming_email" => queue[m] = 0
        /\ \A r \in RunId : runs[r] = NoRun /\ replies[r] = 0 /\ sent[r] = 0
        /\ raced = {}
    BY DEF Init
  <1>2. \A e \in Email : FirstTime(e)
    BY <1>1 DEF FirstTime, RunsFor, Exists, NoRun, TakesIn, Idle
  <1>3. ASSUME NEW r \in RunId
        PROVE  ErrandOnce(r) /\ AnsweredOnce(r) /\ SentOnce(r)
    <2>1. (\A m \in Errands(r) \cup Replies(r) : queue[m] = 0) /\ Errant(r) = {} /\ Carriers(r) = {}
      BY <1>1 DEF Errands, Replies, Errant, Carriers, Announces, Deals, Carries, Idle
    <2>2. /\ Alone(queue, Errands(r), Errant(r)) /\ NoneOf(queue, Errands(r), Errant(r))
          /\ Alone(queue, Replies(r), Carriers(r)) /\ NoneOf(queue, Replies(r), Carriers(r))
      BY <2>1 DEF Alone, NoneOf
    <2>3. ~ Early(r)
      BY <2>1 DEF Early
    <2>4. runs[r].status = "absent" /\ \A u \in User : request[u].pc = "idle"
      BY <1>1 DEF NoRun, NoRequest
    <2> QED
      BY <1>1, <2>1, <2>2, <2>3, <2>4 DEF ErrandOnce, AnsweredOnce, SentOnce
  <1> QED
    BY <1>1, <1>2, <1>3 DEF CalmInv

\* Where nothing crashes and one person approves, each step of the way to a
\* reply is made by one party only: the run is announced once, worked on once,
\* answered by its handler or by the approval but never by both, and its reply
\* is handed on, not copied.
THEOREM SendersHearOnce == Spec => []AtMostOneReply
  <1>1. CalmInv => AtMostOneReply
    <2> SUFFICES ASSUME CalmInv, crashes = 0, reconnects = 0, Cardinality(User) = 1,
                        NEW r \in RunId
                 PROVE  replies[r] <= 1 /\ sent[r] <= replies[r]
      BY DEF AtMostOneReply
    <2>1. PICK u : User = {u}
      BY ConstantsAssumption, FS_Singleton
    <2>2. Calm
      BY <2>1 DEF Calm
    <2> QED
      BY <2>2 DEF CalmInv, AnsweredOnce, SentOnce
  <1>2. Init => OnceInv /\ CalmInv
    BY OnceInit, CalmInit
  <1>3. WellTyped /\ RunInv /\ OnceInv /\ CalmInv /\ [Next]_vars => (OnceInv /\ CalmInv)'
    BY NextTyped, OnceNext, CalmNext
  <1> QED
    BY <1>1, <1>2, <1>3, AlwaysKept, PTL DEF Spec
=============================================================================
