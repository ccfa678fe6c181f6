------------------------ MODULE EmailAssistantProofs ------------------------
(***************************************************************************)
(* Proofs about EmailAssistant: its types, that a completed run has been   *)
(* answered or says why not, what one delivery at a time makes of a run,   *)
(* and that the status of a run follows RunLifecycle.                      *)
(***************************************************************************)
EXTENDS EmailAssistant, FiniteSetTheorems, TLAPS

\* The steps a handler of each kind of message goes through.
StepsOf(type) ==
  CASE type = "process_incoming_email" ->
         {"find_email", "find_run", "insert_run", "link_email", "publish_run", "done"}
    [] type = "email_assistant" ->
         {"load", "categorize", "skip", "reload", "find_category", "explain",
          "publish_reply", "record", "done"}
    [] type = "email_workflow_reply" -> {"route", "done"}
    [] type = "email_workflow_reply_gmail" -> {"send", "done"}

\* What the handlers rely on: a busy worker has a message of the kind its step
\* belongs to, a run that exists came from an email, and an approval in
\* progress has a run, the email of that run and a draft to send.
JobOK(j) ==
  /\ j.pc # "idle" => j.msg \in Message /\ j.pc \in StepsOf(j.msg.type)
  /\ j.pc \in {"link_email", "publish_run"} => j.run \in RunId

RunOK(x) == x.status \notin {"absent", "deleted"} => x.email \in Email

RequestOK(q) ==
  /\ q.pc # "idle" => q.run \in RunId
  /\ q.pc \in {"save_draft", "publish", "complete"} =>
       q.snap.email \in Email /\ q.snap.draft \in Body

JobsTyped     == job \in [Worker -> Job] /\ \A w \in Worker : JobOK(job[w])
RunsTyped     == runs \in [RunId -> Run] /\ \A r \in RunId : RunOK(runs[r])
RequestsTyped == request \in [User -> Request] /\ \A u \in User : RequestOK(request[u])

RestTyped ==
  /\ rows \in [Email -> [stored : BOOLEAN, run : RunId \cup {None}]]
  /\ category \in [Category -> {"missing", "bare", "resourced"}]
  /\ connector \in {"linked", "runs_deleted", "emails_deleted", "gone"}
  /\ queue \in [Message -> Nat]
  /\ crashes \in 0 .. MaxCrashes
  /\ reconnects \in 0 .. MaxReconnects
  /\ edits \in 0 .. MaxEdits
  /\ replies \in [RunId -> Nat]
  /\ sent \in [RunId -> Nat]
  /\ raced \subseteq RunId
  /\ abandoned \subseteq RunId

WellTyped == JobsTyped /\ RunsTyped /\ RequestsTyped /\ RestTyped

\* A handler or a request that is about to complete a run has published the
\* reply; before that step the run is not completed, and afterwards replies are
\* only added.
RepliesFirst ==
  /\ \A w \in Worker :
       job[w].pc = "record" /\ AutoReply(w) => replies[job[w].msg.run] > 0
  /\ \A u \in User : request[u].pc = "complete" => replies[request[u].run] > 0

AccountInv == WellTyped /\ RepliesFirst /\ CompletedIsAccounted

-----------------------------------------------------------------------------
(* The records *)

LEMMA Messages ==
  /\ \A e \in Email : ProcessEmail(e) \in Message
  /\ \A r \in RunId, e \in Email : Assist(r, e) \in Message
  /\ \A r \in RunId, e \in Email, b \in Body :
       Reply(r, e, b) \in Message /\ GmailReply(r, e, b) \in Message
  /\ \A m \in Message :
       /\ m.email \in Email
       /\ m.type \in {"process_incoming_email", "email_assistant", "email_workflow_reply",
                     "email_workflow_reply_gmail"}
       /\ m.type # "process_incoming_email" => m.run \in RunId
       /\ m.type \in {"email_workflow_reply", "email_workflow_reply_gmail"} =>
            m.body \in Body
  BY DEF Message, ProcessEmail, Assist, Reply, GmailReply

LEMMA InitialRecords ==
  /\ NoRun \in Run /\ RunOK(NoRun)
  /\ Idle \in Job /\ JobOK(Idle)
  /\ NoRequest \in Request /\ RequestOK(NoRequest)
  BY DEF NoRun, Run, RunOK, Idle, Job, Pc, JobOK, NoRequest, Request, RequestOK

\* A busy worker's message and the run it is about.
LEMMA Busy ==
  ASSUME JobsTyped, NEW w \in Worker, job[w].pc # "idle"
  PROVE  /\ job[w] \in Job /\ job[w].msg \in Message /\ job[w].msg.email \in Email
         /\ job[w].pc \in StepsOf("email_assistant") \ {"done"} =>
              job[w].msg.type = "email_assistant" /\ job[w].msg.run \in RunId
         /\ job[w].pc \in StepsOf("process_incoming_email") \ {"done"} =>
              job[w].msg.type = "process_incoming_email"
         /\ job[w].pc = "route" => job[w].msg.type = "email_workflow_reply"
         /\ job[w].pc = "send" => job[w].msg.type = "email_workflow_reply_gmail"
         /\ job[w].pc \in {"route", "send"} =>
              job[w].msg.run \in RunId /\ job[w].msg.body \in Body
  <1>1. /\ job[w] \in Job /\ job[w].msg \in Message /\ job[w].msg.email \in Email
        /\ job[w].pc \in StepsOf(job[w].msg.type)
    BY Messages DEF JobsTyped, JobOK
  <1> QED
    BY <1>1, Messages DEF StepsOf

\* A worker moves on to another step of the same handler.
LEMMA JobMoves ==
  ASSUME JobsTyped, NEW w \in Worker, NEW j \in Job, JobOK(j),
         job' = [job EXCEPT ![w] = j]
  PROVE  JobsTyped'
  BY DEF JobsTyped

\* A run is rewritten, or is gone and stays so.
LEMMA RunRewritten ==
  ASSUME RunsTyped, NEW r \in RunId, NEW x \in Run, RunOK(x),
         runs' = IF Exists(r) THEN [runs EXCEPT ![r] = x] ELSE runs
  PROVE  RunsTyped'
  BY DEF RunsTyped

LEMMA TypesImply == WellTyped => TypeOK
  BY DEF WellTyped, JobsTyped, RunsTyped, RequestsTyped, RestTyped, TypeOK

LEMMA GotoMoves ==
  ASSUME JobsTyped, NEW w \in Worker, job[w].pc # "idle",
         NEW pc \in StepsOf(job[w].msg.type),
         pc \in {"link_email", "publish_run"} => job[w].run \in RunId,
         Goto(w, pc)
  PROVE  JobsTyped'
  <1>1. job[w] \in Job /\ job[w].msg \in Message
    BY Busy
  <1>2. pc \in Pc
    BY <1>1, Messages DEF StepsOf, Pc
  <1>3. [job[w] EXCEPT !.pc = pc] \in Job
    BY <1>1, <1>2 DEF Job
  <1>4. JobOK([job[w] EXCEPT !.pc = pc])
    BY <1>1 DEF JobOK, Job
  <1>5. job' = [job EXCEPT ![w] = [job[w] EXCEPT !.pc = pc]]
    BY DEF Goto
  <1> QED
    BY <1>3, <1>4, <1>5, JobMoves

LEMMA DoneMoves ==
  ASSUME JobsTyped, NEW w \in Worker, job[w].pc # "idle", Goto(w, "done")
  PROVE  JobsTyped'
  <1>1. "done" \in StepsOf(job[w].msg.type)
    BY Busy, Messages DEF StepsOf
  <1> QED
    BY <1>1, GotoMoves

-----------------------------------------------------------------------------
(* Every action keeps the state well typed *)

LEMMA ReceiveTyped ==
  ASSUME WellTyped, NEW w \in Worker, NEW m \in Message, Receive(w, m)
  PROVE  WellTyped'
  <1>1. FirstStep(m) \in Pc /\ FirstStep(m) \in StepsOf(m.type)
        /\ FirstStep(m) \notin {"link_email", "publish_run"}
    BY Messages DEF FirstStep, Pc, StepsOf
  <1>2. [Idle EXCEPT !.pc = FirstStep(m), !.held = TRUE, !.msg = m] \in Job
    BY <1>1, InitialRecords DEF Job
  <1>3. JobOK([Idle EXCEPT !.pc = FirstStep(m), !.held = TRUE, !.msg = m])
    BY <1>1 DEF JobOK, Idle
  <1>4. JobsTyped'
    BY <1>2, <1>3, JobMoves DEF Receive, WellTyped
  <1>5. queue' \in [Message -> Nat]
    BY DEF Receive, Queued, WellTyped, RestTyped
  <1>6. raced' \subseteq RunId
    BY Messages DEF Receive, WellTyped, RestTyped
  <1> QED
    BY <1>4, <1>5, <1>6 DEF Receive, WellTyped, RunsTyped, RequestsTyped, RestTyped,
       tables, faults

LEMMA AckTyped ==
  ASSUME WellTyped, NEW w \in Worker, Ack(w) \/ RefuseGmail(w)
  PROVE  WellTyped'
  <1>1. job' = [job EXCEPT ![w] = Idle] /\ job[w].pc # "idle"
    BY DEF Ack, RefuseGmail, Nack
  <1>2. JobsTyped'
    BY <1>1, InitialRecords, JobMoves DEF WellTyped
  <1>3. job[w].msg \in Message
    BY <1>1, Busy DEF WellTyped
  <1>4. queue' \in [Message -> Nat]
    BY <1>3 DEF Ack, RefuseGmail, Nack, WellTyped, RestTyped
  <1> QED
    BY <1>2, <1>4 DEF Ack, RefuseGmail, WellTyped, RunsTyped, RequestsTyped, RestTyped,
       tables, faults, history

LEMMA FindEmailTyped ==
  ASSUME WellTyped, NEW w \in Worker, FindEmail(w)
  PROVE  WellTyped'
  <1>1. job[w].pc # "idle"
    BY DEF FindEmail
  <1>2. JobsTyped'
    <2>1. CASE Goto(w, "done")
      BY <1>1, <2>1, DoneMoves DEF WellTyped
    <2>2. CASE job' = [job EXCEPT ![w].pc = "find_run", ![w].todo = Workflow]
      <3> DEFINE j == [job[w] EXCEPT !.pc = "find_run", !.todo = Workflow]
      <3>1. j \in Job
        BY <1>1, Busy DEF WellTyped, Job, Pc
      <3>2. JobOK(j)
        BY <1>1, Busy DEF FindEmail, WellTyped, Job, JobOK, StepsOf
      <3> QED
        BY <2>2, <3>1, <3>2, JobMoves DEF WellTyped
    <2> QED
      BY <2>1, <2>2 DEF FindEmail
  <1> QED
    BY <1>2 DEF FindEmail, WellTyped, RunsTyped, RequestsTyped, RestTyped, tables, faults,
       history

LEMMA FindRunTyped ==
  ASSUME WellTyped, NEW w \in Worker, FindRun(w)
  PROVE  WellTyped'
  <1>1. job[w].pc = "find_run"
    BY DEF FindRun
  <1>2. /\ job[w] \in Job /\ job[w].msg \in Message
        /\ job[w].msg.type = "process_incoming_email"
    BY <1>1, Busy DEF WellTyped, StepsOf
  <1>3. PICK f \in job[w].todo :
          \/ job' = [job EXCEPT ![w].pc = "insert_run", ![w].snap.workflow = f]
          \/ \E r \in RunsFor(f, job[w].msg.email) :
               job' = [job EXCEPT ![w].pc = "link_email", ![w].run = r,
                                  ![w].snap.workflow = f]
    BY DEF FindRun
  <1>4. f \in Workflow
    BY <1>2 DEF Job
  <1>5. JobsTyped'
    <2>1. CASE job' = [job EXCEPT ![w].pc = "insert_run", ![w].snap.workflow = f]
      <3> DEFINE j == [job[w] EXCEPT !.pc = "insert_run", !.snap.workflow = f]
      <3>1. j \in Job
        BY <1>2, <1>4 DEF Job, Pc, Run
      <3>2. JobOK(j)
        BY <1>2 DEF Job, JobOK, StepsOf
      <3>3. job' = [job EXCEPT ![w] = j]
        BY <2>1
      <3> QED
        BY <3>1, <3>2, <3>3, JobMoves DEF WellTyped
    <2>2. ASSUME NEW r \in RunsFor(f, job[w].msg.email),
                 job' = [job EXCEPT ![w].pc = "link_email", ![w].run = r,
                                    ![w].snap.workflow = f]
          PROVE  JobsTyped'
      <3> DEFINE j == [job[w] EXCEPT !.pc = "link_email", !.run = r, !.snap.workflow = f]
      <3>1. r \in RunId
        BY DEF RunsFor
      <3>2. j \in Job
        BY <1>2, <1>4, <3>1 DEF Job, Pc, Run
      <3>3. JobOK(j)
        BY <1>2, <3>1 DEF Job, JobOK, StepsOf
      <3>4. job' = [job EXCEPT ![w] = j]
        BY <2>2
      <3> QED
        BY <3>2, <3>3, <3>4, JobMoves DEF WellTyped
    <2> QED
      BY <1>3, <2>1, <2>2
  <1> QED
    BY <1>5 DEF FindRun, WellTyped, RunsTyped, RequestsTyped, RestTyped, tables, faults, history

LEMMA InsertRunTyped ==
  ASSUME WellTyped, NEW w \in Worker, NEW r \in RunId, InsertRun(w, r)
  PROVE  WellTyped'
  <1>1. /\ job[w] \in Job /\ job[w].msg \in Message /\ job[w].msg.email \in Email
        /\ job[w].msg.type = "process_incoming_email"
    BY Busy DEF InsertRun, WellTyped, StepsOf
  <1> DEFINE j == [job[w] EXCEPT !.pc = "link_email", !.run = r]
             x == [NoRun EXCEPT !.workflow = job[w].snap.workflow,
                                !.email = job[w].msg.email, !.status = "pending"]
  <1>2. j \in Job
    BY <1>1 DEF Job, Pc
  <1>3. JobOK(j)
    BY <1>1 DEF Job, JobOK, StepsOf
  <1>4. job' = [job EXCEPT ![w] = j]
    BY DEF InsertRun
  <1>5. JobsTyped'
    BY <1>2, <1>3, <1>4, JobMoves DEF WellTyped
  <1>6. x \in Run /\ RunOK(x)
    BY <1>1 DEF Job, Run, NoRun, RunOK
  <1>7. runs' = [runs EXCEPT ![r] = x]
    BY DEF InsertRun
  <1>8. RunsTyped'
    BY <1>6, <1>7 DEF RunsTyped, WellTyped
  <1> QED
    BY <1>5, <1>8 DEF InsertRun, WellTyped, RequestsTyped, RestTyped, faults, history

LEMMA LinkEmailTyped ==
  ASSUME WellTyped, NEW w \in Worker, LinkEmail(w)
  PROVE  WellTyped'
  <1>1. /\ job[w] \in Job /\ job[w].msg \in Message /\ job[w].msg.email \in Email
        /\ job[w].msg.type = "process_incoming_email" /\ job[w].run \in RunId
        /\ job[w].pc # "idle"
    BY Busy DEF LinkEmail, WellTyped, StepsOf, JobsTyped, JobOK
  <1>2. JobsTyped'
    <2>1. CASE Goto(w, "done")
      BY <1>1, <2>1, DoneMoves DEF WellTyped
    <2>2. CASE Goto(w, "publish_run")
      <3>1. "publish_run" \in StepsOf(job[w].msg.type)
        BY <1>1 DEF StepsOf
      <3> QED
        BY <1>1, <2>2, <3>1, GotoMoves DEF WellTyped
    <2> QED
      BY <2>1, <2>2 DEF LinkEmail, GiveUp
  <1>3. rows' \in [Email -> [stored : BOOLEAN, run : RunId \cup {None}]]
    <2>1. \/ rows' = rows
          \/ rows' = [rows EXCEPT ![job[w].msg.email] = [stored |-> TRUE, run |-> job[w].run]]
      BY DEF LinkEmail
    <2>2. [stored |-> TRUE, run |-> job[w].run] \in [stored : BOOLEAN, run : RunId \cup {None}]
      BY <1>1
    <2> QED
      BY <1>1, <2>1, <2>2 DEF WellTyped, RestTyped
  <1>4. abandoned' \subseteq RunId
    BY <1>1 DEF LinkEmail, GiveUp, WellTyped, RestTyped
  <1> QED
    BY <1>2, <1>3, <1>4 DEF LinkEmail, WellTyped, RunsTyped, RequestsTyped, RestTyped, faults

LEMMA PublishRunTyped ==
  ASSUME WellTyped, NEW w \in Worker, PublishRun(w)
  PROVE  WellTyped'
  <1>1. /\ job[w] \in Job /\ job[w].msg \in Message /\ job[w].msg.email \in Email
        /\ job[w].msg.type = "process_incoming_email" /\ job[w].run \in RunId
        /\ job[w].pc # "idle"
    BY Busy DEF PublishRun, WellTyped, StepsOf, JobsTyped, JobOK
  <1>2. CASE Publish(Assist(job[w].run, job[w].msg.email))
             /\ job' = [job EXCEPT ![w].pc = IF job[w].todo \ {job[w].snap.workflow} = {}
                                             THEN "done" ELSE "find_run",
                                   ![w].todo = job[w].todo \ {job[w].snap.workflow}]
             /\ UNCHANGED abandoned
    <2> DEFINE rest == job[w].todo \ {job[w].snap.workflow}
               j == [job[w] EXCEPT !.pc = IF rest = {} THEN "done" ELSE "find_run",
                                   !.todo = rest]
    <2>1. j \in Job
      BY <1>1 DEF Job, Pc
    <2>2. JobOK(j)
      BY <1>1 DEF Job, JobOK, StepsOf
    <2>3. job' = [job EXCEPT ![w] = j]
      BY <1>2
    <2>4. JobsTyped'
      BY <2>1, <2>2, <2>3, JobMoves DEF WellTyped
    <2>5. queue' \in [Message -> Nat]
      BY <1>1, <1>2, Messages DEF Publish, WellTyped, RestTyped
    <2> QED
      BY <1>2, <2>4, <2>5 DEF PublishRun, WellTyped, RunsTyped, RequestsTyped, RestTyped,
         tables, faults
  <1>3. CASE GiveUp(w, job[w].run) /\ UNCHANGED queue
    <2>1. JobsTyped'
      BY <1>1, <1>3, DoneMoves DEF GiveUp, WellTyped
    <2>2. abandoned' \subseteq RunId
      BY <1>1, <1>3 DEF GiveUp, WellTyped, RestTyped
    <2> QED
      BY <1>3, <2>1, <2>2 DEF PublishRun, WellTyped, RunsTyped, RequestsTyped, RestTyped,
         tables, faults
  <1> QED
    BY <1>2, <1>3 DEF PublishRun

\* The three steps that read a run and go on only if it is pending, and those
\* that rewrite it and go on.
LEMMA AssistantMoves ==
  ASSUME WellTyped, NEW w \in Worker,
         job[w].pc \in StepsOf("email_assistant") \ {"done"},
         NEW pc \in StepsOf("email_assistant"), NEW x \in Run,
         job' = [job EXCEPT ![w].snap = x, ![w].pc = pc] \/ Goto(w, pc)
  PROVE  JobsTyped'
  <1>1. /\ job[w] \in Job /\ job[w].msg \in Message /\ job[w].pc # "idle"
        /\ job[w].msg.type = "email_assistant"
    BY Busy DEF WellTyped, StepsOf
  <1>2. pc \in Pc /\ pc \notin {"idle", "link_email", "publish_run"}
    BY DEF StepsOf, Pc
  <1>3. CASE Goto(w, pc)
    BY <1>1, <1>2, <1>3, GotoMoves DEF WellTyped
  <1>4. CASE job' = [job EXCEPT ![w].snap = x, ![w].pc = pc]
    <2> DEFINE j == [job[w] EXCEPT !.snap = x, !.pc = pc]
    <2>1. j \in Job
      BY <1>1, <1>2 DEF Job
    <2>2. JobOK(j)
      BY <1>1, <1>2 DEF Job, JobOK
    <2>3. job' = [job EXCEPT ![w] = j]
      BY <1>4
    <2> QED
      BY <2>1, <2>2, <2>3, JobMoves DEF WellTyped
  <1> QED
    BY <1>3, <1>4

LEMMA ReadTyped ==
  ASSUME WellTyped, NEW w \in Worker, Load(w) \/ Reload(w)
  PROVE  WellTyped'
  <1>1. job[w].pc \in StepsOf("email_assistant") \ {"done"} /\ job[w].pc # "idle"
    BY DEF Load, Reload, StepsOf
  <1>2. runs[job[w].msg.run] \in Run
    BY <1>1, Busy DEF WellTyped, RunsTyped
  <1>3. PICK pc \in StepsOf("email_assistant") :
          job' = [job EXCEPT ![w].snap = runs[job[w].msg.run], ![w].pc = pc]
    BY DEF Load, Reload, AfterRead, StepsOf
  <1>4. JobsTyped'
    BY <1>1, <1>2, <1>3, AssistantMoves
  <1> QED
    BY <1>4 DEF Load, Reload, WellTyped, RunsTyped, RequestsTyped, RestTyped, tables,
       faults, history

LEMMA CategorizeTyped ==
  ASSUME WellTyped, NEW w \in Worker, Categorize(w)
  PROVE  WellTyped'
  <1> DEFINE r == job[w].msg.run
  <1>1. job[w].pc \in StepsOf("email_assistant") \ {"done"} /\ job[w].pc # "idle"
    BY DEF Categorize, StepsOf
  <1>2. r \in RunId /\ NoRun \in Run
    BY <1>1, Busy, InitialRecords DEF WellTyped
  <1>3. JobsTyped'
    <2>1. PICK pc \in StepsOf("email_assistant") : Goto(w, pc)
      BY DEF Categorize, GiveUp, StepsOf
    <2> QED
      BY <1>1, <1>2, <2>1, AssistantMoves
  <1>4. RunsTyped'
    <2>1. CASE UNCHANGED runs
      BY <2>1 DEF WellTyped, RunsTyped
    <2>2. ASSUME NEW answer \in Category \cup {NoMatch},
                 runs' = IF Exists(r)
                         THEN [runs EXCEPT ![r].currentStep = "Categorize Email",
                                           ![r].category = answer, ![r].draft = None]
                         ELSE runs
          PROVE  RunsTyped'
      <3> DEFINE x == [runs[r] EXCEPT !.currentStep = "Categorize Email",
                                      !.category = answer, !.draft = None]
      <3>1. runs[r] \in Run /\ RunOK(runs[r])
        BY <1>2 DEF WellTyped, RunsTyped
      <3>2. x \in Run
        BY <3>1 DEF Run
      <3>3. RunOK(x)
        BY <3>1 DEF Run, RunOK
      <3>4. runs' = IF Exists(r) THEN [runs EXCEPT ![r] = x] ELSE runs
        BY <2>2
      <3> QED
        BY <1>2, <3>2, <3>3, <3>4, RunRewritten DEF WellTyped
    <2> QED
      BY <2>1, <2>2 DEF Categorize
  <1>5. abandoned' \subseteq RunId
    BY <1>2 DEF Categorize, GiveUp, WellTyped, RestTyped
  <1> QED
    BY <1>3, <1>4, <1>5 DEF Categorize, WellTyped, RequestsTyped, RestTyped, faults

\* Skip, Explain and Record.
LEMMA DecideTyped ==
  ASSUME WellTyped, NEW w \in Worker, Skip(w) \/ Explain(w) \/ Record(w)
  PROVE  WellTyped'
  <1> DEFINE r == job[w].msg.run
  <1>1. job[w].pc \in StepsOf("email_assistant") \ {"done"} /\ job[w].pc # "idle"
        /\ Goto(w, "done")
    BY DEF Skip, Explain, Record, StepsOf
  <1>2. r \in RunId /\ job[w] \in Job
    BY <1>1, Busy DEF WellTyped
  <1>3. JobsTyped'
    BY <1>1, DoneMoves DEF WellTyped
  <1>4. runs[r] \in Run /\ RunOK(runs[r])
    BY <1>2 DEF WellTyped, RunsTyped
  <1>5. RunsTyped'
    <2>1. CASE Skip(w) \/ Explain(w)
      <3>1. PICK s \in {"skipped", "completed"}, k \in {"no_category", "no_resources"} :
              runs' = IF Exists(r) THEN [runs EXCEPT ![r].status = s, ![r].explanation = k]
                      ELSE runs
        BY <2>1 DEF Skip, Explain
      <3> DEFINE x == [runs[r] EXCEPT !.status = s, !.explanation = k]
      <3>2. x \in Run
        BY <1>4 DEF Run
      <3>3. Exists(r) => RunOK(x)
        BY <1>4 DEF Run, RunOK, Exists
      <3>4. runs' = IF Exists(r) THEN [runs EXCEPT ![r] = x] ELSE runs
        BY <3>1
      <3> QED
        BY <1>2, <3>2, <3>3, <3>4 DEF WellTyped, RunsTyped
    <2>2. CASE Record(w)
      <3> DEFINE x == [runs[r] EXCEPT
                         !.status = IF AutoReply(w) THEN "completed" ELSE "awaiting_action",
                         !.currentStep = "Reply Email",
                         !.category = job[w].snap.category,
                         !.draft = "generated"]
      <3>1. job[w].snap.category \in Category \cup {None, NoMatch}
        BY <1>2 DEF Job, Run
      <3>2. x \in Run
        BY <1>4, <3>1 DEF Run, Body
      <3>3. Exists(r) => RunOK(x)
        BY <1>4 DEF Run, RunOK, Exists
      <3>4. runs' = IF Exists(r) THEN [runs EXCEPT ![r] = x] ELSE runs
        BY <2>2 DEF Record
      <3> QED
        BY <1>2, <3>2, <3>3, <3>4 DEF WellTyped, RunsTyped
    <2> QED
      BY <2>1, <2>2
  <1> QED
    BY <1>3, <1>5 DEF Skip, Explain, Record, WellTyped, RequestsTyped, RestTyped, faults,
       history

LEMMA FindCategoryTyped ==
  ASSUME WellTyped, NEW w \in Worker, FindCategory(w)
  PROVE  WellTyped'
  <1>1. job[w].pc \in StepsOf("email_assistant") \ {"done"} /\ job[w].pc # "idle"
    BY DEF FindCategory, StepsOf
  <1>2. job[w].msg.run \in RunId /\ NoRun \in Run
    BY <1>1, Busy, InitialRecords DEF WellTyped
  <1>3. PICK pc \in StepsOf("email_assistant") : Goto(w, pc)
    BY DEF FindCategory, GiveUp, StepsOf
  <1>4. JobsTyped'
    BY <1>1, <1>2, <1>3, AssistantMoves
  <1>5. abandoned' \subseteq RunId
    BY <1>2 DEF FindCategory, GiveUp, WellTyped, RestTyped
  <1> QED
    BY <1>4, <1>5 DEF FindCategory, WellTyped, RunsTyped, RequestsTyped, RestTyped, tables,
       faults

LEMMA PublishReplyTyped ==
  ASSUME WellTyped, NEW w \in Worker, PublishReply(w)
  PROVE  WellTyped'
  <1>1. job[w].pc \in StepsOf("email_assistant") \ {"done"} /\ job[w].pc # "idle"
        /\ Goto(w, "record") /\ "record" \in StepsOf("email_assistant")
    BY DEF PublishReply, StepsOf
  <1>2. job[w].msg.run \in RunId /\ job[w].msg.email \in Email /\ NoRun \in Run
    BY <1>1, Busy, InitialRecords DEF WellTyped
  <1>3. JobsTyped'
    BY <1>1, <1>2, AssistantMoves
  <1>4. queue' \in [Message -> Nat] /\ replies' \in [RunId -> Nat]
    <2>1. Reply(job[w].msg.run, job[w].msg.email, "generated") \in Message
      BY <1>2, Messages DEF Body
    <2> QED
      BY <1>2, <2>1 DEF PublishReply, Publish, WellTyped, RestTyped
  <1> QED
    BY <1>3, <1>4 DEF PublishReply, WellTyped, RunsTyped, RequestsTyped, RestTyped, tables,
       faults

LEMMA RouteTyped ==
  ASSUME WellTyped, NEW w \in Worker, RouteReply(w) \/ SendGmail(w)
  PROVE  WellTyped'
  <1>1. job[w].pc \in {"route", "send"} /\ job[w].pc # "idle" /\ Goto(w, "done")
    BY DEF RouteReply, SendGmail
  <1>2. job[w].msg.run \in RunId /\ job[w].msg.email \in Email /\ job[w].msg.body \in Body
    BY <1>1, Busy DEF WellTyped
  <1>3. JobsTyped'
    BY <1>1, DoneMoves DEF WellTyped
  <1>4. queue' \in [Message -> Nat]
    <2>1. GmailReply(job[w].msg.run, job[w].msg.email, job[w].msg.body) \in Message
      BY <1>2, Messages
    <2> QED
      BY <2>1 DEF RouteReply, SendGmail, Publish, WellTyped, RestTyped
  <1>5. sent' \in [RunId -> Nat]
    BY <1>2 DEF RouteReply, SendGmail, history, WellTyped, RestTyped
  <1> QED
    BY <1>3, <1>4, <1>5 DEF RouteReply, SendGmail, WellTyped, RunsTyped, RequestsTyped,
       RestTyped, tables, faults, history

\* A request moves on, or is answered.
LEMMA RequestMoves ==
  ASSUME RequestsTyped, NEW u \in User, NEW q \in Request, RequestOK(q),
         request' = [request EXCEPT ![u] = q]
  PROVE  RequestsTyped'
  BY DEF RequestsTyped

LEMMA ApproveTyped ==
  ASSUME WellTyped, NEW u \in User, NEW r \in RunId, Approve(u, r)
  PROVE  WellTyped'
  <1>1. PICK pc \in {"edit", "send"} :
          request' = [request EXCEPT ![u] = [pc |-> pc, run |-> r, snap |-> NoRun]]
    BY DEF Approve
  <1> DEFINE q == [pc |-> pc, run |-> r, snap |-> NoRun]
  <1>2. q \in Request /\ RequestOK(q)
    BY InitialRecords DEF Request, RequestOK
  <1>3. RequestsTyped'
    BY <1>1, <1>2, RequestMoves DEF WellTyped
  <1> QED
    BY <1>3 DEF Approve, WellTyped, JobsTyped, RunsTyped, RestTyped, tables, faults, history

LEMMA LoadDraftTyped ==
  ASSUME WellTyped, NEW u \in User, NEW at \in {"edit", "send"},
         NEW next \in {"save_draft", "publish"}, LoadDraft(u, at, next)
  PROVE  WellTyped'
  <1> DEFINE r == request[u].run
  <1>1. request[u] \in Request /\ r \in RunId
    BY DEF LoadDraft, WellTyped, RequestsTyped, RequestOK
  <1>2. RequestsTyped'
    <2>1. CASE HasDraftToSend(r)
      <3> DEFINE q == [request[u] EXCEPT !.pc = next, !.snap = runs[r]]
      <3>1. runs[r] \in Run /\ RunOK(runs[r])
        BY <1>1 DEF WellTyped, RunsTyped
      <3>2. q \in Request
        BY <1>1, <3>1 DEF Request
      <3>3. runs[r].email \in Email /\ runs[r].draft \in Body
        BY <2>1, <3>1 DEF HasDraftToSend, RunOK, Run
      <3>4. RequestOK(q)
        BY <1>1, <3>3 DEF Request, RequestOK
      <3>5. request' = [request EXCEPT ![u] = q]
        BY <2>1 DEF LoadDraft
      <3> QED
        BY <3>2, <3>4, <3>5, RequestMoves DEF WellTyped
    <2>2. CASE ~ HasDraftToSend(r)
      BY <2>2, InitialRecords, RequestMoves DEF LoadDraft, Answered, WellTyped
    <2> QED
      BY <2>1, <2>2
  <1> QED
    BY <1>2 DEF LoadDraft, WellTyped, JobsTyped, RunsTyped, RestTyped, tables, faults, history

LEMMA SaveDraftTyped ==
  ASSUME WellTyped, NEW u \in User, SaveDraft(u)
  PROVE  WellTyped'
  <1> DEFINE r == request[u].run
             q == [request[u] EXCEPT !.pc = "send"]
             x == [runs[r] EXCEPT !.category = request[u].snap.category, !.draft = u]
  <1>1. request[u] \in Request /\ r \in RunId
    BY DEF SaveDraft, WellTyped, RequestsTyped, RequestOK
  <1>2. runs[r] \in Run /\ RunOK(runs[r])
    BY <1>1 DEF WellTyped, RunsTyped
  <1>3. x \in Run /\ RunOK(x)
    <2>1. request[u].snap.category \in Category \cup {None, NoMatch}
      BY <1>1 DEF Request, Run
    <2> QED
      BY <1>2, <2>1 DEF Run, RunOK, Body
  <1>4. runs' = IF Exists(r) THEN [runs EXCEPT ![r] = x] ELSE runs
    BY DEF SaveDraft
  <1>5. RunsTyped'
    BY <1>1, <1>3, <1>4, RunRewritten DEF WellTyped
  <1>6. q \in Request /\ RequestOK(q)
    BY <1>1 DEF Request, RequestOK
  <1>7. request' = [request EXCEPT ![u] = q]
    BY DEF SaveDraft, Ask
  <1>8. RequestsTyped'
    BY <1>6, <1>7, RequestMoves DEF WellTyped
  <1> QED
    BY <1>5, <1>8 DEF SaveDraft, WellTyped, JobsTyped, RestTyped, faults, history

LEMMA PublishApprovedTyped ==
  ASSUME WellTyped, NEW u \in User, PublishApproved(u)
  PROVE  WellTyped'
  <1> DEFINE q == request[u]
             p == [q EXCEPT !.pc = "complete"]
  <1>1. /\ q \in Request /\ q.run \in RunId
        /\ q.snap.email \in Email /\ q.snap.draft \in Body
    BY DEF PublishApproved, WellTyped, RequestsTyped, RequestOK
  <1>2. p \in Request /\ RequestOK(p)
    BY <1>1 DEF Request, RequestOK
  <1>3. request' = [request EXCEPT ![u] = p]
    BY DEF PublishApproved, Ask
  <1>4. RequestsTyped'
    BY <1>2, <1>3, RequestMoves DEF WellTyped
  <1>5. Reply(q.run, q.snap.email, q.snap.draft) \in Message
    BY <1>1, Messages
  <1>6. queue' \in [Message -> Nat] /\ replies' \in [RunId -> Nat]
    BY <1>1, <1>5 DEF PublishApproved, Publish, WellTyped, RestTyped
  <1> QED
    BY <1>4, <1>6 DEF PublishApproved, WellTyped, JobsTyped, RunsTyped, RestTyped, tables,
       faults

LEMMA CompleteApprovedTyped ==
  ASSUME WellTyped, NEW u \in User, CompleteApproved(u)
  PROVE  WellTyped'
  <1> DEFINE q == request[u]
             x == [runs[q.run] EXCEPT !.status = "completed", !.category = q.snap.category,
                                      !.draft = q.snap.draft]
  <1>1. q \in Request /\ q.run \in RunId
    BY DEF CompleteApproved, WellTyped, RequestsTyped, RequestOK
  <1>2. runs[q.run] \in Run /\ RunOK(runs[q.run])
    BY <1>1 DEF WellTyped, RunsTyped
  <1>3. x \in Run /\ (Exists(q.run) => RunOK(x))
    <2>1. q.snap.category \in Category \cup {None, NoMatch} /\ q.snap.draft \in Body \cup {None}
      BY <1>1 DEF Request, Run
    <2> QED
      BY <1>2, <2>1 DEF Run, RunOK, Exists
  <1>4. runs' = IF Exists(q.run) THEN [runs EXCEPT ![q.run] = x] ELSE runs
    BY DEF CompleteApproved
  <1>5. RunsTyped'
    BY <1>1, <1>3, <1>4 DEF WellTyped, RunsTyped
  <1>6. RequestsTyped'
    BY InitialRecords, RequestMoves DEF CompleteApproved, Answered, WellTyped
  <1> QED
    BY <1>5, <1>6 DEF CompleteApproved, WellTyped, JobsTyped, RestTyped, faults, history

LEMMA EditTyped ==
  ASSUME WellTyped, NEW c \in Category, EditCategory(c)
  PROVE  WellTyped'
  <1>1. category' \in [Category -> {"missing", "bare", "resourced"}]
    BY DEF EditCategory, WellTyped, RestTyped
  <1>2. edits' \in 0 .. MaxEdits
    BY ConstantsAssumption DEF EditCategory, WellTyped, RestTyped
  <1> QED
    BY <1>1, <1>2 DEF EditCategory, WellTyped, JobsTyped, RunsTyped, RequestsTyped,
       RestTyped, history

LEMMA DisconnectTyped ==
  ASSUME WellTyped, DeleteRuns \/ DeleteEmails
  PROVE  WellTyped'
  <1> DEFINE gone == [NoRun EXCEPT !.status = "deleted"]
  <1>1. gone \in Run /\ RunOK(gone)
    BY DEF NoRun, Run, RunOK
  <1>2. RunsTyped'
    <2>1. CASE UNCHANGED runs
      BY <2>1 DEF WellTyped, RunsTyped
    <2>2. CASE DeleteRuns
      <3>1. \A r \in RunId : runs'[r] \in {gone, runs[r]}
        BY <2>2 DEF DeleteRuns
      <3>2. runs' = [r \in RunId |-> runs'[r]]
        BY <2>2 DEF DeleteRuns
      <3> QED
        BY <1>1, <3>1, <3>2 DEF WellTyped, RunsTyped
    <2> QED
      BY <2>1, <2>2 DEF DeleteEmails
  <1>3. rows' \in [Email -> [stored : BOOLEAN, run : RunId \cup {None}]]
    <2>1. \A e \in Email : [rows[e] EXCEPT !.stored = FALSE]
                            \in [stored : BOOLEAN, run : RunId \cup {None}]
      BY DEF WellTyped, RestTyped
    <2>2. \A e \in Email : rows'[e] \in {rows[e], [rows[e] EXCEPT !.stored = FALSE]}
      BY DEF DeleteRuns, DeleteEmails
    <2>3. rows' = [e \in Email |-> rows'[e]]
      BY DEF DeleteRuns, DeleteEmails
    <2> QED
      BY <2>1, <2>2, <2>3 DEF WellTyped, RestTyped
  <1>4. connector' \in {"linked", "runs_deleted", "emails_deleted", "gone"}
    BY DEF DeleteRuns, DeleteEmails
  <1> QED
    BY <1>2, <1>3, <1>4 DEF DeleteRuns, DeleteEmails, WellTyped, JobsTyped, RequestsTyped,
       RestTyped, faults, history

\* There are finitely many unacknowledged deliveries of a message.
LEMMA ReturnedTyped ==
  ASSUME WellTyped
  PROVE  Returned \in [Message -> Nat]
  <1>1. ASSUME NEW m \in Message
        PROVE  Cardinality({w \in Worker : job[w].held /\ job[w].msg = m}) \in Nat
    BY ConstantsAssumption, FS_Subset, FS_CardinalityType
  <1> QED
    BY <1>1 DEF Returned, WellTyped, RestTyped

LEMMA CrashTyped ==
  ASSUME WellTyped, Crash \/ Reconnect
  PROVE  WellTyped'
  <1>1. queue' \in [Message -> Nat]
    BY ReturnedTyped DEF Crash, Reconnect
  <1>2. JobsTyped'
    <2>1. CASE Crash
      BY <2>1, InitialRecords DEF Crash, JobsTyped
    <2>2. CASE Reconnect
      <3>1. ASSUME NEW w \in Worker
            PROVE  /\ [job[w] EXCEPT !.held = FALSE] \in Job
                   /\ JobOK([job[w] EXCEPT !.held = FALSE])
        <4>1. job[w] \in Job /\ JobOK(job[w])
          BY DEF WellTyped, JobsTyped
        <4> QED
          BY <4>1 DEF Job, JobOK
      <3> QED
        BY <2>2, <3>1 DEF Reconnect, JobsTyped
    <2> QED
      BY <2>1, <2>2
  <1>3. RequestsTyped'
    <2>1. CASE Crash
      BY <2>1, InitialRecords DEF Crash, RequestsTyped
    <2>2. CASE Reconnect
      BY <2>2 DEF Reconnect, WellTyped, RequestsTyped
    <2> QED
      BY <2>1, <2>2
  <1>4. crashes' \in 0 .. MaxCrashes /\ reconnects' \in 0 .. MaxReconnects
    BY ConstantsAssumption DEF Crash, Reconnect, WellTyped, RestTyped
  <1> QED
    BY <1>1, <1>2, <1>3, <1>4 DEF Crash, Reconnect, WellTyped, RunsTyped, RestTyped, tables,
       history

LEMMA StutterTyped ==
  ASSUME WellTyped, UNCHANGED vars
  PROVE  WellTyped'
  BY DEF vars, tables, faults, history, WellTyped, JobsTyped, RunsTyped, RequestsTyped,
     RestTyped

LEMMA WorkerStepTyped ==
  ASSUME WellTyped, NEW w \in Worker, WorkerStep(w)
  PROVE  WellTyped'
  <1>1. CASE FindEmail(w) \/ FindRun(w) \/ LinkEmail(w) \/ PublishRun(w)
    BY <1>1, FindEmailTyped, FindRunTyped, LinkEmailTyped, PublishRunTyped
  <1>2. CASE \E r \in RunId : InsertRun(w, r)
    BY <1>2, InsertRunTyped
  <1>3. CASE Load(w) \/ Categorize(w) \/ Skip(w) \/ Reload(w)
    BY <1>3, ReadTyped, CategorizeTyped, DecideTyped
  <1>4. CASE FindCategory(w) \/ Explain(w) \/ PublishReply(w) \/ Record(w)
    BY <1>4, FindCategoryTyped, DecideTyped, PublishReplyTyped
  <1>5. CASE RouteReply(w) \/ Ack(w)
    BY <1>5, RouteTyped, AckTyped
  <1> QED
    BY <1>1, <1>2, <1>3, <1>4, <1>5 DEF WorkerStep

LEMMA UserStepTyped ==
  ASSUME WellTyped, NEW u \in User, UserStep(u)
  PROVE  WellTyped'
  <1>1. CASE LoadDraft(u, "edit", "save_draft") \/ LoadDraft(u, "send", "publish")
    BY <1>1, LoadDraftTyped
  <1>2. CASE SaveDraft(u) \/ PublishApproved(u) \/ CompleteApproved(u)
    BY <1>2, SaveDraftTyped, PublishApprovedTyped, CompleteApprovedTyped
  <1> QED
    BY <1>1, <1>2 DEF UserStep

LEMMA NextTyped ==
  ASSUME WellTyped, [Next]_vars
  PROVE  WellTyped'
  <1>1. CASE \E w \in Worker, m \in Message : Receive(w, m)
    BY <1>1, ReceiveTyped
  <1>2. CASE \E w \in Worker : WorkerStep(w) \/ SendGmail(w) \/ RefuseGmail(w)
    BY <1>2, WorkerStepTyped, RouteTyped, AckTyped
  <1>3. CASE \E u \in User, r \in RunId : Approve(u, r)
    BY <1>3, ApproveTyped
  <1>4. CASE \E u \in User : UserStep(u)
    BY <1>4, UserStepTyped
  <1>5. CASE \E c \in Category : EditCategory(c)
    BY <1>5, EditTyped
  <1>6. CASE DeleteRuns \/ DeleteEmails \/ Crash \/ Reconnect
    BY <1>6, DisconnectTyped, CrashTyped
  <1>7. CASE UNCHANGED vars
    BY <1>7, StutterTyped
  <1> QED
    BY <1>1, <1>2, <1>3, <1>4, <1>5, <1>6, <1>7 DEF Next

LEMMA InitTyped == Init => WellTyped
  <1> SUFFICES ASSUME Init PROVE WellTyped
    OBVIOUS
  <1>1. JobsTyped /\ RunsTyped /\ RequestsTyped
    BY InitialRecords DEF Init, JobsTyped, RunsTyped, RequestsTyped
  <1>2. RestTyped
    BY ConstantsAssumption DEF Init, RestTyped
  <1> QED
    BY <1>1, <1>2 DEF WellTyped

\* The tables, the queues, the handlers and the requests keep their shape.
THEOREM TypeCorrect == Spec => []TypeOK
  <1>1. WellTyped /\ [Next]_vars => WellTyped'
    BY NextTyped
  <1> QED
    BY InitTyped, <1>1, TypesImply, PTL DEF Spec

-----------------------------------------------------------------------------
(* A completed run has been answered or says why not *)

\* What is left to show of a step: replies are not lost, whoever comes to the
\* step before completion has published, and a run completed by the step is
\* accounted for.
LEMMA Accounts ==
  ASSUME AccountInv,
         \A r \in RunId : replies[r] > 0 => replies'[r] > 0,
         \A v \in Worker : job'[v].pc = "record" =>
            \/ /\ job[v].pc = "record"
               /\ job'[v].msg = job[v].msg /\ job'[v].snap = job[v].snap
            \/ AutoReply(v)' => replies'[job'[v].msg.run] > 0,
         \A u \in User : request'[u].pc = "complete" =>
            request'[u] = request[u] \/ replies'[request'[u].run] > 0,
         \A r \in RunId : runs'[r].status = "completed" =>
            \/ /\ runs[r].status = "completed"
               /\ runs'[r].explanation = runs[r].explanation
            \/ replies'[r] > 0 \/ runs'[r].explanation = "no_resources"
  PROVE  RepliesFirst' /\ CompletedIsAccounted'
  <1>1. \A w \in Worker :
          job'[w].pc = "record" /\ AutoReply(w)' => replies'[job'[w].msg.run] > 0
    <2> SUFFICES ASSUME NEW w \in Worker, job'[w].pc = "record", AutoReply(w)',
                        job[w].pc = "record",
                        job'[w].msg = job[w].msg, job'[w].snap = job[w].snap
                 PROVE  replies'[job'[w].msg.run] > 0
      OBVIOUS
    <2>1. job[w].msg.run \in RunId
      BY Busy DEF AccountInv, WellTyped, StepsOf
    <2>2. AutoReply(w)
      BY DEF AutoReply
    <2> QED
      BY <2>1, <2>2 DEF AccountInv, RepliesFirst
  <1>2. \A u \in User : request'[u].pc = "complete" => replies'[request'[u].run] > 0
    <2>1. \A u \in User : request[u].pc = "complete" => request[u].run \in RunId
      BY DEF AccountInv, WellTyped, RequestsTyped, RequestOK
    <2> QED
      BY <2>1 DEF AccountInv, RepliesFirst
  <1>3. CompletedIsAccounted'
    BY DEF AccountInv, CompletedIsAccounted
  <1> QED
    BY <1>1, <1>2, <1>3 DEF RepliesFirst

\* A handler's step that publishes no reply and does not lead to "record".
LEMMA QuietSteps ==
  ASSUME AccountInv, NEW w \in Worker,
         \/ \E m \in Message : Receive(w, m)
         \/ FindEmail(w) \/ FindRun(w) \/ LinkEmail(w) \/ PublishRun(w)
         \/ Load(w) \/ Reload(w) \/ RouteReply(w) \/ SendGmail(w) \/ RefuseGmail(w)
         \/ Ack(w)
  PROVE  RepliesFirst' /\ CompletedIsAccounted'
  <1>1. UNCHANGED <<replies, runs, request>>
    BY DEF Receive, FindEmail, FindRun, LinkEmail, PublishRun, Load, Reload, RouteReply,
       SendGmail, RefuseGmail, Ack, tables, history
  <1>2. job \in [Worker -> Job]
    BY DEF AccountInv, WellTyped, JobsTyped
  <1>3. \A v \in Worker : job'[v].pc = "record" => job'[v] = job[v]
    <2>1. ASSUME NEW m \in Message, Receive(w, m)
          PROVE  \A v \in Worker : job'[v].pc = "record" => job'[v] = job[v]
      <3>1. FirstStep(m) # "record"
        BY Messages DEF FirstStep
      <3>2. [Idle EXCEPT !.pc = FirstStep(m), !.held = TRUE, !.msg = m].pc = FirstStep(m)
        BY DEF Idle
      <3> QED
        BY <1>2, <2>1, <3>1, <3>2 DEF Receive
    <2>2. CASE FindEmail(w)
      BY <1>2, <2>2 DEF FindEmail, Goto, Job
    <2>3. CASE FindRun(w)
      BY <1>2, <2>3 DEF FindRun, Job
    <2>4. CASE LinkEmail(w)
      BY <1>2, <2>4 DEF LinkEmail, GiveUp, Goto, Job
    <2>5. CASE PublishRun(w)
      BY <1>2, <2>5 DEF PublishRun, GiveUp, Goto, Job
    <2>6. CASE Load(w) \/ Reload(w)
      BY <1>2, <2>6 DEF Load, Reload, AfterRead, Job
    <2>7. CASE RouteReply(w) \/ SendGmail(w)
      BY <1>2, <2>7 DEF RouteReply, SendGmail, Goto, Job
    <2>8. CASE RefuseGmail(w) \/ Ack(w)
      BY <1>2, <2>8 DEF RefuseGmail, Nack, Ack, Idle
    <2> QED
      BY <2>1, <2>2, <2>3, <2>4, <2>5, <2>6, <2>7, <2>8
  <1> QED
    BY <1>1, <1>3, Accounts

\* A handler's step that rewrites a run.
LEMMA RewritingSteps ==
  ASSUME AccountInv, NEW w \in Worker,
         \/ \E r \in RunId : InsertRun(w, r)
         \/ Categorize(w) \/ Skip(w) \/ Explain(w) \/ Record(w)
  PROVE  RepliesFirst' /\ CompletedIsAccounted'
  <1>1. UNCHANGED <<replies, request>>
    BY DEF InsertRun, Categorize, Skip, Explain, Record, history
  <1>2. job \in [Worker -> Job] /\ runs \in [RunId -> Run]
    BY DEF AccountInv, WellTyped, JobsTyped, RunsTyped
  <1>3. \A v \in Worker : job'[v].pc = "record" => job'[v] = job[v]
    <2>1. CASE \E r \in RunId : InsertRun(w, r)
      BY <1>2, <2>1 DEF InsertRun, Job
    <2>2. CASE Categorize(w)
      BY <1>2, <2>2 DEF Categorize, GiveUp, Goto, Job
    <2>3. CASE Skip(w) \/ Explain(w) \/ Record(w)
      BY <1>2, <2>3 DEF Skip, Explain, Record, Goto, Job
    <2> QED
      BY <2>1, <2>2, <2>3
  <1>4. ASSUME NEW r \in RunId, runs'[r].status = "completed"
        PROVE  \/ /\ runs[r].status = "completed"
                  /\ runs'[r].explanation = runs[r].explanation
               \/ replies'[r] > 0 \/ runs'[r].explanation = "no_resources"
    <2>0. runs[r] \in Run
      BY <1>2
    <2>1. CASE \E s \in RunId : InsertRun(w, s)
      BY <1>2, <1>4, <2>1 DEF InsertRun, NoRun
    <2>2. CASE Categorize(w)
      <3> DEFINE s == job[w].msg.run
      <3>1. PICK answer \in Category \cup {NoMatch} :
              \/ runs' = [runs EXCEPT ![s] = [runs[s] EXCEPT
                                                !.currentStep = "Categorize Email",
                                                !.category = answer, !.draft = None]]
              \/ runs' = runs
        BY <2>2 DEF Categorize
      <3>2. CASE s = r
        <4> DEFINE x == [runs[r] EXCEPT !.currentStep = "Categorize Email",
                                        !.category = answer, !.draft = None]
        <4>1. x.status = runs[r].status /\ x.explanation = runs[r].explanation
          BY <2>0 DEF Run
        <4>2. runs'[r] \in {runs[r], x}
          BY <1>2, <3>1, <3>2
        <4> QED
          BY <1>4, <4>1, <4>2
      <3>3. CASE s # r
        BY <1>2, <1>4, <3>1, <3>3
      <3> QED
        BY <3>2, <3>3
    <2>3. CASE Skip(w)
      BY <1>2, <1>4, <2>3 DEF Skip, Run
    <2>4. CASE Explain(w)
      BY <1>2, <1>4, <2>4 DEF Explain, Run
    <2>5. CASE Record(w)
      <3>1. CASE job[w].msg.run = r /\ AutoReply(w)
        BY <1>1, <2>5, <3>1 DEF Record, AccountInv, RepliesFirst
      <3>2. CASE job[w].msg.run = r /\ ~ AutoReply(w)
        BY <1>2, <1>4, <2>0, <2>5, <3>2 DEF Record, Run
      <3>3. CASE job[w].msg.run # r
        BY <1>2, <1>4, <2>5, <3>3 DEF Record
      <3> QED
        BY <3>1, <3>2, <3>3
    <2> QED
      BY <2>1, <2>2, <2>3, <2>4, <2>5
  <1> QED
    BY <1>1, <1>3, <1>4, Accounts

\* A handler's step that leads to "record": without approval only after the
\* reply has been published.
LEMMA RecordingSteps ==
  ASSUME AccountInv, NEW w \in Worker, FindCategory(w) \/ PublishReply(w)
  PROVE  RepliesFirst' /\ CompletedIsAccounted'
  <1>1. UNCHANGED <<runs, request>>
    BY DEF FindCategory, PublishReply, tables
  <1>2. job \in [Worker -> Job] /\ replies \in [RunId -> Nat]
    BY DEF AccountInv, WellTyped, JobsTyped, RestTyped
  <1>3. job[w].msg.run \in RunId
    BY Busy DEF FindCategory, PublishReply, AccountInv, WellTyped, StepsOf
  <1>4. \A r \in RunId : replies[r] > 0 => replies'[r] > 0
    BY <1>2, <1>3 DEF FindCategory, PublishReply
  <1>5. ASSUME NEW v \in Worker, job'[v].pc = "record"
        PROVE  \/ /\ job[v].pc = "record"
                  /\ job'[v].msg = job[v].msg /\ job'[v].snap = job[v].snap
               \/ AutoReply(v)' => replies'[job'[v].msg.run] > 0
    <2>1. CASE v # w
      BY <1>2, <1>5, <2>1 DEF FindCategory, PublishReply, GiveUp, Goto
    <2>2. CASE v = w /\ PublishReply(w)
      BY <1>2, <1>3, <2>2 DEF PublishReply, Goto, Job
    <2>3. CASE v = w /\ FindCategory(w)
      <3>1. job'[w].snap = job[w].snap
        BY <1>2, <2>3 DEF FindCategory, GiveUp, Goto, Job
      <3>2. ~ AutoReply(w)
        BY <1>2, <1>5, <2>3 DEF FindCategory, GiveUp, Goto, Job
      <3> QED
        BY <2>3, <3>1, <3>2 DEF AutoReply
    <2> QED
      BY <2>1, <2>2, <2>3
  <1> QED
    BY <1>1, <1>4, <1>5, Accounts

LEMMA UserSteps ==
  ASSUME AccountInv, NEW u \in User,
         (\E r \in RunId : Approve(u, r)) \/ UserStep(u)
  PROVE  RepliesFirst' /\ CompletedIsAccounted'
  <1>1. UNCHANGED job
    BY DEF Approve, UserStep, LoadDraft, SaveDraft, PublishApproved, CompleteApproved
  <1>2. /\ request \in [User -> Request] /\ runs \in [RunId -> Run]
        /\ replies \in [RunId -> Nat]
        /\ request[u].pc # "idle" => request[u].run \in RunId
    BY DEF AccountInv, WellTyped, RequestsTyped, RequestOK, RunsTyped, RestTyped
  <1>3. \A r \in RunId : replies[r] > 0 => replies'[r] > 0
    BY <1>2 DEF Approve, UserStep, LoadDraft, SaveDraft, PublishApproved, CompleteApproved,
       history
  <1>4. ASSUME NEW v \in User, request'[v].pc = "complete"
        PROVE  request'[v] = request[v] \/ replies'[request'[v].run] > 0
    <2>1. CASE \E r \in RunId : Approve(u, r)
      BY <1>2, <1>4, <2>1 DEF Approve
    <2>2. CASE LoadDraft(u, "edit", "save_draft") \/ LoadDraft(u, "send", "publish")
      BY <1>2, <1>4, <2>2 DEF LoadDraft, Answered, NoRequest, Request
    <2>3. CASE SaveDraft(u)
      BY <1>2, <1>4, <2>3 DEF SaveDraft, Ask, Request
    <2>4. CASE PublishApproved(u)
      BY <1>2, <1>4, <2>4 DEF PublishApproved, Ask, Request
    <2>5. CASE CompleteApproved(u)
      BY <1>2, <1>4, <2>5 DEF CompleteApproved, Answered, NoRequest
    <2> QED
      BY <2>1, <2>2, <2>3, <2>4, <2>5 DEF UserStep
  <1>5. ASSUME NEW r \in RunId, runs'[r].status = "completed"
        PROVE  \/ /\ runs[r].status = "completed"
                  /\ runs'[r].explanation = runs[r].explanation
               \/ replies'[r] > 0 \/ runs'[r].explanation = "no_resources"
    <2>1. CASE UNCHANGED runs
      BY <1>5, <2>1
    <2>2. CASE SaveDraft(u)
      <3> DEFINE s == request[u].run
      <3>1. \/ runs' = [runs EXCEPT ![s] = [runs[s] EXCEPT !.draft = u,
                                                   !.category = request[u].snap.category]]
            \/ runs' = runs
        BY <2>2 DEF SaveDraft
      <3>2. CASE s = r
        <4> DEFINE x == [runs[r] EXCEPT !.draft = u, !.category = request[u].snap.category]
        <4>0. runs[r] \in Run
          BY <1>2
        <4>1. x.status = runs[r].status /\ x.explanation = runs[r].explanation
          BY <4>0 DEF Run
        <4>2. runs'[r] \in {runs[r], x}
          BY <1>2, <3>1, <3>2
        <4> QED
          BY <1>5, <4>1, <4>2
      <3>3. CASE s # r
        BY <1>2, <1>5, <3>1, <3>3
      <3> QED
        BY <3>2, <3>3
    <2>3. CASE CompleteApproved(u)
      <3>1. CASE request[u].run = r
        BY <2>3, <3>1 DEF CompleteApproved, history, AccountInv, RepliesFirst
      <3>2. CASE request[u].run # r
        BY <1>2, <1>5, <2>3, <3>2 DEF CompleteApproved, Run
      <3> QED
        BY <3>1, <3>2
    <2> QED
      BY <2>1, <2>2, <2>3 DEF Approve, UserStep, LoadDraft, PublishApproved, tables
  <1> QED
    BY <1>1, <1>3, <1>4, <1>5, Accounts

LEMMA OtherSteps ==
  ASSUME AccountInv,
         \/ \E c \in Category : EditCategory(c)
         \/ DeleteRuns \/ DeleteEmails \/ Crash \/ Reconnect \/ UNCHANGED vars
  PROVE  RepliesFirst' /\ CompletedIsAccounted'
  <1>1. UNCHANGED replies
    BY DEF EditCategory, DeleteRuns, DeleteEmails, Crash, Reconnect, vars, history
  <1>2. job \in [Worker -> Job]
    BY DEF AccountInv, WellTyped, JobsTyped
  <1>3. \A v \in Worker : job'[v].pc = "record" =>
          /\ job[v].pc = "record"
          /\ job'[v].msg = job[v].msg /\ job'[v].snap = job[v].snap
    BY <1>2 DEF EditCategory, DeleteRuns, DeleteEmails, Crash, Reconnect, vars, Idle, Job
  <1>4. \A u \in User : request'[u].pc = "complete" => request'[u] = request[u]
    BY DEF EditCategory, DeleteRuns, DeleteEmails, Crash, Reconnect, vars, NoRequest
  <1>5. \A r \in RunId : runs'[r].status = "completed" =>
          runs[r].status = "completed" /\ runs'[r].explanation = runs[r].explanation
    BY DEF EditCategory, DeleteRuns, DeleteEmails, Crash, Reconnect, vars, tables, NoRun
  <1> QED
    BY <1>1, <1>3, <1>4, <1>5, Accounts

\* No interleaving of handlers, approvals, crashes and repeated deliveries
\* completes a run whose reply does not exist.
THEOREM Accountability == Spec => []CompletedIsAccounted
  <1>1. Init => AccountInv
    <2> SUFFICES ASSUME Init PROVE AccountInv
      OBVIOUS
    <2>1. RepliesFirst /\ CompletedIsAccounted
      BY DEF Init, RepliesFirst, CompletedIsAccounted, Idle, NoRequest, NoRun
    <2> QED
      BY <2>1, InitTyped DEF AccountInv
  <1>2. AccountInv /\ [Next]_vars => AccountInv'
    <2> SUFFICES ASSUME AccountInv, [Next]_vars PROVE RepliesFirst' /\ CompletedIsAccounted'
      BY NextTyped DEF AccountInv
    <2>1. CASE \E w \in Worker, m \in Message : Receive(w, m)
      BY <2>1, QuietSteps
    <2>2. ASSUME NEW w \in Worker, WorkerStep(w) \/ SendGmail(w) \/ RefuseGmail(w)
          PROVE  RepliesFirst' /\ CompletedIsAccounted'
      BY <2>2, QuietSteps, RewritingSteps, RecordingSteps DEF WorkerStep
    <2>3. CASE (\E u \in User, r \in RunId : Approve(u, r)) \/ \E u \in User : UserStep(u)
      BY <2>3, UserSteps
    <2>4. CASE \/ \E c \in Category : EditCategory(c)
               \/ DeleteRuns \/ DeleteEmails \/ Crash \/ Reconnect \/ UNCHANGED vars
      BY <2>4, OtherSteps
    <2> QED
      BY <2>1, <2>2, <2>3, <2>4 DEF Next
  <1>3. AccountInv => CompletedIsAccounted
    BY DEF AccountInv
  <1> QED
    BY <1>1, <1>2, <1>3, PTL DEF Spec

-----------------------------------------------------------------------------
(* Runs that one delivery at a time deals with *)

\* A handler is at work on a run, having read it as pending.
Deals(j, r) == j.pc # "idle" /\ j.msg.type = "email_assistant" /\ j.msg.run = r

Deciding == {"categorize", "skip", "reload", "find_category", "explain", "publish_reply",
             "record"}

\* What the one handler at work on a run x with n replies relies on.
WorkerOK(j, x, n) ==
  /\ j.pc \in Deciding => x.status \in {"pending", "deleted"}
  /\ x.status = "pending" /\ j.pc \in Deciding \ {"categorize"} =>
       x.currentStep = "Categorize Email"
  /\ x.status = "pending" /\ j.pc \in {"categorize", "skip"} => n = 0
  /\ x.status = "pending" /\ j.pc \in {"find_category", "explain", "publish_reply", "record"} =>
       j.snap.workflow = x.workflow
  /\ j.pc = "publish_reply" => j.snap.workflow \notin ApproveFirst
  /\ j.pc \in {"publish_reply", "record"} => j.snap.category \in Category

\* What a request on a run x relies on.
RequestTied(q, x) ==
  /\ q.pc \in {"publish", "complete"} =>
       x.status \in {"awaiting_action", "completed", "deleted"}
  /\ q.pc = "save_draft" => q.snap.category \in Category

\* What a run itself says.
RunTended(x, n) ==
  /\ x.status = "awaiting_action" => x.draft # None /\ x.category \in Category
  /\ x.status = "skipped" => n = 0
  /\ x.status = "pending" /\ n # 0 =>
       x.currentStep = "Categorize Email" /\ x.workflow \notin ApproveFirst

Tended(r) ==
  /\ \A v, w \in Worker : Deals(job[v], r) /\ Deals(job[w], r) => v = w
  /\ \A w \in Worker : Deals(job[w], r) => WorkerOK(job[w], runs[r], replies[r])
  /\ \A u \in User : request[u].run = r => RequestTied(request[u], runs[r])
  /\ RunTended(runs[r], replies[r])

\* Nobody has heard of a run that is not there yet.
Unheard(r) ==
  /\ replies[r] = 0
  /\ \A m \in Message : m.type = "email_assistant" /\ m.run = r => queue[m] = 0
  /\ \A w \in Worker : ~ Deals(job[w], r)
  /\ \A w \in Worker : job[w].pc = "publish_run" => job[w].run # r
  /\ \A u \in User : request[u].run # r

Fresh(r) ==
  /\ runs[r].status \in {"absent", "deleted"} => runs[r].workflow = None
  /\ runs[r].status = "absent" => Unheard(r)

\* The broker waits only for handlers that are at work.
HeldBusy == \A w \in Worker : job[w].held => job[w].pc # "idle"

RunInv == HeldBusy /\ \A r \in RunId : Fresh(r) /\ (r \notin raced => Tended(r))

-----------------------------------------------------------------------------
(* A run that no handler or request touches *)

\* Everything about the run is as before, and a handler that goes on with it is
\* where it was or has not read it yet.
LEMMA Untouched ==
  ASSUME NEW r \in RunId, Tended(r),
         runs'[r] = runs[r], replies'[r] = replies[r],
         \A w \in Worker : Deals(job'[w], r) =>
            /\ Deals(job[w], r)
            /\ \/ job'[w].pc = job[w].pc /\ job'[w].snap = job[w].snap
               \/ job'[w].pc \notin Deciding,
         \A u \in User : request'[u].run = r => RequestTied(request'[u], runs[r])
  PROVE  Tended(r)'
  <1>1. \A w \in Worker : Deals(job'[w], r) => WorkerOK(job'[w], runs[r], replies[r])
    BY DEF Tended, WorkerOK, Deciding
  <1> QED
    BY <1>1 DEF Tended

\* The one handler at work on a run moves on, and the run with it.
LEMMA Owned ==
  ASSUME NEW w \in Worker, NEW r \in RunId, Tended(r), Deals(job[w], r),
         \A v \in Worker \ {w} : job'[v] = job[v],
         request' = request,
         WorkerOK(job'[w], runs'[r], replies'[r]),
         \A u \in User : request[u].run = r => RequestTied(request[u], runs'[r]),
         RunTended(runs'[r], replies'[r])
  PROVE  Tended(r)'
  <1>1. \A v \in Worker : Deals(job'[v], r) => v = w
    BY DEF Tended
  <1> QED
    BY <1>1 DEF Tended

\* A request is not about to answer a run that is pending.
LEMMA NotAnswered ==
  ASSUME NEW r \in RunId, Tended(r), runs[r].status = "pending", NEW x
  PROVE  \A u \in User : request[u].run = r => RequestTied(request[u], x)
  BY DEF Tended, RequestTied

-----------------------------------------------------------------------------
(* The handler of EMAIL_ASSISTANT *)

LEMMA AssistTended ==
  ASSUME WellTyped, NEW w \in Worker, NEW r \in RunId, Tended(r), Fresh(r),
         job[w].pc # "idle", job[w].msg.type = "email_assistant", job[w].msg.run = r,
         \/ Load(w) \/ Categorize(w) \/ Skip(w) \/ Reload(w)
         \/ FindCategory(w) \/ Explain(w) \/ PublishReply(w) \/ Record(w)
  PROVE  Tended(r)'
  <1>0. /\ job \in [Worker -> Job] /\ runs \in [RunId -> Run] /\ replies \in [RunId -> Nat]
        /\ job[w] \in Job /\ runs[r] \in Run /\ replies[r] \in Nat
    BY DEF WellTyped, JobsTyped, RunsTyped, RestTyped
  <1>1. Deals(job[w], r) /\ request' = request /\ \A v \in Worker \ {w} : job'[v] = job[v]
    BY <1>0 DEF Deals, Load, Categorize, Skip, Reload, FindCategory, Explain, PublishReply, Record,
                Goto, GiveUp
  <1>2. WorkerOK(job[w], runs[r], replies[r]) /\ RunTended(runs[r], replies[r])
        /\ \A u \in User : request[u].run = r => RequestTied(request[u], runs[r])
    BY <1>1 DEF Tended
  <1>3. ASSUME job'[w].pc = "done", runs'[r] = runs[r], replies'[r] = replies[r]
        PROVE  Tended(r)'
    <2>1. WorkerOK(job'[w], runs'[r], replies'[r])
      BY <1>3 DEF WorkerOK, Deciding
    <2> QED
      BY <1>1, <1>2, <1>3, <2>1, Owned
  <1>4. CASE Load(w)
    <2>1. /\ job'[w].snap = runs[r] /\ runs' = runs /\ replies' = replies
          /\ job'[w].pc = IF runs[r].status = "pending"
                          THEN IF runs[r].currentStep = "Categorize Email"
                               THEN "find_category" ELSE "categorize"
                          ELSE "done"
      BY <1>0, <1>4 DEF Load, AfterRead, Categorized, tables, history, Job
    <2>2. CASE runs[r].status # "pending"
      BY <1>3, <2>1, <2>2
    <2>3. CASE runs[r].status = "pending" /\ runs[r].currentStep = "Categorize Email"
      <3>1. WorkerOK(job'[w], runs[r], replies[r])
        BY <2>1, <2>3 DEF WorkerOK, Deciding
      <3> QED
        BY <1>1, <1>2, <2>1, <3>1, Owned
    <2>4. CASE runs[r].status = "pending" /\ runs[r].currentStep # "Categorize Email"
      <3>1. replies[r] = 0
        BY <1>0, <1>2, <2>4 DEF RunTended
      <3>2. WorkerOK(job'[w], runs[r], replies[r])
        BY <2>1, <2>4, <3>1 DEF WorkerOK, Deciding
      <3> QED
        BY <1>1, <1>2, <2>1, <3>2, Owned
    <2> QED
      BY <2>2, <2>3, <2>4
  <1>9. CASE Reload(w)
    <2>1. /\ job'[w].snap = runs[r] /\ runs' = runs /\ replies' = replies
          /\ job[w].pc = "reload"
          /\ job'[w].pc = IF runs[r].status = "pending" THEN "find_category" ELSE "done"
      BY <1>0, <1>9 DEF Reload, AfterRead, tables, history, Job
    <2>2. CASE runs[r].status # "pending"
      BY <1>3, <2>1, <2>2
    <2>3. CASE runs[r].status = "pending"
      <3>1. WorkerOK(job'[w], runs[r], replies[r])
        BY <1>2, <2>1, <2>3 DEF WorkerOK, Deciding
      <3> QED
        BY <1>1, <1>2, <2>1, <3>1, Owned
    <2> QED
      BY <2>2, <2>3
  <1>5. CASE Categorize(w)
    <2>0. job[w].pc = "categorize" /\ replies' = replies
      BY <1>5 DEF Categorize
    <2>1. CASE GiveUp(w, r) /\ UNCHANGED runs
      BY <1>0, <1>3, <2>0, <2>1 DEF GiveUp, Goto
    <2>2. ASSUME NEW answer \in Category \cup {NoMatch},
                 Exists(r),
                 runs' = [runs EXCEPT ![r].currentStep = "Categorize Email",
                                      ![r].category = answer, ![r].draft = None],
                 Goto(w, IF answer = NoMatch THEN "skip" ELSE "reload")
          PROVE  Tended(r)'
      <3>1. /\ runs'[r].status = runs[r].status /\ runs'[r].workflow = runs[r].workflow
            /\ runs'[r].currentStep = "Categorize Email"
        BY <1>0, <2>2 DEF Run
      <3>2. runs[r].status = "pending"
        BY <1>2, <2>0, <2>2 DEF WorkerOK, Deciding, Exists
      <3>3. job'[w].pc \in {"skip", "reload"} /\ replies[r] = 0
        <4>1. job'[w].pc \in {"skip", "reload"}
          BY <1>0, <2>2 DEF Goto, Job
        <4>2. replies[r] = 0
          BY <1>2, <2>0, <3>2 DEF WorkerOK
        <4> QED
          BY <4>1, <4>2
      <3>4. WorkerOK(job'[w], runs'[r], replies'[r])
        BY <2>0, <3>1, <3>2, <3>3 DEF WorkerOK, Deciding
      <3>5. RunTended(runs'[r], replies'[r])
        BY <2>0, <3>1, <3>2, <3>3 DEF RunTended
      <3> QED
        BY <1>1, <3>2, <3>4, <3>5, NotAnswered, Owned
    <2>3. ASSUME NEW answer \in Category \cup {NoMatch}, ~ Exists(r), runs' = runs,
                 Goto(w, IF answer = NoMatch THEN "skip" ELSE "reload")
          PROVE  Tended(r)'
      <3>1. job'[w].pc \in {"skip", "reload"} /\ runs[r].status = "deleted"
        BY <1>0, <1>2, <2>0, <2>3 DEF Goto, WorkerOK, Deciding, Exists, Job
      <3>2. WorkerOK(job'[w], runs[r], replies[r])
        BY <3>1 DEF WorkerOK
      <3> QED
        BY <1>1, <1>2, <2>0, <2>3, <3>2, Owned
    <2> QED
      BY <1>5, <2>1, <2>2, <2>3 DEF Categorize
  <1>6. CASE FindCategory(w)
    <2>0. /\ job[w].pc = "find_category" /\ runs' = runs /\ replies' = replies
          /\ job'[w].snap = job[w].snap
      BY <1>0, <1>6 DEF FindCategory, GiveUp, Goto, tables, Job
    <2>1. CASE job'[w].pc = "done"
      BY <1>3, <2>0, <2>1
    <2>2. CASE job'[w].pc = "explain"
      <3>1. WorkerOK(job'[w], runs[r], replies[r])
        BY <1>2, <2>0, <2>2 DEF WorkerOK, Deciding
      <3> QED
        BY <1>1, <1>2, <2>0, <3>1, Owned
    <2>3. ASSUME job[w].snap.category \in Category,
                 job'[w].pc = IF AutoReply(w) THEN "publish_reply" ELSE "record"
          PROVE  Tended(r)'
      <3>1. WorkerOK(job'[w], runs[r], replies[r])
        BY <1>2, <2>0, <2>3 DEF WorkerOK, Deciding, AutoReply
      <3> QED
        BY <1>1, <1>2, <2>0, <3>1, Owned
    <2>4. \/ job'[w].pc \in {"done", "explain"}
          \/ /\ job[w].snap.category \in Category
             /\ job'[w].pc = IF AutoReply(w) THEN "publish_reply" ELSE "record"
      BY <1>0, <1>6 DEF FindCategory, GiveUp, Goto, Job
    <2> QED
      BY <2>1, <2>2, <2>3, <2>4
  <1>7. CASE PublishReply(w)
    <2>0. /\ job[w].pc = "publish_reply" /\ runs' = runs /\ replies'[r] = replies[r] + 1
          /\ job'[w].snap = job[w].snap /\ job'[w].pc = "record"
      BY <1>0, <1>7 DEF PublishReply, Goto, tables
    <2>1. WorkerOK(job'[w], runs[r], replies'[r])
      BY <1>2, <2>0 DEF WorkerOK, Deciding
    <2>2. RunTended(runs[r], replies'[r])
      <3>1. runs[r].status \in {"pending", "deleted"}
        BY <1>2, <2>0 DEF WorkerOK, Deciding
      <3>2. runs[r].status = "pending" =>
              runs[r].currentStep = "Categorize Email" /\ runs[r].workflow \notin ApproveFirst
        BY <1>2, <2>0 DEF WorkerOK, Deciding
      <3> QED
        BY <3>1, <3>2 DEF RunTended
    <2> QED
      BY <1>1, <1>2, <2>0, <2>1, <2>2, Owned
  <1>8. CASE Skip(w) \/ Explain(w) \/ Record(w)
    <2>0. /\ job[w].pc \in {"skip", "explain", "record"} /\ job'[w].pc = "done" /\ replies' = replies
      BY <1>0, <1>8 DEF Skip, Explain, Record, Goto, history, Job
    <2>1. CASE ~ Exists(r)
      <3>1. runs' = runs
        BY <1>8, <2>1 DEF Skip, Explain, Record
      <3> QED
        BY <1>3, <2>0, <3>1
    <2>2. CASE Exists(r)
      <3>1. runs[r].status = "pending"
        BY <1>2, <2>0, <2>2 DEF WorkerOK, Deciding, Exists
      <3>2. WorkerOK(job'[w], runs'[r], replies'[r])
        BY <2>0 DEF WorkerOK, Deciding
      <3>3. RunTended(runs'[r], replies'[r])
        <4>1. CASE Skip(w)
          <5>1. runs'[r].status = "skipped" /\ replies[r] = 0
            BY <1>0, <1>2, <2>2, <3>1, <4>1 DEF Skip, Run, WorkerOK
          <5> QED
            BY <2>0, <5>1 DEF RunTended
        <4>2. CASE Explain(w)
          <5>1. runs'[r].status = "completed"
            BY <1>0, <2>2, <4>2 DEF Explain, Run
          <5> QED
            BY <5>1 DEF RunTended
        <4>3. CASE Record(w)
          <5>1. /\ runs'[r].status \in {"completed", "awaiting_action"}
                /\ runs'[r].category = job[w].snap.category /\ runs'[r].draft = "generated"
            BY <1>0, <2>2, <4>3 DEF Record, Run
          <5>2. job[w].snap.category \in Category
            BY <1>2, <4>3 DEF Record, WorkerOK
          <5>3. "generated" # None
            BY ConstantsAssumption
          <5> QED
            BY <5>1, <5>2, <5>3 DEF RunTended
        <4> QED
          BY <1>8, <4>1, <4>2, <4>3
      <3> QED
        BY <1>1, <3>1, <3>2, <3>3, NotAnswered, Owned
    <2> QED
      BY <2>1, <2>2
  <1> QED
    BY <1>4, <1>5, <1>6, <1>7, <1>8, <1>9

-----------------------------------------------------------------------------
(* The steps of a handler *)

LEMMA FindRunMoves ==
  ASSUME job \in [Worker -> Job], NEW w \in Worker, FindRun(w)
  PROVE  /\ \A v \in Worker \ {w} : job'[v] = job[v]
         /\ job'[w].msg = job[w].msg /\ job'[w].held = job[w].held
         /\ job'[w].pc \in {"insert_run", "link_email"}
  <1>1. PICK f \in job[w].todo :
          \/ job' = [job EXCEPT ![w].pc = "insert_run", ![w].snap.workflow = f]
          \/ \E q \in RunsFor(f, job[w].msg.email) :
               job' = [job EXCEPT ![w].pc = "link_email", ![w].run = q,
                                  ![w].snap.workflow = f]
    BY DEF FindRun
  <1>2. CASE job' = [job EXCEPT ![w].pc = "insert_run", ![w].snap.workflow = f]
    BY <1>2 DEF Job
  <1>3. ASSUME NEW q \in RunsFor(f, job[w].msg.email),
               job' = [job EXCEPT ![w].pc = "link_email", ![w].run = q, ![w].snap.workflow = f]
        PROVE  /\ \A v \in Worker \ {w} : job'[v] = job[v]
               /\ job'[w].msg = job[w].msg /\ job'[w].held = job[w].held
               /\ job'[w].pc \in {"insert_run", "link_email"}
    BY <1>3 DEF Job
  <1> QED
    BY <1>1, <1>2, <1>3

\* A handler keeps its message until it resolves, and leaves the others alone.
LEMMA HandlerSteps ==
  ASSUME WellTyped, NEW w \in Worker, WorkerStep(w) \/ SendGmail(w) \/ RefuseGmail(w)
  PROVE  /\ request' = request /\ raced' = raced
         /\ job[w].pc # "idle"
         /\ \A v \in Worker \ {w} : job'[v] = job[v]
         /\ \/ job'[w].msg = job[w].msg /\ job'[w].held = job[w].held /\ job'[w].pc # "idle"
            \/ job'[w] = Idle
  <1>0. job \in [Worker -> Job]
    BY DEF WellTyped, JobsTyped
  <1>1. CASE FindEmail(w) \/ FindRun(w) \/ LinkEmail(w) \/ PublishRun(w)
    <2>0. request' = request /\ raced' = raced /\ job[w].pc # "idle"
      BY <1>1 DEF FindEmail, FindRun, LinkEmail, PublishRun, history
    <2>1. CASE FindEmail(w) \/ LinkEmail(w)
      BY <1>0, <2>0, <2>1 DEF FindEmail, LinkEmail, Goto, GiveUp, Job
    <2>2. CASE FindRun(w)
      BY <1>0, <2>0, <2>2, FindRunMoves
    <2>3. CASE PublishRun(w)
      BY <1>0, <2>0, <2>3 DEF PublishRun, Goto, GiveUp, Job
    <2> QED
      BY <1>1, <2>1, <2>2, <2>3
  <1>2. ASSUME NEW q \in RunId, InsertRun(w, q)
        PROVE  /\ request' = request /\ raced' = raced
               /\ job[w].pc # "idle"
               /\ \A v \in Worker \ {w} : job'[v] = job[v]
               /\ job'[w].msg = job[w].msg /\ job'[w].held = job[w].held
               /\ job'[w].pc # "idle"
    BY <1>0, <1>2 DEF InsertRun, Job, history
  <1>3. CASE Load(w) \/ Reload(w)
    BY <1>0, <1>3 DEF Load, Reload, AfterRead, Job, history
  <1>4. CASE Categorize(w) \/ Skip(w) \/ Explain(w) \/ Record(w)
    BY <1>0, <1>4 DEF Categorize, Skip, Explain, Record, Goto, GiveUp, Job, history
  <1>5. CASE FindCategory(w) \/ PublishReply(w)
    BY <1>0, <1>5 DEF FindCategory, PublishReply, Goto, GiveUp, Job
  <1>6. CASE RouteReply(w) \/ SendGmail(w) \/ RefuseGmail(w) \/ Ack(w)
    BY <1>0, <1>6 DEF RouteReply, SendGmail, RefuseGmail, Ack, Nack, Goto, Job, history
  <1> QED
    BY <1>1, <1>2, <1>3, <1>4, <1>5, <1>6 DEF WorkerStep

\* A handler changes no run but its own.
LEMMA OtherRunsKept ==
  ASSUME WellTyped, NEW w \in Worker, NEW r \in RunId,
         WorkerStep(w) \/ SendGmail(w) \/ RefuseGmail(w),
         ~ Deals(job[w], r), ~ InsertRun(w, r)
  PROVE  runs'[r] = runs[r] /\ replies'[r] = replies[r]
  <1>0. runs \in [RunId -> Run] /\ replies \in [RunId -> Nat] /\ JobsTyped
    BY DEF WellTyped, RunsTyped, RestTyped
  <1>1. CASE FindEmail(w) \/ FindRun(w) \/ LinkEmail(w) \/ PublishRun(w) \/ Load(w) \/ Reload(w)
             \/ RouteReply(w) \/ SendGmail(w) \/ RefuseGmail(w) \/ Ack(w)
    BY <1>1 DEF FindEmail, FindRun, LinkEmail, PublishRun, Load, Reload, RouteReply, SendGmail,
                RefuseGmail, Ack, tables, history
  <1>2. ASSUME NEW q \in RunId, InsertRun(w, q)
        PROVE  runs'[r] = runs[r] /\ replies'[r] = replies[r]
    BY <1>0, <1>2 DEF InsertRun, history
  <1>3. CASE Categorize(w) \/ Skip(w) \/ Explain(w) \/ Record(w) \/ FindCategory(w)
             \/ PublishReply(w)
    <2>1. job[w].pc \in StepsOf("email_assistant") \ {"done"}
      BY <1>3 DEF Categorize, Skip, Explain, Record, FindCategory, PublishReply, StepsOf
    <2>2. job[w].msg.run # r
      BY <1>0, <2>1, Busy DEF Deals, StepsOf
    <2> QED
      BY <1>0, <1>3, <2>2 DEF Categorize, Skip, Explain, Record, FindCategory, PublishReply,
                              GiveUp, tables, history
  <1> QED
    BY <1>1, <1>2, <1>3 DEF WorkerStep

LEMMA WorkerTended ==
  ASSUME WellTyped, NEW w \in Worker, NEW r \in RunId, Tended(r), Fresh(r),
         WorkerStep(w) \/ SendGmail(w) \/ RefuseGmail(w)
  PROVE  Tended(r)'
  <1>0. /\ job \in [Worker -> Job] /\ runs \in [RunId -> Run] /\ replies \in [RunId -> Nat]
        /\ JobsTyped
    BY DEF WellTyped, JobsTyped, RunsTyped, RestTyped
  <1>1. /\ request' = request /\ job[w].pc # "idle"
        /\ \A v \in Worker \ {w} : job'[v] = job[v]
        /\ \/ job'[w].msg = job[w].msg /\ job'[w].pc # "idle"
           \/ job'[w] = Idle
    BY HandlerSteps
  <1>2. \A u \in User : request'[u].run = r => RequestTied(request'[u], runs[r])
    BY <1>1 DEF Tended
  <1>3. \A v \in Worker : Deals(job'[v], r) => Deals(job[v], r)
    BY <1>1 DEF Deals, Idle
  <1>4. CASE InsertRun(w, r)
    <2>1. /\ Unheard(r) /\ replies'[r] = 0
          /\ runs'[r].status = "pending" /\ runs'[r].currentStep = "none"
      BY <1>0, <1>4 DEF InsertRun, Fresh, Unheard, NoRun, history
    <2>2. /\ \A v \in Worker : ~ Deals(job'[v], r)
          /\ \A u \in User : request'[u].run # r
      BY <1>1, <1>3, <2>1 DEF Unheard
    <2> QED
      BY <2>1, <2>2 DEF Tended, RunTended
  <1>5. CASE ~ Deals(job[w], r) /\ ~ InsertRun(w, r)
    <2>1. runs'[r] = runs[r] /\ replies'[r] = replies[r]
      BY <1>5, OtherRunsKept
    <2>2. \A v \in Worker : Deals(job'[v], r) => Deals(job[v], r) /\ job'[v] = job[v]
      BY <1>1, <1>3, <1>5
    <2> QED
      BY <1>2, <2>1, <2>2, Untouched
  <1>6. CASE Deals(job[w], r) /\ ~ InsertRun(w, r)
    <2>1. job[w].pc \in StepsOf("email_assistant")
      BY <1>1, <1>6 DEF WellTyped, JobsTyped, JobOK, Deals
    <2>2. CASE Ack(w)
      <3>1. job'[w] = Idle /\ runs' = runs /\ replies' = replies
        BY <1>0, <2>2 DEF Ack, tables, history
      <3>2. \A v \in Worker : Deals(job'[v], r) => Deals(job[v], r) /\ job'[v] = job[v]
        BY <1>1, <1>3, <3>1 DEF Deals, Idle
      <3> QED
        BY <1>2, <3>1, <3>2, Untouched
    <2>3. \/ Load(w) \/ Categorize(w) \/ Skip(w) \/ Reload(w)
          \/ FindCategory(w) \/ Explain(w) \/ PublishReply(w) \/ Record(w) \/ Ack(w)
      BY <2>1 DEF StepsOf, WorkerStep, FindEmail, FindRun, LinkEmail, PublishRun, InsertRun,
                  RouteReply, SendGmail, RefuseGmail
    <2> QED
      BY <1>1, <1>6, <2>2, <2>3, AssistTended DEF Deals
  <1> QED
    BY <1>4, <1>5, <1>6

\* A run that is not there is not made by a step of a handler, but for InsertRun,
\* and nobody comes to hear of it.
LEMMA WorkerFresh ==
  ASSUME WellTyped, NEW w \in Worker, NEW r \in RunId,
         \A q \in RunId : Fresh(q),
         WorkerStep(w) \/ SendGmail(w) \/ RefuseGmail(w)
  PROVE  Fresh(r)'
  <1>0. /\ job \in [Worker -> Job] /\ runs \in [RunId -> Run] /\ queue \in [Message -> Nat]
        /\ job[w] \in Job /\ runs[r] \in Run /\ JobsTyped
    BY DEF WellTyped, JobsTyped, RunsTyped, RestTyped
  <1>1. /\ request' = request /\ job[w].pc # "idle"
        /\ \A v \in Worker \ {w} : job'[v] = job[v]
        /\ \/ job'[w].msg = job[w].msg /\ job'[w].pc # "idle"
           \/ job'[w] = Idle
    BY HandlerSteps
  <1>2. \A v \in Worker : Deals(job'[v], r) => Deals(job[v], r)
    BY <1>1 DEF Deals, Idle
  <1>3. CASE runs[r].status \notin {"absent", "deleted"}
    <2>1. runs'[r].status \notin {"absent", "deleted"}
      <3>1. CASE InsertRun(w, r)
        BY <1>3, <3>1 DEF InsertRun
      <3>2. CASE ~ Deals(job[w], r) /\ ~ InsertRun(w, r)
        BY <1>3, <3>2, OtherRunsKept
      <3>3. CASE Deals(job[w], r) /\ ~ InsertRun(w, r)
        <4>1. CASE Categorize(w) \/ Skip(w) \/ Explain(w) \/ Record(w)
          <5>0. job[w].msg.run = r
            BY <3>3 DEF Deals
          <5>1. CASE Categorize(w)
            <6>1. PICK x \in Category \cup {NoMatch} :
                    \/ runs' = [runs EXCEPT ![r].currentStep = "Categorize Email",
                                           ![r].category = x, ![r].draft = None]
                    \/ runs' = runs
              BY <5>0, <5>1 DEF Categorize
            <6>2. runs'[r].status = runs[r].status
              BY <1>0, <6>1 DEF Run
            <6> QED
              BY <1>3, <6>2
          <5>2. CASE Skip(w)
            BY <1>0, <1>3, <5>0, <5>2 DEF Skip, Run
          <5>3. CASE Explain(w)
            BY <1>0, <1>3, <5>0, <5>3 DEF Explain, Run
          <5>4. CASE Record(w)
            BY <1>0, <1>3, <5>0, <5>4 DEF Record, Run
          <5> QED
            BY <4>1, <5>1, <5>2, <5>3, <5>4
        <4>2. CASE Load(w) \/ Reload(w) \/ FindCategory(w) \/ PublishReply(w) \/ Ack(w)
          BY <1>3, <4>2 DEF Load, Reload, FindCategory, PublishReply, Ack, tables
        <4>3. job[w].pc \in StepsOf("email_assistant")
          BY <1>1, <3>3 DEF WellTyped, JobsTyped, JobOK, Deals
        <4> QED
          BY <4>1, <4>2, <4>3 DEF StepsOf, WorkerStep, FindEmail, FindRun, LinkEmail, PublishRun,
                                  InsertRun, RouteReply, SendGmail, RefuseGmail
      <3> QED
        BY <3>1, <3>2, <3>3
    <2> QED
      BY <2>1 DEF Fresh
  <1>4. CASE runs[r].status = "deleted"
    <2>1. runs'[r] = runs[r]
      <3>1. CASE Deals(job[w], r)
        <4>1. job[w].pc \in StepsOf("email_assistant") /\ job[w].msg.run = r
          BY <1>1, <3>1 DEF WellTyped, JobsTyped, JobOK, Deals
        <4>2. CASE Categorize(w) \/ Skip(w) \/ Explain(w) \/ Record(w)
          BY <1>4, <4>1, <4>2 DEF Categorize, Skip, Explain, Record, Exists
        <4>3. CASE Load(w) \/ Reload(w) \/ FindCategory(w) \/ PublishReply(w) \/ Ack(w)
          BY <4>3 DEF Load, Reload, FindCategory, PublishReply, Ack, tables
        <4> QED
          BY <4>1, <4>2, <4>3 DEF StepsOf, WorkerStep, FindEmail, FindRun, LinkEmail, PublishRun,
                                  InsertRun, RouteReply, SendGmail, RefuseGmail
      <3>2. ~ InsertRun(w, r)
        BY <1>4 DEF InsertRun
      <3> QED
        BY <3>1, <3>2, OtherRunsKept
    <2> QED
      BY <1>4, <2>1 DEF Fresh
  <1>5. CASE runs[r].status = "absent" /\ InsertRun(w, r)
    <2>1. runs'[r].status = "pending"
      BY <1>0, <1>5 DEF InsertRun, NoRun
    <2> QED
      BY <2>1 DEF Fresh
  <1>6. CASE runs[r].status = "absent" /\ ~ InsertRun(w, r)
    <2>1. Unheard(r) /\ ~ Deals(job[w], r)
      BY <1>6 DEF Fresh, Unheard
    <2>2. runs'[r] = runs[r] /\ replies'[r] = 0
      BY <1>6, <2>1, OtherRunsKept DEF Unheard
    <2>3. ASSUME NEW m \in Message, m.type = "email_assistant", m.run = r
          PROVE  queue'[m] = 0
      <3>0. queue[m] = 0
        BY <2>1, <2>3 DEF Unheard
      <3>1. CASE PublishRun(w)
        <4>1. job[w].run # r
          BY <2>1, <3>1 DEF Unheard, PublishRun
        <4>2. m # Assist(job[w].run, job[w].msg.email)
          BY <2>3, <4>1 DEF Assist
        <4> QED
          BY <1>0, <3>0, <3>1, <4>2 DEF PublishRun, Publish
      <3>2. CASE PublishReply(w) \/ RouteReply(w)
        BY <1>0, <2>3, <3>0, <3>2 DEF PublishReply, RouteReply, Publish, Reply, GmailReply
      <3>3. CASE RefuseGmail(w)
        <4>1. job[w].msg.type = "email_workflow_reply_gmail"
          BY <1>0, <3>3, Busy DEF RefuseGmail
        <4> QED
          BY <1>0, <2>3, <3>0, <3>3, <4>1 DEF RefuseGmail, Nack
      <3>4. CASE ~ (PublishRun(w) \/ PublishReply(w) \/ RouteReply(w) \/ RefuseGmail(w))
        <4>1. queue' = queue
          BY <3>4 DEF WorkerStep, FindEmail, FindRun, LinkEmail, InsertRun, Load, Categorize, Skip,
                      Reload, FindCategory, Explain, Record, Ack, SendGmail
        <4> QED
          BY <3>0, <4>1
      <3> QED
        BY <3>1, <3>2, <3>3, <3>4
    <2>4. job'[w].pc = "publish_run" => job'[w].run # r
      <3>1. CASE LinkEmail(w)
        <4>1. job'[w].pc = "publish_run" => Exists(job[w].run) /\ job'[w].run = job[w].run
          BY <1>0, <3>1 DEF LinkEmail, Goto, GiveUp, Job
        <4> QED
          BY <1>6, <4>1 DEF Exists
      <3>2. CASE ~ LinkEmail(w)
        <4>1. job'[w].pc # "publish_run"
          <5>1. CASE FindEmail(w) \/ FindRun(w)
            BY <1>0, <5>1, FindRunMoves DEF FindEmail, Goto, Job
          <5>2. CASE PublishRun(w) \/ \E q \in RunId : InsertRun(w, q)
            BY <1>0, <5>2 DEF PublishRun, InsertRun, Goto, GiveUp, Job
          <5>3. CASE Load(w) \/ Reload(w) \/ FindCategory(w) \/ PublishReply(w)
            BY <1>0, <5>3 DEF Load, Reload, AfterRead, FindCategory, PublishReply, Goto, GiveUp, Job
          <5>4. CASE Categorize(w) \/ Skip(w) \/ Explain(w) \/ Record(w)
            BY <1>0, <5>4 DEF Categorize, Skip, Explain, Record, Goto, GiveUp, Job
          <5>5. CASE RouteReply(w) \/ SendGmail(w) \/ RefuseGmail(w) \/ Ack(w)
            BY <1>0, <5>5 DEF RouteReply, SendGmail, RefuseGmail, Ack, Nack, Goto, Job, Idle
          <5> QED
            BY <3>2, <5>1, <5>2, <5>3, <5>4, <5>5 DEF WorkerStep
        <4> QED
          BY <4>1
      <3> QED
        BY <3>1, <3>2
    <2>5. \A v \in Worker : job'[v].pc = "publish_run" => job'[v].run # r
      BY <1>1, <2>1, <2>4 DEF Unheard
    <2>6. Unheard(r)'
      BY <1>1, <1>2, <2>1, <2>2, <2>3, <2>5 DEF Unheard
    <2> QED
      BY <1>6, <2>2, <2>6 DEF Fresh
  <1> QED
    BY <1>0, <1>3, <1>4, <1>5, <1>6 DEF Run

-----------------------------------------------------------------------------
(* Deliveries *)

LEMMA ReceiveKeeps ==
  ASSUME WellTyped, RunInv, NEW w \in Worker, NEW m \in Message, Receive(w, m)
  PROVE  RunInv'
  <1>0. /\ job \in [Worker -> Job] /\ queue \in [Message -> Nat]
        /\ runs' = runs /\ replies' = replies /\ request' = request
    BY DEF WellTyped, JobsTyped, RestTyped, Receive, tables
  <1>1. /\ job'[w].pc = FirstStep(m) /\ job'[w].held /\ job'[w].msg = m
        /\ \A v \in Worker \ {w} : job'[v] = job[v]
    BY <1>0 DEF Receive, Idle
  <1>2. /\ FirstStep(m) \notin {"idle", "publish_run"} /\ FirstStep(m) \notin Deciding
        /\ m.type = "email_assistant" => m.run \in RunId
    BY Messages DEF FirstStep, Deciding
  <1>3. HeldBusy'
    BY <1>1, <1>2 DEF RunInv, HeldBusy
  <1>4. ASSUME NEW r \in RunId
        PROVE  Fresh(r)'
    <2>0. Fresh(r)
      BY DEF RunInv
    <2>1. CASE runs[r].status = "absent"
      <3>1. Unheard(r)
        BY <2>0, <2>1 DEF Fresh
      <3>2. ~ (m.type = "email_assistant" /\ m.run = r)
        BY <3>1 DEF Unheard, Receive, Queued
      <3>3. \A k \in Message : k.type = "email_assistant" /\ k.run = r => queue'[k] = 0
        BY <1>0, <3>1, <3>2 DEF Unheard, Receive
      <3>4. \A v \in Worker : ~ Deals(job'[v], r)
        BY <1>1, <3>1, <3>2 DEF Unheard, Deals
      <3>5. \A v \in Worker : job'[v].pc = "publish_run" => job'[v].run # r
        BY <1>1, <1>2, <3>1 DEF Unheard
      <3>6. Unheard(r)'
        BY <1>0, <3>1, <3>3, <3>4, <3>5 DEF Unheard
      <3> QED
        BY <1>0, <2>0, <3>6 DEF Fresh
    <2>2. CASE runs[r].status # "absent"
      BY <1>0, <2>0, <2>2 DEF Fresh
    <2> QED
      BY <2>1, <2>2
  <1>5. ASSUME NEW r \in RunId, r \notin raced'
        PROVE  Tended(r)'
    <2>0. Tended(r)
      BY <1>5 DEF RunInv, Receive
    <2>1. \A u \in User : request'[u].run = r => RequestTied(request'[u], runs[r])
      BY <1>0, <2>0 DEF Tended
    <2>2. CASE m.type = "email_assistant" /\ m.run = r
      <3>1. \A v \in Worker : ~ Deals(job[v], r)
        BY <1>5, <2>2 DEF Receive, Assisting, Deals
      <3>2. \A v \in Worker : Deals(job'[v], r) => v = w
        BY <1>1, <3>1
      <3>3. WorkerOK(job'[w], runs[r], replies[r])
        BY <1>1, <1>2 DEF WorkerOK, Deciding
      <3>4. RunTended(runs[r], replies[r])
        BY <2>0 DEF Tended
      <3> QED
        BY <1>0, <2>1, <3>2, <3>3, <3>4 DEF Tended
    <2>3. CASE ~ (m.type = "email_assistant" /\ m.run = r)
      <3>1. \A v \in Worker : Deals(job'[v], r) => Deals(job[v], r) /\ job'[v] = job[v]
        BY <1>1, <2>3 DEF Deals
      <3> QED
        BY <1>0, <2>0, <2>1, <3>1, Untouched
    <2> QED
      BY <2>2, <2>3
  <1> QED
    BY <1>3, <1>4, <1>5 DEF RunInv

LEMMA WorkerKeeps ==
  ASSUME WellTyped, RunInv, NEW w \in Worker, WorkerStep(w) \/ SendGmail(w) \/ RefuseGmail(w)
  PROVE  RunInv'
  <1>1. /\ raced' = raced /\ job[w].pc # "idle"
        /\ \A v \in Worker \ {w} : job'[v] = job[v]
        /\ \/ job'[w].held = job[w].held /\ job'[w].pc # "idle"
           \/ job'[w] = Idle
    BY HandlerSteps
  <1>2. HeldBusy'
    BY <1>1 DEF RunInv, HeldBusy, Idle
  <1>3. ASSUME NEW r \in RunId PROVE Fresh(r)'
    BY WorkerFresh DEF RunInv
  <1>4. ASSUME NEW r \in RunId, r \notin raced' PROVE Tended(r)'
    BY <1>1, <1>4, WorkerTended DEF RunInv
  <1> QED
    BY <1>2, <1>3, <1>4 DEF RunInv

-----------------------------------------------------------------------------
(* Requests *)

\* A request writes the draft, the category or, once the run waited for it, the
\* completion of its run.
LEMMA AnsweringTended ==
  ASSUME NEW r \in RunId, Tended(r), job' = job,
         runs'[r].workflow = runs[r].workflow, runs'[r].currentStep = runs[r].currentStep,
         \/ runs'[r].status = runs[r].status
         \/ runs[r].status \in {"awaiting_action", "completed"} /\ runs'[r].status = "completed",
         replies'[r] = replies[r] \/ runs[r].status \in {"awaiting_action", "completed", "deleted"},
         runs'[r].status = "awaiting_action" =>
           runs'[r].draft # None /\ runs'[r].category \in Category,
         \A u \in User : request'[u].run = r => RequestTied(request'[u], runs'[r])
  PROVE  Tended(r)'
  <1>1. ASSUME NEW v \in Worker, Deals(job[v], r)
        PROVE  WorkerOK(job[v], runs'[r], replies'[r])
    BY <1>1 DEF Tended, WorkerOK
  <1>2. RunTended(runs'[r], replies'[r])
    BY DEF Tended, RunTended
  <1> QED
    BY <1>1, <1>2 DEF Tended

\* A request leaves the handlers, the other requests and the other runs alone.
LEMMA RequestSteps ==
  ASSUME WellTyped, NEW u \in User, (\E q \in RunId : Approve(u, q)) \/ UserStep(u)
  PROVE  /\ job' = job /\ raced' = raced
         /\ \A v \in User \ {u} : request'[v] = request[v]
         /\ \A m \in Message : m.type = "email_assistant" => queue'[m] = queue[m]
         /\ \A r \in RunId : request[u].run # r \/ request[u].pc = "idle" =>
              runs'[r] = runs[r] /\ replies'[r] = replies[r]
  <1>0. request \in [User -> Request] /\ queue \in [Message -> Nat]
        /\ runs \in [RunId -> Run] /\ replies \in [RunId -> Nat]
    BY DEF WellTyped, RequestsTyped, RunsTyped, RestTyped
  <1>1. CASE \E q \in RunId : Approve(u, q)
    BY <1>0, <1>1 DEF Approve, tables, history
  <1>2. CASE LoadDraft(u, "edit", "save_draft") \/ LoadDraft(u, "send", "publish")
    BY <1>0, <1>2 DEF LoadDraft, Answered, tables, history
  <1>3. CASE SaveDraft(u)
    BY <1>0, <1>3 DEF SaveDraft, Ask, history
  <1>4. CASE PublishApproved(u)
    <2>1. Reply(request[u].run, request[u].snap.email, request[u].snap.draft).type =
            "email_workflow_reply"
      BY DEF Reply
    <2>2. \A m \in Message : m.type = "email_assistant" => queue'[m] = queue[m]
      BY <1>0, <1>4, <2>1 DEF PublishApproved, Publish
    <2> QED
      BY <1>0, <1>4, <2>2 DEF PublishApproved, Ask, tables
  <1>5. CASE CompleteApproved(u)
    BY <1>0, <1>5 DEF CompleteApproved, Answered, history
  <1> QED
    BY <1>1, <1>2, <1>3, <1>4, <1>5 DEF UserStep

LEMMA RequestFresh ==
  ASSUME WellTyped, NEW u \in User, NEW r \in RunId, Fresh(r),
         (\E q \in RunId : Approve(u, q)) \/ UserStep(u)
  PROVE  Fresh(r)'
  <1>0. request \in [User -> Request] /\ runs \in [RunId -> Run] /\ runs[r] \in Run
    BY DEF WellTyped, RequestsTyped, RunsTyped
  <1>1. /\ job' = job
        /\ \A v \in User \ {u} : request'[v] = request[v]
        /\ \A m \in Message : m.type = "email_assistant" => queue'[m] = queue[m]
        /\ \A q \in RunId : request[u].run # q \/ request[u].pc = "idle" =>
             runs'[q] = runs[q] /\ replies'[q] = replies[q]
    BY RequestSteps
  <1>2. CASE runs[r].status = "absent"
    <2>1. Unheard(r)
      BY <1>2 DEF Fresh
    <2>2. runs'[r] = runs[r] /\ replies'[r] = 0
      BY <1>1, <2>1 DEF Unheard
    <2>3. request'[u].run # r
      <3>1. CASE \E q \in RunId : Approve(u, q)
        BY <1>0, <1>2, <3>1 DEF Approve, Exists
      <3>2. CASE UserStep(u)
        <4>1. request'[u].run \in {request[u].run, None}
          BY <1>0, <3>2 DEF UserStep, LoadDraft, SaveDraft, PublishApproved, CompleteApproved,
                            Answered, Ask, NoRequest, Request
        <4> QED
          BY <2>1, <4>1, ConstantsAssumption DEF Unheard
      <3> QED
        BY <3>1, <3>2
    <2>4. Unheard(r)'
      BY <1>1, <2>1, <2>2, <2>3 DEF Unheard
    <2> QED
      BY <1>2, <2>2, <2>4 DEF Fresh
  <1>3. CASE runs[r].status = "deleted"
    <2>1. runs'[r] = runs[r]
      <3>1. CASE request[u].run # r \/ request[u].pc = "idle"
        BY <1>1, <3>1
      <3>2. CASE request[u].run = r /\ request[u].pc # "idle"
        BY <1>3, <3>2 DEF UserStep, Approve, LoadDraft, SaveDraft, PublishApproved, CompleteApproved,
                          Exists, tables
      <3> QED
        BY <3>1, <3>2
    <2> QED
      BY <1>3, <2>1 DEF Fresh
  <1>4. CASE runs[r].status \notin {"absent", "deleted"}
    <2>1. runs'[r].status \notin {"absent", "deleted"}
      <3>1. CASE request[u].run # r \/ request[u].pc = "idle"
        BY <1>1, <1>4, <3>1
      <3>2. CASE SaveDraft(u) /\ request[u].run = r
        BY <1>0, <1>4, <3>2 DEF SaveDraft, Run
      <3>3. CASE CompleteApproved(u) /\ request[u].run = r
        BY <1>0, <1>4, <3>3 DEF CompleteApproved, Run
      <3>4. CASE runs' = runs
        BY <1>4, <3>4
      <3> QED
        BY <3>1, <3>2, <3>3, <3>4 DEF UserStep, Approve, LoadDraft, PublishApproved, tables
    <2> QED
      BY <2>1 DEF Fresh
  <1> QED
    BY <1>2, <1>3, <1>4

LEMMA RequestTended ==
  ASSUME WellTyped, NEW u \in User, NEW r \in RunId, Tended(r),
         (\E q \in RunId : Approve(u, q)) \/ UserStep(u)
  PROVE  Tended(r)'
  <1>0. /\ request \in [User -> Request] /\ runs \in [RunId -> Run] /\ replies \in [RunId -> Nat]
        /\ request[u] \in Request /\ runs[r] \in Run /\ RequestOK(request[u])
    BY DEF WellTyped, RequestsTyped, RunsTyped, RestTyped
  <1>1. /\ job' = job
        /\ \A v \in User \ {u} : request'[v] = request[v]
        /\ \A q \in RunId : request[u].run # q \/ request[u].pc = "idle" =>
             runs'[q] = runs[q] /\ replies'[q] = replies[q]
    BY RequestSteps
  <1>2. /\ \A v \in User : request[v].run = r => RequestTied(request[v], runs[r])
        /\ runs[r].status = "awaiting_action" =>
             runs[r].draft # None /\ runs[r].category \in Category
    BY DEF Tended, RunTended
  <1>3. ASSUME runs'[r] = runs[r], replies'[r] = replies[r],
               request'[u].run = r => RequestTied(request'[u], runs[r])
        PROVE  Tended(r)'
    <2>1. \A v \in User : request'[v].run = r => RequestTied(request'[v], runs[r])
      BY <1>1, <1>2, <1>3
    <2> QED
      BY <1>1, <1>3, <2>1, Untouched
  <1>4. CASE \E q \in RunId : Approve(u, q)
    <2>1. /\ runs'[r] = runs[r] /\ replies'[r] = replies[r]
          /\ request'[u].pc \in {"edit", "send"}
      BY <1>0, <1>4 DEF Approve, tables, history
    <2> QED
      BY <1>3, <2>1 DEF RequestTied
  <1>5. CASE UserStep(u) /\ request[u].run # r
    <2>1. request'[u].run \in {request[u].run, None}
      BY <1>0, <1>5 DEF UserStep, LoadDraft, SaveDraft, PublishApproved, CompleteApproved,
                        Answered, Ask, NoRequest, Request
    <2> QED
      BY <1>1, <1>3, <1>5, <2>1, ConstantsAssumption
  <1>6. CASE LoadDraft(u, "edit", "save_draft") /\ request[u].run = r
    <2>1. /\ runs'[r] = runs[r] /\ replies'[r] = replies[r]
          /\ \/ request'[u].run = None
             \/ /\ request'[u].pc = "save_draft" /\ request'[u].snap = runs[r]
                /\ runs[r].status = "awaiting_action"
      BY <1>0, <1>6 DEF LoadDraft, Answered, HasDraftToSend, NoRequest, Request, tables, history
    <2> QED
      BY <1>2, <1>3, <2>1, ConstantsAssumption DEF RequestTied
  <1>7. CASE LoadDraft(u, "send", "publish") /\ request[u].run = r
    <2>1. /\ runs'[r] = runs[r] /\ replies'[r] = replies[r]
          /\ \/ request'[u].run = None
             \/ request'[u].pc = "publish" /\ runs[r].status = "awaiting_action"
      BY <1>0, <1>7 DEF LoadDraft, Answered, HasDraftToSend, NoRequest, Request, tables, history
    <2> QED
      BY <1>3, <2>1, ConstantsAssumption DEF RequestTied
  <1>8. CASE SaveDraft(u) /\ request[u].run = r
    <2>1. request[u].snap.category \in Category
      BY <1>2, <1>8 DEF SaveDraft, RequestTied
    <2>2. /\ request'[u].pc = "send" /\ replies'[r] = replies[r]
          /\ runs'[r].workflow = runs[r].workflow /\ runs'[r].status = runs[r].status
          /\ runs'[r].currentStep = runs[r].currentStep
      BY <1>0, <1>8 DEF SaveDraft, Ask, Request, Run, history
    <2>3. runs'[r].status = "awaiting_action" =>
            runs'[r].category = request[u].snap.category /\ runs'[r].draft = u
      BY <1>0, <1>8, <2>2 DEF SaveDraft, Exists, Run
    <2>4. \A v \in User : request'[v].run = r => RequestTied(request'[v], runs'[r])
      BY <1>1, <1>2, <2>2 DEF RequestTied
    <2> QED
      BY <1>1, <2>1, <2>2, <2>3, <2>4, ConstantsAssumption, AnsweringTended
  <1>9. CASE PublishApproved(u) /\ request[u].run = r
    <2>1. /\ runs'[r] = runs[r] /\ request'[u].pc = "complete"
          /\ runs[r].status \in {"awaiting_action", "completed", "deleted"}
      BY <1>0, <1>2, <1>9 DEF PublishApproved, Ask, Request, RequestTied, tables
    <2>2. \A v \in User : request'[v].run = r => RequestTied(request'[v], runs'[r])
      BY <1>1, <1>2, <2>1 DEF RequestTied
    <2> QED
      BY <1>1, <1>2, <2>1, <2>2, AnsweringTended
  <1>10. CASE CompleteApproved(u) /\ request[u].run = r
    <2>1. runs[r].status \in {"awaiting_action", "completed", "deleted"}
      BY <1>2, <1>10 DEF CompleteApproved, RequestTied
    <2>2. request'[u].run = None /\ replies'[r] = replies[r]
      BY <1>0, <1>10 DEF CompleteApproved, Answered, NoRequest, history
    <2>3. CASE runs[r].status = "deleted"
      <3>1. runs'[r] = runs[r]
        BY <1>10, <2>3 DEF CompleteApproved, Exists
      <3> QED
        BY <1>3, <2>2, <3>1, ConstantsAssumption
    <2>4. CASE runs[r].status \in {"awaiting_action", "completed"}
      <3>1. /\ runs'[r].status = "completed" /\ runs'[r].workflow = runs[r].workflow
            /\ runs'[r].currentStep = runs[r].currentStep
        BY <1>0, <1>10, <2>4 DEF CompleteApproved, Exists, Run
      <3>2. \A v \in User : request'[v].run = r => RequestTied(request'[v], runs'[r])
        BY <1>1, <1>2, <2>2, <3>1, ConstantsAssumption DEF RequestTied
      <3> QED
        BY <1>1, <2>2, <2>4, <3>1, <3>2, AnsweringTended
    <2> QED
      BY <2>1, <2>3, <2>4
  <1> QED
    BY <1>4, <1>5, <1>6, <1>7, <1>8, <1>9, <1>10 DEF UserStep

LEMMA RequestKeeps ==
  ASSUME WellTyped, RunInv, NEW u \in User, (\E q \in RunId : Approve(u, q)) \/ UserStep(u)
  PROVE  RunInv'
  <1>1. job' = job /\ raced' = raced
    BY RequestSteps
  <1>2. HeldBusy'
    BY <1>1 DEF RunInv, HeldBusy
  <1>3. ASSUME NEW r \in RunId PROVE Fresh(r)'
    BY RequestFresh DEF RunInv
  <1>4. ASSUME NEW r \in RunId, r \notin raced' PROVE Tended(r)'
    BY <1>1, <1>4, RequestTended DEF RunInv
  <1> QED
    BY <1>2, <1>3, <1>4 DEF RunInv

-----------------------------------------------------------------------------
(* The surroundings *)

\* No delivery of a run nobody has heard of can come back.
LEMMA ReturnedQuiet ==
  ASSUME WellTyped, RunInv, NEW r \in RunId, Unheard(r),
         NEW m \in Message, m.type = "email_assistant", m.run = r
  PROVE  Returned[m] = 0
  <1> DEFINE S == {w \in Worker : job[w].held /\ job[w].msg = m}
  <1>1. S = {}
    BY DEF RunInv, HeldBusy, Unheard, Deals
  <1>2. queue[m] = 0
    BY DEF Unheard
  <1>3. Returned[m] = queue[m] + Cardinality(S)
    BY DEF Returned
  <1> HIDE DEF S
  <1>4. Cardinality(S) = 0
    BY <1>1, FS_EmptySet
  <1> QED
    BY <1>2, <1>3, <1>4

LEMMA FaultsKeep ==
  ASSUME WellTyped, RunInv, Crash \/ Reconnect
  PROVE  RunInv'
  <1>0. /\ job \in [Worker -> Job] /\ raced' = raced /\ runs' = runs /\ replies' = replies
        /\ queue' = Returned
    BY DEF WellTyped, JobsTyped, Crash, Reconnect, tables, history
  <1>1. \A w \in Worker :
          \/ job'[w] = Idle
          \/ job'[w].pc = job[w].pc /\ job'[w].msg = job[w].msg /\ job'[w].snap = job[w].snap
             /\ job'[w].run = job[w].run /\ ~ job'[w].held
    BY <1>0 DEF Crash, Reconnect, Job
  <1>2. \A u \in User : request'[u] = NoRequest \/ request'[u] = request[u]
    BY DEF Crash, Reconnect
  <1>3. HeldBusy'
    BY <1>1 DEF HeldBusy, Idle
  <1>4. ASSUME NEW r \in RunId
        PROVE  \A w \in Worker : Deals(job'[w], r) =>
                  /\ Deals(job[w], r)
                  /\ job'[w].pc = job[w].pc /\ job'[w].snap = job[w].snap
    BY <1>1 DEF Deals, Idle
  <1>5. ASSUME NEW r \in RunId
        PROVE  \A u \in User : request'[u].run = r => request[u].run = r /\ request'[u] = request[u]
    BY <1>2, ConstantsAssumption DEF NoRequest
  <1>6. ASSUME NEW r \in RunId
        PROVE  Fresh(r)'
    <2>0. Fresh(r)
      BY DEF RunInv
    <2>1. CASE runs[r].status = "absent"
      <3>1. Unheard(r)
        BY <2>0, <2>1 DEF Fresh
      <3>2. \A m \in Message : m.type = "email_assistant" /\ m.run = r => queue'[m] = 0
        BY <1>0, <3>1, ReturnedQuiet
      <3>3. \A w \in Worker : job'[w].pc = "publish_run" => job'[w].run # r
        BY <1>1, <3>1 DEF Unheard, Idle
      <3>4. Unheard(r)'
        BY <1>0, <1>4, <1>5, <3>1, <3>2, <3>3 DEF Unheard
      <3> QED
        BY <1>0, <2>0, <3>4 DEF Fresh
    <2>2. CASE runs[r].status # "absent"
      BY <1>0, <2>0, <2>2 DEF Fresh
    <2> QED
      BY <2>1, <2>2
  <1>7. ASSUME NEW r \in RunId, r \notin raced'
        PROVE  Tended(r)'
    <2>0. Tended(r)
      BY <1>0, <1>7 DEF RunInv
    <2>1. \A u \in User : request'[u].run = r => RequestTied(request'[u], runs[r])
      BY <1>5, <2>0 DEF Tended
    <2> QED
      BY <1>0, <1>4, <2>0, <2>1, Untouched
  <1> QED
    BY <1>3, <1>6, <1>7 DEF RunInv

LEMMA RestKeeps ==
  ASSUME WellTyped, RunInv,
         (\E c \in Category : EditCategory(c)) \/ DeleteRuns \/ DeleteEmails \/ UNCHANGED vars
  PROVE  RunInv'
  <1>0. /\ job' = job /\ raced' = raced /\ request' = request /\ queue' = queue
        /\ replies' = replies
    BY DEF EditCategory, DeleteRuns, DeleteEmails, vars, tables, history
  <1>1. \A r \in RunId :
          \/ runs'[r] = runs[r]
          \/ runs[r].status # "absent" /\ runs'[r].status = "deleted" /\ runs'[r].workflow = None
    BY DEF EditCategory, DeleteRuns, DeleteEmails, vars, tables, NoRun, Exists
  <1>2. ASSUME NEW r \in RunId
        PROVE  Fresh(r)'
    <2>0. Fresh(r)
      BY DEF RunInv
    <2>1. CASE runs'[r] = runs[r]
      <3>1. Unheard(r) => Unheard(r)'
        BY <1>0 DEF Unheard
      <3> QED
        BY <2>0, <2>1, <3>1 DEF Fresh
    <2>2. CASE runs'[r].status = "deleted" /\ runs'[r].workflow = None
      BY <2>2 DEF Fresh
    <2> QED
      BY <1>1, <2>1, <2>2
  <1>3. ASSUME NEW r \in RunId, r \notin raced'
        PROVE  Tended(r)'
    <2>0. Tended(r)
      BY <1>0, <1>3 DEF RunInv
    <2>1. CASE runs'[r] = runs[r]
      BY <1>0, <2>0, <2>1 DEF Tended
    <2>2. CASE runs'[r].status = "deleted"
      <3>1. \A w \in Worker : Deals(job[w], r) => WorkerOK(job[w], runs'[r], replies[r])
        BY <2>0, <2>2 DEF Tended, WorkerOK
      <3>2. \A u \in User : request[u].run = r => RequestTied(request[u], runs'[r])
        BY <2>0, <2>2 DEF Tended, RequestTied
      <3>3. RunTended(runs'[r], replies[r])
        BY <2>2 DEF RunTended
      <3> QED
        BY <1>0, <2>0, <3>1, <3>2, <3>3 DEF Tended
    <2> QED
      BY <1>1, <2>1, <2>2
  <1>4. HeldBusy'
    BY <1>0 DEF RunInv, HeldBusy
  <1> QED
    BY <1>2, <1>3, <1>4 DEF RunInv

LEMMA NextKeeps ==
  ASSUME WellTyped, RunInv, [Next]_vars
  PROVE  RunInv'
  <1>1. CASE \E w \in Worker, m \in Message : Receive(w, m)
    BY <1>1, ReceiveKeeps
  <1>2. CASE \E w \in Worker : WorkerStep(w) \/ SendGmail(w) \/ RefuseGmail(w)
    BY <1>2, WorkerKeeps
  <1>3. CASE \E u \in User : (\E q \in RunId : Approve(u, q)) \/ UserStep(u)
    BY <1>3, RequestKeeps
  <1>4. CASE Crash \/ Reconnect
    BY <1>4, FaultsKeep
  <1>5. CASE (\E c \in Category : EditCategory(c)) \/ DeleteRuns \/ DeleteEmails \/ UNCHANGED vars
    BY <1>5, RestKeeps
  <1> QED
    BY <1>1, <1>2, <1>3, <1>4, <1>5 DEF Next

LEMMA InitKept == Init => RunInv
  <1> SUFFICES ASSUME Init PROVE RunInv
    OBVIOUS
  <1>1. \A r \in RunId : runs[r] = NoRun /\ replies[r] = 0
    BY DEF Init
  <1>2. /\ \A w \in Worker : job[w] = Idle
        /\ \A u \in User : request[u] = NoRequest
        /\ \A m \in Message : m.type = "email_assistant" => queue[m] = 0
    BY DEF Init
  <1>3. HeldBusy
    BY <1>2 DEF HeldBusy, Idle
  <1>4. ASSUME NEW r \in RunId PROVE Fresh(r)
    <2>1. Unheard(r)
      BY <1>1, <1>2, ConstantsAssumption DEF Unheard, Deals, Idle, NoRequest
    <2> QED
      BY <1>1, <2>1 DEF Fresh, NoRun
  <1>5. ASSUME NEW r \in RunId PROVE Tended(r)
    <2>1. /\ \A w \in Worker : ~ Deals(job[w], r)
          /\ \A u \in User : request[u].run # r
      BY <1>2, ConstantsAssumption DEF Deals, Idle, NoRequest
    <2>2. RunTended(runs[r], replies[r])
      <3>1. runs[r].status = "absent"
        BY <1>1 DEF NoRun
      <3> QED
        BY <3>1 DEF RunTended
    <2> QED
      BY <2>1, <2>2 DEF Tended
  <1> QED
    BY <1>3, <1>4, <1>5 DEF RunInv

LEMMA AlwaysKept == Spec => [](WellTyped /\ RunInv)
  <1>1. Init => WellTyped /\ RunInv
    BY InitTyped, InitKept
  <1>2. WellTyped /\ RunInv /\ [Next]_vars => (WellTyped /\ RunInv)'
    BY NextTyped, NextKeeps
  <1> QED
    BY <1>1, <1>2, PTL DEF Spec

-----------------------------------------------------------------------------
(* What a run promises *)

\* Whoever is asked for an approval sees the draft and its category, whatever
\* was retried before, unless two deliveries worked on the run at once.
THEOREM DraftsAwait == Spec => []AwaitingHasDraft
  <1>1. RunInv => AwaitingHasDraft
    BY DEF RunInv, Tended, RunTended, AwaitingHasDraft
  <1> QED
    BY <1>1, AlwaysKept, PTL

\* No retry and no approval answers an email that matched no category.
THEOREM SkippedStaySilent == Spec => []SkippedNeverReplied
  <1>1. RunInv => SkippedNeverReplied
    BY DEF RunInv, Tended, RunTended, SkippedNeverReplied
  <1> QED
    BY <1>1, AlwaysKept, PTL

\* Where an approval is asked for, no reply exists before the run waits for it,
\* whichever of its deliveries has got how far.
THEOREM ApprovalFirst == Spec => []ApprovalComesFirst
  <1>1. WellTyped /\ RunInv => ApprovalComesFirst
    <2> SUFFICES ASSUME WellTyped, RunInv, NEW r \in RunId, r \notin raced,
                        runs[r].workflow \in ApproveFirst, replies[r] > 0
                 PROVE  runs[r].status \in {"awaiting_action", "completed"}
      BY DEF ApprovalComesFirst
    <2>1. replies[r] # 0
      BY DEF WellTyped, RestTyped
    <2>2. runs[r].status \notin {"absent", "deleted"}
      BY ConstantsAssumption DEF RunInv, Fresh
    <2>3. runs[r].status \notin {"pending", "skipped"}
      BY <2>1 DEF RunInv, Tended, RunTended
    <2> QED
      BY <2>2, <2>3 DEF WellTyped, RunsTyped, Run
  <1> QED
    BY <1>1, AlwaysKept, PTL

-----------------------------------------------------------------------------
(* The status of a run follows RunLifecycle *)

\* The steps a handler or a request may make of one run.
LEMMA OneMoves ==
  ASSUME NEW r \in RunId, raced' = raced,
         \A q \in RunId \ {r} : runs'[q].status = runs[q].status,
         \/ r \in raced
         \/ runs'[r].status = runs[r].status
         \/ runs[r].status = "absent" /\ runs'[r].status = "pending"
         \/ runs[r].status = "pending" /\
              runs'[r].status \in {"awaiting_action", "completed", "skipped"}
         \/ runs[r].status = "awaiting_action" /\ runs'[r].status = "completed"
  PROVE  [Lifecycle!LifecycleNext]_statusBar
  <1>1. CASE r \in raced \/ runs'[r].status = runs[r].status
    <2>1. \A q \in RunId : statusBar'[q] = statusBar[q]
      BY <1>1 DEF statusBar
    <2>2. statusBar' = statusBar
      BY <2>1 DEF statusBar
    <2> QED
      BY <2>2
  <1>2. CASE r \notin raced /\ runs'[r].status # runs[r].status
    <2> DEFINE s == runs'[r].status
    <2>1. statusBar[r] = runs[r].status /\ statusBar'[r] = s
      BY <1>2 DEF statusBar
    <2>2. s \in Lifecycle!Status /\ <<statusBar[r], s>> \in Lifecycle!Allowed
      BY <1>2, <2>1 DEF Lifecycle!Status, Lifecycle!Allowed
    <2>3. \A q \in RunId \ {r} : statusBar'[q] = statusBar[q]
      BY DEF statusBar
    <2>4. statusBar' = [statusBar EXCEPT ![r] = s]
      BY <2>1, <2>3 DEF statusBar
    <2>5. Lifecycle!Advance(r)
      BY <2>2, <2>4 DEF Lifecycle!Advance
    <2> QED
      BY <2>5 DEF Lifecycle!LifecycleNext
  <1> QED
    BY <1>1, <1>2

\* A second delivery takes up a run that is being worked on.
LEMMA ReceiveMaps ==
  ASSUME WellTyped, RunInv, NEW w \in Worker, NEW m \in Message, Receive(w, m)
  PROVE  [Lifecycle!LifecycleNext]_statusBar
  <1>0. runs' = runs
    BY DEF Receive, tables
  <1>1. CASE raced' = raced
    BY <1>0, <1>1 DEF statusBar
  <1>2. CASE raced' # raced
    <2>1. /\ m.type = "email_assistant" /\ m.run \in RunId /\ raced' = raced \cup {m.run}
          /\ m.run \notin raced /\ queue[m] # 0
      BY <1>2, Messages DEF Receive, Queued
    <2>2. runs[m.run].status # "absent"
      BY <2>1 DEF RunInv, Fresh, Unheard
    <2>3. statusBar[m.run] = runs[m.run].status
      BY <2>1 DEF statusBar
    <2>4. runs[m.run].status \in Lifecycle!Status
      BY <2>1 DEF WellTyped, RunsTyped, Run, Lifecycle!Status
    <2>5. "disputed" \in Lifecycle!Status /\ <<statusBar[m.run], "disputed">> \in Lifecycle!Allowed
      BY <2>2, <2>3, <2>4 DEF Lifecycle!Status, Lifecycle!Allowed
    <2>6. statusBar' = [statusBar EXCEPT ![m.run] = "disputed"]
      BY <1>0, <2>1 DEF statusBar
    <2>7. Lifecycle!Advance(m.run)
      BY <2>5, <2>6 DEF Lifecycle!Advance
    <2> QED
      BY <2>1, <2>7 DEF Lifecycle!LifecycleNext
  <1> QED
    BY <1>1, <1>2

LEMMA WorkerMaps ==
  ASSUME WellTyped, RunInv, NEW w \in Worker, WorkerStep(w) \/ SendGmail(w) \/ RefuseGmail(w)
  PROVE  [Lifecycle!LifecycleNext]_statusBar
  <1>0. runs \in [RunId -> Run] /\ JobsTyped /\ raced' = raced
    BY HandlerSteps DEF WellTyped, RunsTyped
  <1>1. CASE runs' = runs
    BY <1>0, <1>1 DEF statusBar
  <1>2. ASSUME NEW r \in RunId, InsertRun(w, r)
        PROVE  [Lifecycle!LifecycleNext]_statusBar
    <2>1. /\ \A q \in RunId \ {r} : runs'[q] = runs[q]
          /\ runs[r].status = "absent" /\ runs'[r].status = "pending"
      BY <1>0, <1>2 DEF InsertRun, NoRun
    <2> QED
      BY <1>0, <2>1, OneMoves
  <1>3. CASE Categorize(w)
    <2>1. PICK x \in Category \cup {NoMatch} :
            \/ runs' = [runs EXCEPT ![job[w].msg.run].currentStep = "Categorize Email",
                                   ![job[w].msg.run].category = x,
                                   ![job[w].msg.run].draft = None]
            \/ runs' = runs
      BY <1>3 DEF Categorize
    <2>2. ASSUME NEW q \in RunId
          PROVE  runs'[q].status = runs[q].status
      <3>1. CASE q = job[w].msg.run
        <4>1. runs[q] \in Run
          BY <1>0
        <4>2. \/ runs'[q] = [runs[q] EXCEPT !.currentStep = "Categorize Email", !.category = x,
                                           !.draft = None]
              \/ runs'[q] = runs[q]
          BY <1>0, <2>1, <3>1
        <4> QED
          BY <4>1, <4>2 DEF Run
      <3>2. CASE q # job[w].msg.run
        BY <1>0, <2>1, <3>2
      <3> QED
        BY <3>1, <3>2
    <2>3. statusBar' = statusBar
      BY <1>0, <2>2 DEF statusBar
    <2> QED
      BY <2>3
  <1>4. CASE (Skip(w) \/ Explain(w) \/ Record(w)) /\ runs' # runs
    <2> DEFINE r == job[w].msg.run
    <2>1. /\ job[w].pc \in {"skip", "explain", "record"} /\ Exists(r)
          /\ \A q \in RunId \ {r} : runs'[q] = runs[q]
      BY <1>0, <1>4 DEF Skip, Explain, Record
    <2>2. r \in RunId /\ Deals(job[w], r)
      BY <1>0, <2>1, Busy DEF StepsOf, Deals
    <2>3. r \notin raced => runs[r].status = "pending"
      BY <2>1, <2>2 DEF RunInv, Tended, WorkerOK, Deciding, Exists
    <2>4. runs'[r].status \in {"awaiting_action", "completed", "skipped"}
      <3>0. runs[r] \in Run
        BY <1>0, <2>2
      <3>1. CASE Skip(w)
        <4>1. runs'[r] = [runs[r] EXCEPT !.status = "skipped", !.explanation = "no_category"]
          BY <1>0, <2>1, <2>2, <3>1 DEF Skip
        <4> QED
          BY <3>0, <4>1 DEF Run
      <3>2. CASE Explain(w)
        <4>1. runs'[r] = [runs[r] EXCEPT !.status = "completed", !.explanation = "no_resources"]
          BY <1>0, <2>1, <2>2, <3>2 DEF Explain
        <4> QED
          BY <3>0, <4>1 DEF Run
      <3>3. CASE Record(w)
        <4>1. PICK x \in {"awaiting_action", "completed"} :
                runs'[r] = [runs[r] EXCEPT !.status = x, !.currentStep = "Reply Email",
                                           !.category = job[w].snap.category,
                                           !.draft = "generated"]
          BY <1>0, <2>1, <2>2, <3>3 DEF Record
        <4> QED
          BY <3>0, <4>1 DEF Run
      <3> QED
        BY <1>4, <3>1, <3>2, <3>3
    <2> QED
      BY <1>0, <2>1, <2>2, <2>3, <2>4, OneMoves
  <1>5. \/ runs' = runs \/ Categorize(w) \/ Skip(w) \/ Explain(w) \/ Record(w)
        \/ \E r \in RunId : InsertRun(w, r)
    BY DEF WorkerStep, FindEmail, FindRun, LinkEmail, PublishRun, Load, Reload, FindCategory,
           PublishReply, RouteReply, SendGmail, RefuseGmail, Ack, tables
  <1> QED
    BY <1>1, <1>2, <1>3, <1>4, <1>5

LEMMA RequestMaps ==
  ASSUME WellTyped, RunInv, NEW u \in User, (\E q \in RunId : Approve(u, q)) \/ UserStep(u)
  PROVE  [Lifecycle!LifecycleNext]_statusBar
  <1> DEFINE r == request[u].run
  <1>0. /\ runs \in [RunId -> Run] /\ raced' = raced
        /\ request[u].pc # "idle" => r \in RunId
    BY RequestSteps DEF WellTyped, RunsTyped, RequestsTyped, RequestOK
  <1>1. CASE runs' = runs
    BY <1>0, <1>1 DEF statusBar
  <1>2. CASE SaveDraft(u)
    <2>0. r \in RunId
      BY <1>0, <1>2 DEF SaveDraft
    <2>1. ASSUME NEW q \in RunId
          PROVE  runs'[q].status = runs[q].status
      <3>1. \/ runs'[q] = [runs[q] EXCEPT !.category = request[u].snap.category, !.draft = u]
            \/ runs'[q] = runs[q]
        BY <1>0, <1>2, <2>0 DEF SaveDraft
      <3>2. runs[q] \in Run
        BY <1>0
      <3> QED
        BY <3>1, <3>2 DEF Run
    <2>2. statusBar' = statusBar
      BY <1>0, <2>1 DEF statusBar
    <2> QED
      BY <2>2
  <1>3. CASE CompleteApproved(u) /\ runs' # runs
    <2>1. r \in RunId /\ request[u].pc = "complete" /\ Exists(r)
      BY <1>0, <1>3 DEF CompleteApproved
    <2>2. r \notin raced => runs[r].status \in {"awaiting_action", "completed"}
      BY <2>1 DEF RunInv, Tended, RequestTied, Exists
    <2>3. /\ \A q \in RunId \ {r} : runs'[q] = runs[q]
          /\ runs'[r] = [runs[r] EXCEPT !.status = "completed",
                                       !.category = request[u].snap.category,
                                       !.draft = request[u].snap.draft]
      BY <1>0, <1>3, <2>1 DEF CompleteApproved
    <2>4. runs[r] \in Run
      BY <1>0, <2>1
    <2>5. runs'[r].status = "completed"
      BY <2>3, <2>4 DEF Run
    <2> QED
      BY <1>0, <2>1, <2>2, <2>3, <2>5, OneMoves
  <1> QED
    BY <1>1, <1>2, <1>3 DEF UserStep, Approve, LoadDraft, PublishApproved, tables

\* Disconnecting removes the undisputed ones of the runs it deletes.
LEMMA DeleteMaps ==
  ASSUME WellTyped, DeleteRuns
  PROVE  [Lifecycle!LifecycleNext]_statusBar
  <1> DEFINE doomed == {r \in RunId : Exists(r) /\ \E e \in Email : rows[e].stored /\ rows[e].run = r}
             S == doomed \ raced
  <1>1. /\ raced' = raced
        /\ runs' = [r \in RunId |-> IF r \in doomed THEN [NoRun EXCEPT !.status = "deleted"]
                                                     ELSE runs[r]]
    BY DEF DeleteRuns, history
  <1>2. ASSUME NEW r \in S
        PROVE  statusBar[r] \notin {"absent", "disputed"}
    <2>1. r \in RunId /\ r \notin raced /\ Exists(r)
      OBVIOUS
    <2>2. runs[r].status # "disputed"
      BY <2>1 DEF WellTyped, RunsTyped, Run
    <2> QED
      BY <2>1, <2>2 DEF statusBar, Exists
  <1>3. ASSUME NEW r \in RunId
        PROVE  statusBar'[r] = IF r \in S THEN "deleted" ELSE statusBar[r]
    <2>1. CASE r \in raced
      BY <1>1, <2>1 DEF statusBar
    <2>2. CASE r \notin raced /\ r \in doomed
      <3>1. runs'[r].status = "deleted"
        <4>1. runs'[r] = [NoRun EXCEPT !.status = "deleted"]
          BY <1>1, <2>2
        <4> QED
          BY <4>1 DEF NoRun
      <3>2. r \in S /\ r \notin raced'
        BY <1>1, <2>2
      <3> HIDE DEF S
      <3> QED
        BY <3>1, <3>2 DEF statusBar
    <2>3. CASE r \notin raced /\ r \notin doomed
      <3>1. runs'[r] = runs[r]
        BY <1>1, <2>3
      <3> QED
        BY <1>1, <2>3, <3>1 DEF statusBar
    <2> QED
      BY <2>1, <2>2, <2>3
  <1>4. S \in SUBSET RunId
    OBVIOUS
  <1> HIDE DEF doomed, S
  <1>5. statusBar' = [r \in RunId |-> IF r \in S THEN "deleted" ELSE statusBar[r]]
    BY <1>3 DEF statusBar
  <1>6. Lifecycle!Remove(S)
    BY <1>2, <1>5 DEF Lifecycle!Remove
  <1> QED
    BY <1>4, <1>6 DEF Lifecycle!LifecycleNext

\* Whatever crashes, overlaps or is asked twice, a run moves only as the
\* product promises; from its dispute on, nothing is promised of it.
THEOREM RunsFollowLifecycle == Spec => RefinesLifecycle
  <1>1. Init => Lifecycle!LifecycleInit
    BY DEF Init, Lifecycle!LifecycleInit, statusBar, NoRun
  <1>2. WellTyped /\ RunInv /\ [Next]_vars => [Lifecycle!LifecycleNext]_statusBar
    <2> SUFFICES ASSUME WellTyped, RunInv, [Next]_vars
                 PROVE  [Lifecycle!LifecycleNext]_statusBar
      OBVIOUS
    <2>1. CASE \E w \in Worker, m \in Message : Receive(w, m)
      BY <2>1, ReceiveMaps
    <2>2. CASE \E w \in Worker : WorkerStep(w) \/ SendGmail(w) \/ RefuseGmail(w)
      BY <2>2, WorkerMaps
    <2>3. CASE \E u \in User : (\E q \in RunId : Approve(u, q)) \/ UserStep(u)
      BY <2>3, RequestMaps
    <2>4. CASE DeleteRuns
      BY <2>4, DeleteMaps
    <2>5. CASE \/ \E c \in Category : EditCategory(c)
               \/ DeleteEmails \/ Crash \/ Reconnect \/ UNCHANGED vars
      <3>1. runs' = runs /\ raced' = raced
        BY <2>5 DEF EditCategory, DeleteEmails, Crash, Reconnect, vars, tables, history
      <3> QED
        BY <3>1 DEF statusBar
    <2> QED
      BY <2>1, <2>2, <2>3, <2>4, <2>5 DEF Next
  <1> QED
    BY <1>1, <1>2, AlwaysKept, PTL DEF Spec, RefinesLifecycle, Lifecycle!LifecycleSpec
=============================================================================
