--------------------------- MODULE EmailAssistant ---------------------------
(***************************************************************************)
(* The email pipeline behind the broker: an incoming email that has been   *)
(* stored becomes one workflow run per linked workflow, each run is        *)
(* categorised, answered or left for approval, and the reply is routed to  *)
(* Gmail.  One action is one awaited call of a handler with the code that  *)
(* follows it up to the next await, so that everything the process does    *)
(* concurrently may interleave at the awaits.                              *)
(*                                                                         *)
(* RabbitMQ delivers at least once: a message leaves the queue when its    *)
(* handler resolves.  A crash of the process returns every unacknowledged  *)
(* message; a lost connection returns them while the handlers live on.     *)
(***************************************************************************)
EXTENDS Naturals, FiniteSets

CONSTANTS
  Email,        \* rows of user_incoming_emails stored by the Gmail intake
  Workflow,     \* the workflows linked to the connector of these emails
  NamedAsType,  \* workflows whose name is also a key of workflowConfigs
  ApproveFirst, \* workflows whose reply step has approveBeforeSending
  RunId,        \* ids of workflow_runs
  Category,     \* email categories of the team
  Worker,       \* deliveries the process may handle at the same time
  User,         \* members of the team who may approve a reply
  CanDisconnect, LlmMayFail, GmailMayFail, \* which failures may happen
  MaxCrashes, MaxReconnects, MaxEdits,     \* bounds on faults and edits
  None

ASSUME ConstantsAssumption ==
  /\ NamedAsType \subseteq Workflow
  /\ ApproveFirst \subseteq Workflow
  /\ {CanDisconnect, LlmMayFail, GmailMayFail} \subseteq BOOLEAN
  /\ IsFiniteSet(Worker) /\ IsFiniteSet(User)
  /\ MaxCrashes \in Nat /\ MaxReconnects \in Nat /\ MaxEdits \in Nat
  /\ None \notin Email \cup Workflow \cup RunId \cup Category \cup User
  /\ "no_match" \notin Category /\ "generated" \notin User /\ None # "generated"

VARIABLES
  rows,       \* user_incoming_emails: stored, and the run it points to
  runs,       \* workflow_runs
  category,   \* what the category table says of each category
  connector,  \* how far disconnecting the Gmail connector has come
  queue,      \* messages in the broker's queues, with multiplicity
  job,        \* what each worker is handling
  request,    \* the approval request each user has in flight
  crashes, reconnects, edits,
  replies,    \* history: EMAIL_WORKFLOW_REPLY messages published per run
  sent,       \* history: Gmail messages sent per run
  raced,      \* history: runs two deliveries have worked on at once
  abandoned   \* history: runs a handler gave up on in a caught error

tables  == <<rows, runs, category, connector>>
faults  == <<crashes, reconnects, edits>>
history == <<replies, sent, raced, abandoned>>
vars    == <<tables, queue, job, request, faults, history>>

-----------------------------------------------------------------------------
(* Records *)

NoMatch == "no_match"
Body    == {"generated"} \cup User

Run == [ workflow    : Workflow \cup {None},
         email       : Email \cup {None},
         status      : {"absent", "pending", "awaiting_action", "completed",
                        "skipped", "deleted"},
         currentStep : {"none", "Categorize Email", "Reply Email"},
         category    : Category \cup {None, NoMatch},
         draft       : Body \cup {None},
         explanation : {"none", "no_category", "no_resources"} ]

NoRun == [ workflow |-> None, email |-> None, status |-> "absent",
           currentStep |-> "none", category |-> None, draft |-> None,
           explanation |-> "none" ]

\* The payloads.  Replies carry no run id in the code; "run" records here
\* which run the reply was made for.
ProcessEmail(e)       == [type |-> "process_incoming_email", email |-> e]
Assist(r, e)          == [type |-> "email_assistant", run |-> r, email |-> e]
Reply(r, e, body)     == [type |-> "email_workflow_reply", run |-> r,
                          email |-> e, body |-> body]
GmailReply(r, e, body) == [type |-> "email_workflow_reply_gmail", run |-> r,
                           email |-> e, body |-> body]

Message ==
  [type : {"process_incoming_email"}, email : Email]
  \cup [type : {"email_assistant"}, run : RunId, email : Email]
  \cup [type : {"email_workflow_reply", "email_workflow_reply_gmail"},
        run : RunId, email : Email, body : Body]

Pc == {"idle", "find_email", "find_run", "insert_run", "link_email", "publish_run",
       "load", "categorize", "skip", "reload", "find_category",
       "explain", "publish_reply", "record", "route", "send", "done"}

Job == [ pc   : Pc,
         held : BOOLEAN,            \* the broker still waits for the ack
         msg  : Message \cup {None},
         run  : RunId \cup {None},
         snap : Run,                \* the run as this handler last read it
         todo : SUBSET Workflow ]

Idle == [pc |-> "idle", held |-> FALSE, msg |-> None, run |-> None,
         snap |-> NoRun, todo |-> {}]

Request == [ pc   : {"idle", "edit", "save_draft", "send", "publish", "complete"},
             run  : RunId \cup {None},
             snap : Run ]

NoRequest == [pc |-> "idle", run |-> None, snap |-> NoRun]

TypeOK ==
  /\ rows \in [Email -> [stored : BOOLEAN, run : RunId \cup {None}]]
  /\ runs \in [RunId -> Run]
  /\ category \in [Category -> {"missing", "bare", "resourced"}]
  /\ connector \in {"linked", "runs_deleted", "emails_deleted", "gone"}
  /\ queue \in [Message -> Nat]
  /\ job \in [Worker -> Job]
  /\ request \in [User -> Request]
  /\ crashes \in 0 .. MaxCrashes
  /\ reconnects \in 0 .. MaxReconnects
  /\ edits \in 0 .. MaxEdits
  /\ replies \in [RunId -> Nat]
  /\ sent \in [RunId -> Nat]
  /\ raced \subseteq RunId
  /\ abandoned \subseteq RunId

Init ==
  /\ rows = [e \in Email |-> [stored |-> TRUE, run |-> None]]
  /\ runs = [r \in RunId |-> NoRun]
  /\ category \in [Category -> {"bare", "resourced"}]
  /\ connector = "linked"
  /\ queue = [m \in Message |->
                IF m.type = "process_incoming_email" THEN 1 ELSE 0]
  /\ job = [w \in Worker |-> Idle]
  /\ request = [u \in User |-> NoRequest]
  /\ crashes = 0 /\ reconnects = 0 /\ edits = 0
  /\ replies = [r \in RunId |-> 0]
  /\ sent = [r \in RunId |-> 0]
  /\ raced = {} /\ abandoned = {}

-----------------------------------------------------------------------------
(* The broker, as a worker sees it *)

Exists(r) == runs[r].status \notin {"absent", "deleted"}

Publish(m) == queue' = [queue EXCEPT ![m] = @ + 1]

Goto(w, pc) == job' = [job EXCEPT ![w].pc = pc]

FirstStep(m) ==
  CASE m.type = "process_incoming_email"     -> "find_email"
    [] m.type = "email_assistant"            -> "load"
    [] m.type = "email_workflow_reply"       -> "route"
    [] m.type = "email_workflow_reply_gmail" -> "send"

Assisting(w, r) ==
  /\ job[w].pc # "idle"
  /\ job[w].msg.type = "email_assistant"
  /\ job[w].msg.run = r

Queued(m) == queue[m] > 0

\* A handler starts on a delivery.
Receive(w, m) ==
  /\ job[w].pc = "idle"
  /\ Queued(m)
  /\ queue' = [queue EXCEPT ![m] = @ - 1]
  /\ job' = [job EXCEPT ![w] = [Idle EXCEPT !.pc = FirstStep(m), !.held = TRUE,
                                            !.msg = m]]
  /\ raced' = IF m.type = "email_assistant" /\ \E v \in Worker : Assisting(v, m.run)
              THEN raced \cup {m.run} ELSE raced
  /\ UNCHANGED <<tables, request, faults, replies, sent, abandoned>>

\* The handler has resolved: the message is acknowledged.
Ack(w) ==
  /\ job[w].pc = "done"
  /\ job' = [job EXCEPT ![w] = Idle]
  /\ UNCHANGED <<tables, queue, request, faults, history>>

NackDropped(w) ==    \* faulty: the error is swallowed and the message dropped
  /\ job' = [job EXCEPT ![w] = Idle]
  /\ queue' = queue

\* The handler has thrown: the delivery goes back to its queue.
Nack(w) ==
  /\ job' = [job EXCEPT ![w] = Idle]
  /\ queue' = IF job[w].held THEN [queue EXCEPT ![job[w].msg] = @ + 1] ELSE queue

\* An error the handler catches and logs; the message will be acknowledged.
GiveUp(w, r) ==
  /\ Goto(w, "done")
  /\ abandoned' = abandoned \cup {r}

-----------------------------------------------------------------------------
(* PROCESS_INCOMING_EMAIL: one run per linked workflow *)

\* The email may be gone, with its connector; otherwise every workflow linked
\* to the connector is to be started.
FindEmail(w) ==
  /\ job[w].pc = "find_email"
  /\ IF rows[job[w].msg.email].stored /\ Workflow # {}
     THEN job' = [job EXCEPT ![w].pc = "find_run", ![w].todo = Workflow]
     ELSE Goto(w, "done")
  /\ UNCHANGED <<tables, queue, request, faults, history>>

RunsForNone(f, e) == {}    \* faulty: the context never matches a stored one
RunsFor(f, e) == {r \in RunId : Exists(r) /\ runs[r].workflow = f /\ runs[r].email = e}

\* createWorkflowRun looks for a run with the same context, whatever its
\* status; the workflows come in no particular order.
FindRun(w) ==
  /\ job[w].pc = "find_run"
  /\ \E f \in job[w].todo :
       LET found == RunsFor(f, job[w].msg.email) IN
       \/ /\ found = {}
          /\ job' = [job EXCEPT ![w].pc = "insert_run",
                                ![w].snap.workflow = f]
       \/ \E r \in found :
            job' = [job EXCEPT ![w].pc = "link_email", ![w].run = r,
                               ![w].snap.workflow = f]
  /\ UNCHANGED <<tables, queue, request, faults, history>>

InsertRun(w, r) ==
  /\ job[w].pc = "insert_run"
  /\ runs[r].status = "absent"
  /\ runs' = [runs EXCEPT ![r] = [NoRun EXCEPT !.workflow = job[w].snap.workflow,
                                               !.email = job[w].msg.email,
                                               !.status = "pending"]]
  /\ job' = [job EXCEPT ![w].pc = "link_email", ![w].run = r]
  /\ UNCHANGED <<rows, category, connector, queue, request, faults, history>>

\* The row is saved whole, which inserts it again when it has been deleted;
\* the foreign keys refuse that once the run or the connector is gone.
LinkEmail(w) ==
  LET e == job[w].msg.email
      r == job[w].run IN
  /\ job[w].pc = "link_email"
  /\ \/ /\ Exists(r) /\ connector # "gone"
        /\ rows' = [rows EXCEPT ![e] = [stored |-> TRUE, run |-> r]]
        /\ Goto(w, "publish_run")
        /\ UNCHANGED abandoned
     \/ /\ ~ (Exists(r) /\ connector # "gone")
        /\ GiveUp(w, r)
        /\ UNCHANGED rows
  /\ UNCHANGED <<runs, category, connector, queue, request, faults, replies, sent, raced>>

\* The queue is looked up under the workflow's name: workflowConfigs has no
\* such entry unless the name is also a workflow type, and the error ends the
\* loop with the remaining workflows not started.
PublishRun(w) ==
  LET f == job[w].snap.workflow
      rest == job[w].todo \ {f} IN
  /\ job[w].pc = "publish_run"
  /\ \/ /\ f \in NamedAsType
        /\ Publish(Assist(job[w].run, job[w].msg.email))
        /\ job' = [job EXCEPT ![w].pc = IF rest = {} THEN "done" ELSE "find_run",
                              ![w].todo = rest]
        /\ UNCHANGED abandoned
     \/ /\ f \notin NamedAsType
        /\ GiveUp(w, job[w].run)
        /\ UNCHANGED queue
  /\ UNCHANGED <<tables, request, faults, replies, sent, raced>>

-----------------------------------------------------------------------------
(* EMAIL_ASSISTANT: categorise, then answer *)

\* Where the handler goes after reading the run: nowhere unless it is pending.
\* A run that has vanished makes the handler fail on null.
AfterReadAnyway(r, next) == next    \* faulty: the status is not looked at
AfterRead(r, next) == IF runs[r].status = "pending" THEN next ELSE "done"

\* A run that was categorised before its handler died is not categorised again.
CategorizedNever(r) == FALSE    \* faulty: every run is
Categorized(r) == runs[r].currentStep = "Categorize Email"

Load(w) ==
  LET r == job[w].msg.run IN
  /\ job[w].pc = "load"
  /\ job' = [job EXCEPT
               ![w].snap = runs[r],
               ![w].pc = AfterRead(r, IF Categorized(r)
                                      THEN "find_category" ELSE "categorize")]
  /\ UNCHANGED <<tables, queue, request, faults, history>>

\* The model answers with one of the categories of the team or with none, or
\* the call fails and the error is caught.  The answer replaces the whole
\* stepsContext.
Categorize(w) ==
  LET r == job[w].msg.run
      e == job[w].msg.email IN
  /\ job[w].pc = "categorize"
  /\ \/ /\ rows[e].stored
        /\ \E answer \in {c \in Category : category[c] # "missing"} \cup {NoMatch} :
             /\ runs' = IF Exists(r)
                        THEN [runs EXCEPT ![r].currentStep = "Categorize Email",
                                          ![r].category = answer,
                                          ![r].draft = None]
                        ELSE runs
             /\ Goto(w, IF answer = NoMatch THEN "skip" ELSE "reload")
        /\ UNCHANGED abandoned
     \/ /\ LlmMayFail \/ ~ rows[e].stored
        /\ GiveUp(w, r)
        /\ UNCHANGED runs
  /\ UNCHANGED <<rows, category, connector, queue, request, faults, replies, sent, raced>>

Skip(w) ==
  LET r == job[w].msg.run IN
  /\ job[w].pc = "skip"
  /\ runs' = IF Exists(r)
             THEN [runs EXCEPT ![r].status = "skipped",
                               ![r].explanation = "no_category"]
             ELSE runs
  /\ Goto(w, "done")
  /\ UNCHANGED <<rows, category, connector, queue, request, faults, history>>

Reload(w) ==
  LET r == job[w].msg.run IN
  /\ job[w].pc = "reload"
  /\ job' = [job EXCEPT ![w].snap = runs[r],
                        ![w].pc = AfterRead(r, "find_category")]
  /\ UNCHANGED <<tables, queue, request, faults, history>>

AutoReplyAlways(w) == TRUE    \* faulty: approval is not asked for
AutoReply(w) == job[w].snap.workflow \notin ApproveFirst

\* Without a category name (a handler that died between Categorize and Skip
\* left the run so) the lookup itself fails; without the category row or the
\* email the code after it does.
FindCategory(w) ==
  LET r == job[w].msg.run
      c == job[w].snap.category
      found == IF c \in Category THEN category[c] ELSE "missing" IN
  /\ job[w].pc = "find_category"
  /\ \/ /\ found = "bare"
        /\ Goto(w, "explain")
        /\ UNCHANGED abandoned
     \/ /\ found = "resourced" /\ rows[job[w].msg.email].stored
        /\ Goto(w, IF AutoReply(w) THEN "publish_reply" ELSE "record")
        /\ UNCHANGED abandoned
     \/ /\ \/ found = "missing"
           \/ found = "resourced" /\ ~ rows[job[w].msg.email].stored
        /\ GiveUp(w, r)
  /\ UNCHANGED <<tables, queue, request, faults, replies, sent, raced>>

Explain(w) ==
  LET r == job[w].msg.run IN
  /\ job[w].pc = "explain"
  /\ runs' = IF Exists(r)
             THEN [runs EXCEPT ![r].status = "completed",
                               ![r].explanation = "no_resources"]
             ELSE runs
  /\ Goto(w, "done")
  /\ UNCHANGED <<rows, category, connector, queue, request, faults, history>>

PublishReply(w) ==
  LET r == job[w].msg.run IN
  /\ job[w].pc = "publish_reply"
  /\ Publish(Reply(r, job[w].msg.email, "generated"))
  /\ replies' = [replies EXCEPT ![r] = @ + 1]
  /\ Goto(w, "record")
  /\ UNCHANGED <<tables, request, faults, sent, raced, abandoned>>

\* The last update writes the stepsContext this handler read, with its draft,
\* whatever has become of the run since.
Record(w) ==
  LET r == job[w].msg.run IN
  /\ job[w].pc = "record"
  /\ runs' = IF Exists(r)
             THEN [runs EXCEPT
                     ![r].status = IF AutoReply(w) THEN "completed"
                                                   ELSE "awaiting_action",
                     ![r].currentStep = "Reply Email",
                     ![r].category = job[w].snap.category,
                     ![r].draft = "generated"]
             ELSE runs
  /\ Goto(w, "done")
  /\ UNCHANGED <<rows, category, connector, queue, request, faults, history>>

-----------------------------------------------------------------------------
(* EMAIL_WORKFLOW_REPLY and EMAIL_WORKFLOW_REPLY_GMAIL *)

RouteReply(w) ==
  LET m == job[w].msg IN
  /\ job[w].pc = "route"
  /\ IF rows[m.email].stored
     THEN Publish(GmailReply(m.run, m.email, m.body))
     ELSE UNCHANGED queue
  /\ Goto(w, "done")
  /\ UNCHANGED <<tables, request, faults, history>>

SendGmail(w) ==
  LET m == job[w].msg IN
  /\ job[w].pc = "send"
  /\ rows[m.email].stored
  /\ sent' = [sent EXCEPT ![m.run] = @ + 1]
  /\ Goto(w, "done")
  /\ UNCHANGED <<tables, queue, request, faults, replies, raced, abandoned>>

\* No token, an error of the Gmail API or an email that is gone: the handler
\* throws and the delivery is tried again.
RefuseGmail(w) ==
  /\ job[w].pc = "send"
  /\ GmailMayFail \/ ~ rows[job[w].msg.email].stored
  /\ Nack(w)
  /\ UNCHANGED <<tables, request, faults, history>>

-----------------------------------------------------------------------------
(* The approval request: optionally a new body, then send *)

Ask(u, pc) == request' = [request EXCEPT ![u].pc = pc]
Answered(u) == request' = [request EXCEPT ![u] = NoRequest]

Approve(u, r) ==
  /\ request[u].pc = "idle"
  /\ Exists(r)
  /\ \E pc \in {"edit", "send"} :
       request' = [request EXCEPT ![u] = [pc |-> pc, run |-> r, snap |-> NoRun]]
  /\ UNCHANGED <<tables, queue, job, faults, history>>

\* Both requests refuse a run that is not awaiting_action or has no draft.
HasDraft(r) == runs[r].draft # None    \* faulty: the status is not looked at
HasDraftToSend(r) == runs[r].status = "awaiting_action" /\ runs[r].draft # None

LoadDraft(u, at, next) ==
  LET r == request[u].run IN
  /\ request[u].pc = at
  /\ IF HasDraftToSend(r)
     THEN request' = [request EXCEPT ![u].pc = next, ![u].snap = runs[r]]
     ELSE Answered(u)
  /\ UNCHANGED <<tables, queue, job, faults, history>>

SaveDraftAlone(u) ==    \* faulty: the draft replaces the whole stepsContext
  LET r == request[u].run IN
  /\ request[u].pc = "save_draft"
  /\ runs' = IF Exists(r) THEN [runs EXCEPT ![r].category = None, ![r].draft = u]
                          ELSE runs
  /\ Ask(u, "send")
  /\ UNCHANGED <<rows, category, connector, queue, job, faults, history>>

SaveDraft(u) ==
  LET r == request[u].run IN
  /\ request[u].pc = "save_draft"
  /\ runs' = IF Exists(r)
             THEN [runs EXCEPT ![r].category = request[u].snap.category,
                               ![r].draft = u]
             ELSE runs
  /\ Ask(u, "send")
  /\ UNCHANGED <<rows, category, connector, queue, job, faults, history>>

PublishApprovedNot(u) ==    \* faulty: the run is completed without its reply
  /\ request[u].pc = "publish"
  /\ Ask(u, "complete")
  /\ UNCHANGED <<tables, queue, job, faults, history>>

PublishApproved(u) ==
  LET q == request[u] IN
  /\ q.pc = "publish"
  /\ Publish(Reply(q.run, q.snap.email, q.snap.draft))
  /\ replies' = [replies EXCEPT ![q.run] = @ + 1]
  /\ Ask(u, "complete")
  /\ UNCHANGED <<tables, job, faults, sent, raced, abandoned>>

CompleteApproved(u) ==
  LET q == request[u] IN
  /\ q.pc = "complete"
  /\ runs' = IF Exists(q.run)
             THEN [runs EXCEPT ![q.run].status = "completed",
                               ![q.run].category = q.snap.category,
                               ![q.run].draft = q.snap.draft]
             ELSE runs
  /\ Answered(u)
  /\ UNCHANGED <<rows, category, connector, queue, job, faults, history>>

-----------------------------------------------------------------------------
(* The surroundings *)

\* A category is created before its resource; an update saves both and a
\* deletion removes both.
EditCategory(c) ==
  /\ edits < MaxEdits
  /\ \E k \in IF category[c] = "missing" THEN {"bare"} ELSE {"missing", "resourced"} :
       category' = [category EXCEPT ![c] = k]
  /\ edits' = edits + 1
  /\ UNCHANGED <<rows, runs, connector, queue, job, request, crashes, reconnects, history>>

\* Disconnecting deletes the runs that emails of the connector point to (and,
\* by the foreign key, those emails), then the emails, then the connector.
DeleteRuns ==
  LET doomed == {r \in RunId : Exists(r) /\ \E e \in Email : rows[e].stored /\ rows[e].run = r} IN
  /\ CanDisconnect /\ connector # "gone"
  /\ connector' = "runs_deleted"
  /\ runs' = [r \in RunId |-> IF r \in doomed THEN [NoRun EXCEPT !.status = "deleted"]
                                              ELSE runs[r]]
  /\ rows' = [e \in Email |-> IF rows[e].run \in doomed
                              THEN [rows[e] EXCEPT !.stored = FALSE] ELSE rows[e]]
  /\ UNCHANGED <<category, queue, job, request, faults, history>>

DeleteEmails ==
  /\ \/ connector = "runs_deleted" /\ connector' = "emails_deleted"
     \/ connector = "emails_deleted" /\ connector' = "gone"
  /\ rows' = [e \in Email |-> [rows[e] EXCEPT !.stored = FALSE]]
  /\ UNCHANGED <<runs, category, queue, job, request, faults, history>>

ReturnedNone == queue    \* faulty: messages are acknowledged on delivery

\* What the broker holds once every unacknowledged delivery has come back.
Returned == [m \in Message |->
               queue[m] + Cardinality({w \in Worker : job[w].held /\ job[w].msg = m})]

\* The process dies: handlers and requests end where they are.
Crash ==
  /\ crashes < MaxCrashes
  /\ crashes' = crashes + 1
  /\ queue' = Returned
  /\ job' = [w \in Worker |-> Idle]
  /\ request' = [u \in User |-> NoRequest]
  /\ UNCHANGED <<tables, reconnects, edits, history>>

\* The connection to the broker is lost and restored: its deliveries are made
\* again while their first handlers go on.
Reconnect ==
  /\ reconnects < MaxReconnects
  /\ reconnects' = reconnects + 1
  /\ queue' = Returned
  /\ job' = [w \in Worker |-> [job[w] EXCEPT !.held = FALSE]]
  /\ UNCHANGED <<tables, request, crashes, edits, history>>

-----------------------------------------------------------------------------
(* Specification *)

WorkerStep(w) ==
  \/ FindEmail(w) \/ FindRun(w) \/ LinkEmail(w) \/ PublishRun(w)
  \/ \E r \in RunId : InsertRun(w, r)
  \/ Load(w) \/ Categorize(w) \/ Skip(w) \/ Reload(w)
  \/ FindCategory(w) \/ Explain(w) \/ PublishReply(w) \/ Record(w)
  \/ RouteReply(w) \/ Ack(w)

UserStep(u) ==
  \/ LoadDraft(u, "edit", "save_draft") \/ SaveDraft(u)
  \/ LoadDraft(u, "send", "publish") \/ PublishApproved(u) \/ CompleteApproved(u)

Next ==
  \/ \E w \in Worker, m \in Message : Receive(w, m)
  \/ \E w \in Worker : WorkerStep(w) \/ SendGmail(w) \/ RefuseGmail(w)
  \/ \E u \in User, r \in RunId : Approve(u, r)
  \/ \E u \in User : UserStep(u)
  \/ \E c \in Category : EditCategory(c)
  \/ DeleteRuns \/ DeleteEmails \/ Crash \/ Reconnect

Spec == Init /\ [][Next]_vars

-----------------------------------------------------------------------------
(* Properties *)

\* A completed run has been answered or says why not: the reply is published
\* before runWorkflow and sendApprovedReply mark the run completed, so that no
\* crash between the two steps completes a run whose reply does not exist.
CompletedIsAccounted ==
  \A r \in RunId :
    runs[r].status = "completed" =>
      replies[r] > 0 \/ runs[r].explanation = "no_resources"

\* A run that waits for approval has the draft and the category the approver
\* is to see, whatever was retried, unless two deliveries worked on it at once
\* (the categorisation of the second one then wipes stepsContext).
AwaitingHasDraft ==
  \A r \in RunId \ raced :
    runs[r].status = "awaiting_action" =>
      runs[r].draft # None /\ runs[r].category \in Category

\* The sender of an email that matched no category is never answered: neither
\* a retry after a crash nor an approval publishes a reply for a skipped run.
SkippedNeverReplied ==
  \A r \in RunId \ raced : runs[r].status = "skipped" => replies[r] = 0

\* A workflow with approveBeforeSending answers only out of a run that a
\* person could see: its draft is in the table before any reply is published.
ApprovalComesFirst ==
  \A r \in RunId :
    runs[r].workflow \in ApproveFirst /\ replies[r] > 0 =>
      r \in raced \/ runs[r].status \in {"awaiting_action", "completed"}

\* The lifecycle of a run as the rest of the product sees it; runs two
\* deliveries worked on at once are outside that promise.
statusBar == [r \in RunId |-> IF r \in raced THEN "disputed" ELSE runs[r].status]
Lifecycle == INSTANCE RunLifecycle WITH status <- statusBar
RefinesLifecycle == Lifecycle!LifecycleSpec

\* Someone is working on a run or is going to: its message is queued or being
\* handled, or its creator has not published that message yet.
Attended(r) ==
  \/ \E e \in Email :
       \/ queue[Assist(r, e)] > 0
       \/ queue[ProcessEmail(e)] > 0 /\ runs[r].email = e
  \/ \E w \in Worker :
       /\ job[w].pc # "idle"
       /\ \/ Assisting(w, r)
          \/ job[w].msg.type = "process_incoming_email" /\ job[w].msg.email = runs[r].email

\* No pending run is forgotten: whatever crashes and is delivered again, a
\* pending run nobody attends to was given up in one of the errors the
\* handlers catch, or shares its email and workflow with a second run, or its
\* email went with the connector.
NoRunForgotten ==
  \A r \in RunId :
    runs[r].status = "pending" =>
      \/ Attended(r)
      \/ \E s \in abandoned : runs[s].email = runs[r].email
      \/ RunsFor(runs[r].workflow, runs[r].email) # {r}
      \/ connector # "linked"

\* createWorkflowRun finds the run of an earlier attempt: crashes and retries
\* of PROCESS_INCOMING_EMAIL make no second run for a workflow and an email, as
\* long as the broker does not hand the email to two live handlers.
OneRunPerEmail ==
  reconnects = 0 =>
    \A r, s \in RunId :
      /\ Exists(r) /\ Exists(s)
      /\ runs[r].workflow = runs[s].workflow /\ runs[r].email = runs[s].email
      => r = s

\* Where nothing crashes and one person approves, the sender receives at most
\* one reply per workflow.
AtMostOneReply ==
  crashes = 0 /\ reconnects = 0 /\ Cardinality(User) = 1 =>
    \A r \in RunId : replies[r] <= 1 /\ sent[r] <= replies[r]

\* Every approved or automatic reply reaches Gmail, through crashes, requeues
\* and refusals, unless its email is deleted.
RepliesAreSent ==
  \A r \in RunId : replies[r] > 0 ~> sent[r] > 0 \/ connector # "linked"

\* Approving sends the draft of "a workflow run that was left in
\* awaiting_action": a reply is published on approval only while the run still
\* waits for one.
SendsOnlyAwaiting ==
  [][\A u \in User : PublishApproved(u) =>
       runs[request[u].run].status = "awaiting_action"]_vars
=============================================================================
