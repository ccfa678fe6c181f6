---------------------------- MODULE MailPipeline ----------------------------
(***************************************************************************)
(* From the mailbox to the reply: the intake of mail and the e-mail        *)
(* assistant in one process, which a crash ends as a whole.  What joins    *)
(* them is the message PROCESS_INCOMING_EMAIL: EmailAssistant starts with  *)
(* one per e-mail, and here nobody receives it before the intake has       *)
(* published it.  A message that the intake stores twice is handled twice; *)
(* the handling of the second row is left out.                             *)
(***************************************************************************)
EXTENDS EmailAssistant

CONSTANTS Own, Handler, FirstSync, PageSize, Clerk, ApiMayFail, GrantMayLapse,
          MaxExpiries, MaxDuplicates, MaxErrands    \* see GmailIntake

VARIABLES
  arrived, grant, pushes, account, stored, queued, handling, errand,
  expiries, duplicates, errands, lost, unlisted, unheeded, contested,
  unsaid,     \* history: mail whose handler died when it had stored it, and published nothing
  shut        \* history: <<workflow, mail>> not started, by an error over another workflow

Intake == INSTANCE GmailIntake WITH Mail <- Email, connector <- account, job <- handling

intakeVars == <<arrived, grant, pushes, account, stored, queued, handling, errand, crashes,
                expiries, duplicates, errands, lost, unlisted, unheeded, contested>>
mailVars == <<vars, intakeVars, unsaid, shut>>

-----------------------------------------------------------------------------
MailInit == Init /\ Intake!Init /\ unsaid = {} /\ shut = {}

\* The messages that the intake has still to publish.
Unpublished == {ProcessEmail(e) : e \in {f \in Email : queued[f] = 0}}

UnsaidBy(h) == IF handling[h].pc = "publish" THEN {handling[h].mail} ELSE {}

\* A handler that gives up on one workflow starts none of those left in its loop.
ShutBy(w) ==
  IF job[w].pc \in {"link_email", "publish_run"} /\ job'[w].pc = "done"
    THEN (job[w].todo \ {job[w].snap.workflow}) \X {job[w].msg.email} ELSE {}

MailNext ==
  \/ Intake!Next /\ UNCHANGED <<vars, unsaid, shut>>
  \/ /\ Next
     /\ \A m \in Unpublished : queue'[m] = queue[m]
     /\ shut' = shut \cup UNION {ShutBy(w) : w \in Worker}
     /\ UNCHANGED <<intakeVars, unsaid>>
  \/ /\ Crash /\ Intake!Crash
     /\ unsaid' = unsaid \cup UNION {UnsaidBy(h) : h \in Handler}
     /\ UNCHANGED shut

\* The event loop resumes every handler and request whose awaited call has
\* returned, Pub/Sub and the broker deliver what is announced or published to
\* a free handler, and Gmail does not refuse one and the same reply for ever.
\* Nobody has to write mail, approve, edit or disconnect anything, and nothing
\* has to fail.
MailFairness ==
  /\ \A w \in Worker : WF_vars(WorkerStep(w))
  /\ \A u \in User : WF_vars(UserStep(u))
  /\ \A m \in Message :
       /\ WF_vars(m \notin Unpublished /\ \E w \in Worker : Receive(w, m))
       /\ SF_vars(\E w \in Worker : job[w].msg = m /\ SendGmail(w))
  /\ Intake!Fairness

MailSpec == MailInit /\ [][MailNext]_mailVars /\ MailFairness

-----------------------------------------------------------------------------
(* Properties *)

\* Mail that arrives is decided by every linked workflow: whatever the crash
\* interrupts, the workflow's own run for it leaves the pending state, unless a
\* handler of that very run catches an error, the loop over the workflows ends at
\* another one before it, or the intake lets go of that very mail at a known point.
MailIsDecided ==
  \A f \in Workflow, e \in Email \ Own :
    arrived[e] > 0 ~>
      \/ \E r \in RunId :
           /\ runs[r].workflow = f /\ runs[r].email = e
           /\ runs[r].status \notin {"absent", "pending"} \/ r \in abandoned
      \/ <<f, e>> \in shut
      \/ e \in lost \cup unlisted \cup unheeded \cup unsaid
      \/ connector # "linked"
=============================================================================
