------------------------------ MODULE SeoHelper ------------------------------
(***************************************************************************)
(* One run of the SEO helper (SeoHelperService): a pipeline nobody waits   *)
(* for researches a topic, clones the repository, writes a blog post and   *)
(* leaves it as a draft to be approved; visits edit the draft and approve  *)
(* it, which pushes the post.  Git, the browser and the LLM are external.  *)
(*                                                                         *)
(* A topic has one run: who triggers the workflow again sends another      *)
(* pipeline over it, whatever has become of it, with a draft of its own.   *)
(*                                                                         *)
(* save(draft) writes back every column in which the copy read before      *)
(* differs from the row; updateWorkflowRun touches the columns it is given.*)
(* A visit's name stands for the content it submits, and a trigger's for   *)
(* its pipeline, its draft and what the LLM has written for it.            *)
(***************************************************************************)
EXTENDS Naturals, FiniteSets

CONSTANTS
    Trigger,           \* the calls of runForWorkflow
    Visit,             \* the edits and approvals; each is made once
    MaxSeoRequests,    \* bound on the triggers and visits together
    MaxForeignPushes,  \* bound on the commits of others to the repository
    MaxSeoCrashes      \* bound on the restarts of the server

SeoAssumption ==
    /\ IsFiniteSet(Visit) /\ "none" \notin Visit \cup Trigger
    /\ MaxSeoRequests \in Nat /\ MaxForeignPushes \in Nat /\ MaxSeoCrashes \in Nat
ASSUME SeoAssumption

VARIABLES
    post,       \* the row of workflow_runs
    draft,      \* rows of seo_blog_drafts
    pipeline,   \* where each executePipeline is
    workspace,  \* the files with the research in the temporary directories
    visit,      \* requests at work
    repo,       \* the remote repository: its head and the files of the post
    seoCrashes,
    stranded,   \* history: a pipeline died where it does not say so
    contended   \* history: visits were at work at the same time

seoVars == <<post, draft, pipeline, workspace, visit, repo, seoCrashes, stranded, contended>>

-----------------------------------------------------------------------------
(* Types *)

None == "none"
Content == Visit \cup Trigger \cup {None}

\* The step "generate-blog-content" only records how far the run is.
Stage == {"start", "collect", "clone", "generate"}

\* What stepsContext says of two steps: "collect-research" names the file with
\* the research, and "await-approval" the draft and its content.
Post == [status : {"absent", "pending", "awaiting", "failed", "completed"},
         research : Trigger \cup {None},
         draft : Trigger \cup {None}, content : Content]

\* The LLM names the file.
Draft == [status : {"absent", "draft", "published"}, content : Content, file : Trigger \cup {None}]

VisitState ==
    [kind : {"none", "edit", "approve", "editAndApprove"},
     pc : {"idle", "edit", "saveEdit", "updateEdit", "read", "clone", "push", "publish",
           "complete", "done"},
     row : Draft, post : Post,  \* the copies it read
     content : Content, base : 0..(MaxForeignPushes + Cardinality(Visit))]

NoPost == [status |-> "absent", research |-> None, draft |-> None, content |-> None]
NoDraft == [status |-> "absent", content |-> None, file |-> None]
FreshVisit == [kind |-> "none", pc |-> "idle", row |-> NoDraft, post |-> NoPost,
               content |-> None, base |-> 0]

Repo == [head : 0..(MaxForeignPushes + Cardinality(Visit)), foreign : 0..MaxForeignPushes,
         file : [Trigger -> Content]]

SeoTypeOK ==
    /\ post \in Post
    /\ draft \in [Trigger -> Draft]
    /\ pipeline \in [Trigger -> {"none", "save", "await", "catch", "cleanup", "over"} \cup Stage]
    /\ workspace \subseteq Trigger
    /\ visit \in [Visit -> VisitState]
    /\ repo \in Repo
    /\ seoCrashes \in 0..MaxSeoCrashes
    /\ stranded \in BOOLEAN
    /\ contended \in BOOLEAN

SeoInit ==
    /\ post = NoPost
    /\ draft = [t \in Trigger |-> NoDraft]
    /\ pipeline = [t \in Trigger |-> "none"]
    /\ workspace = {}
    /\ visit = [v \in Visit |-> FreshVisit]
    /\ repo = [head |-> 0, foreign |-> 0, file |-> [t \in Trigger |-> None]]
    /\ seoCrashes = 0
    /\ stranded = FALSE
    /\ contended = FALSE

-----------------------------------------------------------------------------
(* executePipeline *)

visitVars == <<visit, repo, seoCrashes, contended>>

PipelineAt(t, pc) == pipeline[t] = pc
Proceed(t, pc) == pipeline' = [pipeline EXCEPT ![t] = pc]
Triggered == {t \in Trigger : pipeline[t] # "none"}
Requests == Cardinality(Triggered) + Cardinality({v \in Visit : visit[v].pc # "idle"})
Saved == {t \in Trigger : draft[t].status # "absent"}

\* runForWorkflow: createWorkflowRun makes the run, or finds the one the topic
\* has already, which stays as it is; nobody waits for the pipeline.
StartPost(t) ==
    /\ PipelineAt(t, "none")
    /\ Requests < MaxSeoRequests
    /\ post' = IF post.status = "absent" THEN [post EXCEPT !.status = "pending"] ELSE post
    /\ Proceed(t, "start")
    /\ UNCHANGED <<draft, workspace, stranded, visitVars>>

\* Without a directory it ends here: the failure is logged, and the run left.
FailUncaught(t) ==
    /\ PipelineAt(t, "start")
    /\ Proceed(t, "over")
    /\ stranded' = TRUE
    /\ UNCHANGED <<post, draft, workspace, visitVars>>

\* A step is recorded, with all that this pipeline knows of the steps before and
\* nothing else: the topic; the research, which is in a file (there may be no
\* results); the clone, after the checks of the connector; the answer of the LLM,
\* whatever it is.
RecordStage(t) ==
    /\ pipeline[t] \in Stage
    /\ post' = IF PipelineAt(t, "generate") THEN post
               ELSE [post EXCEPT !.research = IF PipelineAt(t, "start") THEN None ELSE t,
                                 !.draft = None, !.content = None]
    /\ workspace' = IF PipelineAt(t, "collect") THEN workspace \cup {t} ELSE workspace
    /\ Proceed(t, CASE PipelineAt(t, "start") -> "collect"
                     [] PipelineAt(t, "collect") -> "clone"
                     [] PipelineAt(t, "clone") -> "generate"
                     [] PipelineAt(t, "generate") -> "save")
    /\ UNCHANGED <<draft, stranded, visitVars>>

\* The draft is saved with the research; the name of its file may be one that a
\* draft before it has,
SaveDraft(t) ==
    /\ PipelineAt(t, "save")
    /\ \E file \in {t} \cup {draft[s].file : s \in Saved} :
         draft' = [draft EXCEPT ![t] = [status |-> "draft", content |-> t, file |-> file]]
    /\ Proceed(t, "await")
    /\ UNCHANGED <<post, workspace, stranded, visitVars>>

\* and the run awaits approval of it.
AwaitApproval(t) ==
    /\ PipelineAt(t, "await")
    /\ post' = [status |-> "awaiting", research |-> t, draft |-> t, content |-> t]
    /\ Proceed(t, "cleanup")
    /\ UNCHANGED <<draft, workspace, stranded, visitVars>>

FailStage(t) ==
    /\ pipeline[t] \in Stage \cup {"save", "await"}
    /\ Proceed(t, "catch")
    /\ UNCHANGED <<post, draft, workspace, stranded, visitVars>>

\* The catch marks the run as failed, which may fail as well.
MarkFailed(t) ==
    /\ PipelineAt(t, "catch")
    /\ \/ post' = [post EXCEPT !.status = "failed"] /\ UNCHANGED stranded
       \/ stranded' = TRUE /\ UNCHANGED post
    /\ Proceed(t, "cleanup")
    /\ UNCHANGED <<draft, workspace, visitVars>>

\* removeDir takes the file with the research along.
RemoveWorkspace(t) ==
    /\ PipelineAt(t, "cleanup")
    /\ workspace' = workspace \ {t}
    /\ Proceed(t, "over")
    /\ UNCHANGED <<post, draft, stranded, visitVars>>

\* loadResearchFromRun: the file if it is there, a draft of the run otherwise.
Research ==
    IF post.research \in workspace THEN "found"
    ELSE IF Saved # {} THEN "found" ELSE "nothing"

-----------------------------------------------------------------------------
(* Edits and approvals *)

pipelineVars == <<pipeline, workspace, seoCrashes, stranded>>

VisitAt(v, pc) == visit[v].pc = pc
Leave(v) == visit' = [visit EXCEPT ![v] = [FreshVisit EXCEPT !.pc = "done"]]
AtWork(v) == visit[v].pc \notin {"idle", "done"}

\* The approval endpoint edits first if it is given content.
BeginVisit(v) ==
    /\ VisitAt(v, "idle")
    /\ post.status # "absent"
    /\ Requests < MaxSeoRequests
    /\ \E kind \in {"edit", "approve", "editAndApprove"} :
         visit' = [visit EXCEPT ![v].kind = kind,
                                ![v].pc = IF kind = "approve" THEN "read" ELSE "edit"]
    /\ contended' = (contended \/ \E w \in Visit : AtWork(w))
    /\ UNCHANGED <<post, draft, repo, pipelineVars>>

\* The run awaits approval of a draft.
Awaits == post.status = "awaiting" /\ post.draft # None

\* The draft whose copy a visit has, and its file.
Copied(v) == visit[v].post.draft
FileOf(v) == visit[v].row.file

\* updateDraftBeforeApproval reads the run, if it awaits approval, and the draft,
ReadForEdit(v) ==
    /\ VisitAt(v, "edit")
    /\ IF Awaits
         THEN visit' = [visit EXCEPT ![v].pc = "saveEdit", ![v].row = draft[post.draft], ![v].post = post]
         ELSE Leave(v)
    /\ UNCHANGED <<post, draft, repo, contended, pipelineVars>>

\* the draft is written back with the new content,
SaveEdit(v) ==
    /\ VisitAt(v, "saveEdit")
    /\ draft' = [draft EXCEPT ![Copied(v)] = [visit[v].row EXCEPT !.content = v]]
    /\ visit' = [visit EXCEPT ![v].pc = "updateEdit"]
    /\ UNCHANGED <<post, repo, contended, pipelineVars>>

AfterEdit(v) == IF visit[v].kind = "edit" THEN "done" ELSE "read"

\* Faulty: the run is written back whole.
WriteBackRun(v) ==
    /\ VisitAt(v, "updateEdit")
    /\ post' = [visit[v].post EXCEPT !.content = v]
    /\ visit' = [visit EXCEPT ![v].pc = AfterEdit(v)]
    /\ UNCHANGED <<draft, repo, contended, pipelineVars>>

\* and the steps of the copy of the run; its status is left alone.
UpdateSteps(v) ==
    /\ VisitAt(v, "updateEdit")
    /\ post' = [visit[v].post EXCEPT !.status = post.status, !.content = v]
    /\ visit' = [visit EXCEPT ![v].pc = AfterEdit(v)]
    /\ UNCHANGED <<draft, repo, contended, pipelineVars>>

\* approveBlog reads the run and the draft as well,
ReadForApproval(v) ==
    /\ VisitAt(v, "read")
    /\ IF Awaits
         THEN visit' = [visit EXCEPT ![v].pc = "clone", ![v].row = draft[post.draft], ![v].post = post,
                          ![v].content = IF visit[v].kind = "approve" THEN draft[post.draft].content ELSE v]
         ELSE Leave(v)
    /\ UNCHANGED <<post, draft, repo, contended, pipelineVars>>

CloneRepo(v) ==
    /\ VisitAt(v, "clone")
    /\ visit' = [visit EXCEPT ![v].pc = "push", ![v].base = repo.head]
    /\ UNCHANGED <<post, draft, repo, contended, pipelineVars>>

\* Faulty: git may have refused.
PushRegardless(v) ==
    /\ VisitAt(v, "push")
    /\ repo' = IF repo.head = visit[v].base /\ repo.file[FileOf(v)] # visit[v].content
                 THEN [repo EXCEPT !.head = @ + 1, !.file[FileOf(v)] = visit[v].content] ELSE repo
    /\ visit' = [visit EXCEPT ![v].pc = "publish"]
    /\ UNCHANGED <<post, draft, contended, pipelineVars>>

\* commitAndPush: git commits nothing that has not changed and refuses to push
\* over what others have pushed.
CommitAndPush(v) ==
    /\ VisitAt(v, "push")
    /\ IF repo.head = visit[v].base /\ repo.file[FileOf(v)] # visit[v].content
         THEN /\ repo' = [repo EXCEPT !.head = @ + 1, !.file[FileOf(v)] = visit[v].content]
              /\ visit' = [visit EXCEPT ![v].pc = "publish"]
         ELSE UNCHANGED repo /\ Leave(v)
    /\ UNCHANGED <<post, draft, contended, pipelineVars>>

PublishDraft(v) ==
    /\ VisitAt(v, "publish")
    /\ draft' = [draft EXCEPT ![Copied(v)] = [visit[v].row EXCEPT !.status = "published",
                                                                !.content = visit[v].content]]
    /\ visit' = [visit EXCEPT ![v].pc = "complete"]
    /\ UNCHANGED <<post, repo, contended, pipelineVars>>

CompletePost(v) ==
    /\ VisitAt(v, "complete")
    /\ post' = [visit[v].post EXCEPT !.status = "completed", !.content = visit[v].content]
    /\ Leave(v)
    /\ UNCHANGED <<draft, repo, contended, pipelineVars>>

\* A statement or a git command fails: what is done is done.
FailVisit(v) ==
    /\ AtWork(v)
    /\ Leave(v)
    /\ UNCHANGED <<post, draft, repo, contended, pipelineVars>>

-----------------------------------------------------------------------------
(* The environment *)

ForeignPush ==
    /\ repo.foreign < MaxForeignPushes
    /\ repo' = [repo EXCEPT !.head = @ + 1, !.foreign = @ + 1]
    /\ UNCHANGED <<post, draft, visit, contended, pipelineVars>>

\* Nothing resumes a pipeline or a visit after a restart.
SeoCrash ==
    /\ seoCrashes < MaxSeoCrashes
    /\ seoCrashes' = seoCrashes + 1
    /\ stranded' = (stranded \/ \E t \in Triggered : pipeline[t] \notin {"cleanup", "over"})
    /\ pipeline' = [t \in Trigger |-> IF t \in Triggered THEN "over" ELSE "none"]
    /\ visit' = [v \in Visit |-> IF AtWork(v) THEN [FreshVisit EXCEPT !.pc = "done"] ELSE visit[v]]
    /\ UNCHANGED <<post, draft, workspace, repo, contended>>

Pipeline(t) ==
    \/ FailUncaught(t) \/ RecordStage(t) \/ SaveDraft(t) \/ AwaitApproval(t) \/ FailStage(t)
    \/ MarkFailed(t) \/ RemoveWorkspace(t)

VisitStep(v) ==
    \/ BeginVisit(v) \/ ReadForEdit(v) \/ SaveEdit(v) \/ UpdateSteps(v) \/ ReadForApproval(v)
    \/ CloneRepo(v) \/ CommitAndPush(v) \/ PublishDraft(v) \/ CompletePost(v) \/ FailVisit(v)

SeoNext ==
    \/ \E t \in Trigger : StartPost(t) \/ Pipeline(t)
    \/ \E v \in Visit : VisitStep(v)
    \/ ForeignPush \/ SeoCrash

\* The browser, git and the LLM answer or time out.
SeoFairness == \A t \in Trigger : WF_seoVars(Pipeline(t))

SeoSpec == SeoInit /\ [][SeoNext]_seoVars /\ SeoFairness

-----------------------------------------------------------------------------
(* Properties *)

\* The workflow has been triggered more than once.
Again == \E s, t \in Triggered : s # t

\* A completed run names a draft that is published and has been pushed as it is,
\* except where an edit and an approval overlapped; only another trigger may have
\* made it forget the draft.
CompletedIsPublished ==
    post.status = "completed" /\ ~contended =>
      IF post.draft = None THEN Again
      ELSE LET row == draft[post.draft]
           IN row.status = "published" /\ row.content = post.content /\ repo.file[row.file] = post.content

\* A completed run stays completed, whatever edits and approvals overlap (an edit
\* that read it before its approval does not open it again), unless the workflow
\* is triggered again: that pipeline asks for another approval, or fails.
CompletedStays ==
    [][post.status = "completed" =>
         post'.status = "completed" \/ (Again /\ pipeline' # pipeline)]_seoVars

\* Whoever is asked to approve a post can see research on its topic, though the
\* file the run names is gone by then.
AwaitingShowsResearch == post.status \in {"awaiting", "completed"} => Research = "found"

\* A run that was started fails or asks for approval, unless the server
\* restarts, a pipeline cannot make a directory, or cannot even mark the run as
\* failed.
RunEndsOrAwaits ==
    post.status = "pending" ~> (post.status \in {"awaiting", "failed", "completed"} \/ stranded)

\* What an approver sees, and what a completed run says, is so.
PostIsSound == SeoTypeOK /\ CompletedIsPublished /\ AwaitingShowsResearch

\* A run gets on, and back from its end only when it is triggered again.
PostAdvances == CompletedStays /\ RunEndsOrAwaits
=============================================================================
