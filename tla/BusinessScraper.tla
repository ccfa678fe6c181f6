--------------------------- MODULE BusinessScraper ---------------------------
(***************************************************************************)
(* The Google Business scraper.  A request creates a workflow run and      *)
(* leaves a background task behind, which lists the businesses of a Maps   *)
(* search and queues their websites; the PROCESS_WEBSITE handler searches  *)
(* one website at a time, keeps the pages that mention a keyword, and      *)
(* completes the run with the website that was queued last.                *)
(*                                                                         *)
(* The channel "process-website" has prefetch 1: the broker hands out the  *)
(* next website when the previous one is acknowledged, and puts an         *)
(* unacknowledged one back at the head of the queue.                       *)
(***************************************************************************)
EXTENDS Naturals, FiniteSets, Sequences

CONSTANTS
  RunId,      \* ids of workflow_runs
  Site,       \* websites of businesses, after redirects
  Page,       \* paths of the pages of a website
  Worker,     \* deliveries the process may handle at the same time
  TaskMayFail,  \* listing or queueing the businesses may fail
  MaxSites, MaxCrashes, MaxReconnects,
  None

ASSUME ConstantsAssumption ==
  /\ TaskMayFail \in BOOLEAN
  /\ MaxSites \in Nat /\ MaxCrashes \in Nat /\ MaxReconnects \in Nat
  /\ None \notin RunId \cup Site \cup Page

VARIABLES
  runs,       \* workflow_runs: status, and whether completedView is set
  task,       \* the background task of each run
  queue,      \* the PROCESS_WEBSITE queue, in order
  job,        \* what each worker is handling
  roots,      \* google_root_websites
  pages,      \* google_flagged_pages
  crashes, reconnects,
  found,      \* history: the websites listed for each run
  searched,   \* history: the websites a handler has finished with, per run
  cut,        \* history: runs whose task died with the process
  missed      \* history: runs whose last website ended without completing them

faults  == <<crashes, reconnects>>
history == <<found, searched, cut, missed>>
vars    == <<runs, task, queue, job, roots, pages, faults, history>>

-----------------------------------------------------------------------------
(* Records *)

Message == [run : RunId, site : Site, last : BOOLEAN]

\* Rows are told apart by a copy number: nothing in the tables is unique.
Root    == [run : RunId, site : Site, copy : Nat]
Flagged == [site : Site, page : Page, copy : Nat, run : RunId, root : Root]

\* There is a row or there is none.
ASSUME RowsAreNotNone == None \notin Root \cup Flagged

Idle == [pc |-> "idle", held |-> FALSE, msg |-> None, root |-> None,
         todo |-> {}, page |-> None, row |-> None]

Job == [ pc   : {"idle", "search", "find_root", "save_root", "find_page", "save_page",
                 "finish", "done"},
         held : BOOLEAN,
         msg  : Message \cup {None},
         root : Root \cup {None},
         todo : SUBSET Page,
         page : Page \cup {None},
         row  : Flagged \cup {None} ]

TypeOK ==
  /\ runs \in [RunId -> [status : {"absent", "pending", "completed", "failed"},
                         view : BOOLEAN]]
  /\ task \in [RunId -> [pc : {"none", "view", "scrape", "publish", "rethrow", "ended"},
                         rest : Seq(Site)]]
  /\ queue \in Seq(Message)
  /\ job \in [Worker -> Job]
  /\ roots \subseteq Root
  /\ pages \subseteq Flagged
  /\ crashes \in 0 .. MaxCrashes /\ reconnects \in 0 .. MaxReconnects
  /\ found \in [RunId -> Seq(Site)]
  /\ searched \subseteq RunId \X Site
  /\ cut \subseteq RunId /\ missed \subseteq RunId

Init ==
  /\ runs = [r \in RunId |-> [status |-> "absent", view |-> FALSE]]
  /\ task = [r \in RunId |-> [pc |-> "none", rest |-> <<>>]]
  /\ queue = <<>>
  /\ job = [w \in Worker |-> Idle]
  /\ roots = {} /\ pages = {}
  /\ crashes = 0 /\ reconnects = 0
  /\ found = [r \in RunId |-> <<>>]
  /\ searched = {} /\ cut = {} /\ missed = {}

-----------------------------------------------------------------------------
(* The request and its background task *)

CreateRun(r) ==
  /\ task[r].pc = "none"
  /\ runs[r].status = "absent"
  /\ runs' = [runs EXCEPT ![r].status = "pending"]
  /\ task' = [task EXCEPT ![r].pc = "view"]
  /\ UNCHANGED <<queue, job, roots, pages, faults, history>>

\* Once the view is set the request starts the task and is answered.
SetView(r) ==
  /\ task[r].pc = "view"
  /\ runs' = [runs EXCEPT ![r].view = TRUE]
  /\ task' = [task EXCEPT ![r].pc = "scrape"]
  /\ UNCHANGED <<queue, job, roots, pages, faults, history>>

\* The listings a Maps search can return: distinct websites, in some order.
Listing == {s \in UNION {[1 .. n -> Site] : n \in 0 .. MaxSites} :
              \A i, j \in DOMAIN s : s[i] = s[j] => i = j}

\* A search that finds nothing completes the run at once.
Scrape(r) ==
  /\ task[r].pc = "scrape"
  /\ \E sites \in Listing :
       /\ found' = [found EXCEPT ![r] = sites]
       /\ runs' = IF sites = <<>> THEN [runs EXCEPT ![r].status = "completed"] ELSE runs
       /\ task' = [task EXCEPT ![r] = [pc |-> IF sites = <<>> THEN "ended" ELSE "publish",
                                       rest |-> sites]]
  /\ UNCHANGED <<queue, job, roots, pages, faults, searched, cut, missed>>

IsFirst(r) == Len(task[r].rest) = Len(found[r])   \* faulty: the first is marked
IsLast(r) == Len(task[r].rest) = 1

PublishSite(r) ==
  /\ task[r].pc = "publish"
  /\ queue' = Append(queue, [run |-> r, site |-> Head(task[r].rest), last |-> IsLast(r)])
  /\ task' = [task EXCEPT ![r].rest = Tail(@),
                          ![r].pc = IF Len(task[r].rest) = 1 THEN "ended" ELSE "publish"]
  /\ UNCHANGED <<runs, job, roots, pages, faults, history>>

\* The browser or the broker fails: the run has failed, and the error is
\* thrown again.
TaskFails(r) ==
  /\ TaskMayFail
  /\ task[r].pc \in {"scrape", "publish"}
  /\ runs' = [runs EXCEPT ![r].status = "failed"]
  /\ task' = [task EXCEPT ![r].pc = "rethrow"]
  /\ UNCHANGED <<queue, job, roots, pages, faults, history>>

-----------------------------------------------------------------------------
(* PROCESS_WEBSITE *)

Receive(w) ==
  /\ job[w].pc = "idle"
  /\ queue # <<>>
  /\ \A v \in Worker : ~ job[v].held
  /\ queue' = Tail(queue)
  /\ job' = [job EXCEPT ![w] = [Idle EXCEPT !.pc = "search", !.held = TRUE,
                                            !.msg = Head(queue)]]
  /\ UNCHANGED <<runs, task, roots, pages, faults, history>>

\* The handler resolves without completing the run, because no page mentions
\* a keyword or because it has caught an error.
Leave(w) ==
  /\ job' = [job EXCEPT ![w].pc = "done"]
  /\ searched' = searched \cup {<<job[w].msg.run, job[w].msg.site>>}
  /\ missed' = IF job[w].msg.last THEN missed \cup {job[w].msg.run} ELSE missed

\* Launching a browser, reading the pages and then the contact details.
Search(w) ==
  /\ job[w].pc = "search"
  /\ \/ \E hits \in (SUBSET Page) \ {{}} :
          /\ job' = [job EXCEPT ![w].pc = "find_root", ![w].todo = hits]
          /\ UNCHANGED <<searched, missed>>
     \/ Leave(w)
  /\ UNCHANGED <<runs, task, queue, roots, pages, faults, found, cut>>

RootsOf(m) == {x \in roots : x.run = m.run /\ x.site = m.site}

FindRoot(w) ==
  /\ job[w].pc = "find_root"
  /\ \/ /\ RootsOf(job[w].msg) = {}
        /\ job' = [job EXCEPT ![w].pc = "save_root", ![w].root = None]
     \/ \E x \in RootsOf(job[w].msg) :
          job' = [job EXCEPT ![w].pc = "save_root", ![w].root = x]
  /\ UNCHANGED <<runs, task, queue, roots, pages, faults, history>>

\* A website that has a row is saved again with the new contact details.
SaveRoot(w) ==
  LET m   == job[w].msg
      new == [run |-> m.run, site |-> m.site,
              copy |-> Cardinality({x \in roots : x.run = m.run /\ x.site = m.site})]
      row == IF job[w].root = None THEN new ELSE job[w].root IN
  /\ job[w].pc = "save_root"
  /\ roots' = roots \cup {row}
  /\ job' = [job EXCEPT ![w].pc = "find_page", ![w].root = row]
  /\ UNCHANGED <<runs, task, queue, pages, faults, history>>

\* A page is looked up in the whole team, whatever run flagged it.
FindPage(w) ==
  LET site    == job[w].msg.site
      rows(p) == {x \in pages : x.site = site /\ x.page = p} IN
  /\ job[w].pc = "find_page"
  /\ \E p \in job[w].todo :
       \/ /\ rows(p) = {}
          /\ job' = [job EXCEPT ![w].pc = "save_page", ![w].page = p, ![w].row = None]
       \/ \E x \in rows(p) :
            job' = [job EXCEPT ![w].pc = "save_page", ![w].page = p, ![w].row = x]
  /\ UNCHANGED <<runs, task, queue, roots, pages, faults, history>>

RewrittenHalf(w, x) == [x EXCEPT !.run = job[w].msg.run]   \* faulty: root is left
Rewritten(w, x) == [x EXCEPT !.run = job[w].msg.run, !.root = job[w].root]

\* A page that was flagged before now belongs to this run.
SavePage(w) ==
  LET m   == job[w].msg
      p   == job[w].page
      old == {x \in pages : job[w].row # None /\ x.site = m.site /\ x.page = p
                            /\ x.copy = job[w].row.copy}
      new == [site |-> m.site, page |-> p, run |-> m.run, root |-> job[w].root,
              copy |-> Cardinality({x \in pages : x.site = m.site /\ x.page = p})]
      rest == job[w].todo \ {p} IN
  /\ job[w].pc = "save_page"
  /\ pages' = IF job[w].row = None THEN pages \cup {new}
              ELSE (pages \ old) \cup {Rewritten(w, x) : x \in old}
  /\ job' = [job EXCEPT ![w].pc = IF rest = {} THEN "finish" ELSE "find_page",
                        ![w].todo = rest]
  /\ UNCHANGED <<runs, task, queue, roots, faults, history>>

\* After the outreach, whose errors are caught, the last website completes the
\* run, whatever its status.
Finish(w) ==
  LET m == job[w].msg IN
  /\ job[w].pc = "finish"
  /\ runs' = IF m.last THEN [runs EXCEPT ![m.run] = [status |-> "completed", view |-> TRUE]]
             ELSE runs
  /\ searched' = searched \cup {<<m.run, m.site>>}
  /\ job' = [job EXCEPT ![w].pc = "done"]
  /\ UNCHANGED <<task, queue, roots, pages, faults, found, cut, missed>>

Ack(w) ==
  /\ job[w].pc = "done"
  /\ job' = [job EXCEPT ![w] = Idle]
  /\ UNCHANGED <<runs, task, queue, roots, pages, faults, history>>

-----------------------------------------------------------------------------
(* The surroundings *)

ReturnedToTail ==    \* faulty: a returned website loses its place
  LET holders == {w \in Worker : job[w].held} IN
  IF holders = {} THEN queue ELSE Append(queue, job[CHOOSE w \in holders : TRUE].msg)

ReturnedNone == queue    \* faulty: acknowledged on delivery

\* The queue once the unacknowledged website, if there is one, is back.
Returned ==
  LET holders == {w \in Worker : job[w].held} IN
  IF holders = {} THEN queue ELSE <<job[CHOOSE w \in holders : TRUE].msg>> \o queue

ProcessEnds ==
  /\ queue' = Returned
  /\ job' = [w \in Worker |-> Idle]
  /\ task' = [r \in RunId |-> IF task[r].pc \in {"none", "ended"} THEN task[r]
                              ELSE [pc |-> "ended", rest |-> <<>>]]
  /\ cut' = cut \cup {r \in RunId : task[r].pc \in {"view", "scrape", "publish"}}

Crash ==
  /\ crashes < MaxCrashes
  /\ crashes' = crashes + 1
  /\ ProcessEnds
  /\ UNCHANGED <<runs, roots, pages, reconnects, found, searched, missed>>

\* Nothing awaits the task: its rejection is unhandled, and ends the process.
Rethrow(r) ==
  /\ task[r].pc = "rethrow"
  /\ ProcessEnds
  /\ UNCHANGED <<runs, roots, pages, faults, found, searched, missed>>

Reconnect ==
  /\ reconnects < MaxReconnects
  /\ reconnects' = reconnects + 1
  /\ queue' = Returned
  /\ job' = [w \in Worker |-> [job[w] EXCEPT !.held = FALSE]]
  /\ UNCHANGED <<runs, task, roots, pages, crashes, history>>

-----------------------------------------------------------------------------
(* Specification *)

TaskStep(r) == SetView(r) \/ Scrape(r) \/ PublishSite(r) \/ Rethrow(r)

WorkerStep(w) ==
  Search(w) \/ FindRoot(w) \/ SaveRoot(w) \/ FindPage(w) \/ SavePage(w) \/ Finish(w)
  \/ Ack(w)

Next ==
  \/ \E r \in RunId : CreateRun(r) \/ TaskFails(r) \/ TaskStep(r)
  \/ \E w \in Worker : Receive(w) \/ WorkerStep(w)
  \/ Crash \/ Reconnect

Spec == Init /\ [][Next]_vars

\* The event loop resumes every task and handler, and the broker delivers.
\* Nobody has to start a run and nothing has to fail.
Fairness ==
  /\ \A r \in RunId : WF_vars(TaskStep(r))
  /\ \A w \in Worker : WF_vars(WorkerStep(w))
  /\ WF_vars(\E w \in Worker : Receive(w))

-----------------------------------------------------------------------------
(* Properties *)

SitesFound(r) == {found[r][i] : i \in DOMAIN found[r]}

\* A run is completed by its last website: by then every website listed for it
\* has been searched, through crashes and redeliveries, and its completed view
\* is set.
CompletedIsSearched ==
  \A r \in RunId :
    runs[r].status = "completed" =>
      runs[r].view /\ \A s \in SitesFound(r) : <<r, s>> \in searched

\* Somebody will still complete the run: its task is under way, or its last
\* website is queued or being searched.
Attended(r) ==
  \/ task[r].pc \in {"view", "scrape", "publish"}
  \/ \E i \in DOMAIN queue : queue[i].run = r /\ queue[i].last
  \/ \E w \in Worker : job[w].pc # "idle" /\ job[w].msg.run = r /\ job[w].msg.last

\* A run stays pending for ever only for one of two reasons: the process died
\* under its task, or its last website ended without reaching the completion.
PendingIsExplained ==
  \A r \in RunId :
    runs[r].status = "pending" => Attended(r) \/ r \in cut \/ r \in missed

\* The status of a run is the truth about its websites: a completed one has been
\* searched whole, and a pending one that nobody works on is explained.
StatusIsTrue == CompletedIsSearched /\ PendingIsExplained

\* A flagged page belongs to the run of the website row it hangs on, and to the
\* same website, also after a later run has taken it over.
PagesFollowRoots ==
  \A x \in pages : x.run = x.root.run /\ x.site = x.root.site /\ x.root \in roots

\* "One row per scraped site root within a workflow run", and one row per
\* flagged page, whatever is retried, while deliveries do not overlap.
RowsAreUnique ==
  reconnects = 0 =>
    /\ \A x, y \in roots : x.run = y.run /\ x.site = y.site => x = y
    /\ \A x, y \in pages : x.site = y.site /\ x.page = y.page => x = y

\* The tables of websites and pages are sound: neither doubled nor torn between
\* two runs.
RowsAreSound == TypeOK /\ PagesFollowRoots /\ RowsAreUnique

\* A run that has failed or completed never changes its status again.
FinalStays ==
  [][\A r \in RunId : runs[r].status \in {"completed", "failed"} =>
       runs'[r].status = runs[r].status]_vars

\* Every listed website is searched, through crashes and redeliveries, unless
\* the task died or failed before the website was queued.
SitesAreSearched ==
  \A r \in RunId, s \in Site :
    s \in SitesFound(r) ~>
      <<r, s>> \in searched \/ r \in cut \/ runs[r].status = "failed"

\* runScrapeForWorkflow "marks the run completed when the last queued site
\* finishes": its handler resolves only once the run is completed.
LastSiteCompletes ==
  [][\A w \in Worker : job[w].pc # "done" /\ job'[w].pc = "done" /\ job[w].msg.last =>
       runs'[job[w].msg.run].status = "completed"]_vars
=============================================================================
