-------------------------- MODULE LinkedInOutreach --------------------------
(***************************************************************************)
(* A LinkedIn search run.  A user's request makes the run and an instance  *)
(* for it; a scraper on that instance, or anyone else who holds the team's *)
(* secret, claims the run, reports leads and progress, and completes it,   *)
(* by calls that may overlap, be repeated, or come from several scrapers.  *)
(* The end of a run deletes its instance.                                  *)
(***************************************************************************)
EXTENDS Naturals

CONSTANTS
  LinkedInSearch, \* what a run is created for: search address, topic, first page
  Run,         \* ids of workflow_runs
  Requester,   \* users, each with one request at a time
  Scraper,     \* callers of the team's process interface
  Lead,        \* profile addresses
  OutreachAwsMayFail,
  MaxOutreachCrashes,
  Nil

ASSUME OutreachAssumption ==
  /\ OutreachAwsMayFail \in BOOLEAN /\ MaxOutreachCrashes \in Nat
  /\ Nil \notin LinkedInSearch /\ Nil \notin Run
  /\ Nil \notin [run : Run, lead : Lead, by : Scraper, decided : BOOLEAN]

VARIABLES
  searchRuns,  \* workflow_runs
  scraperMachine, \* AWS: the runs whose instance exists
  leads,       \* linkedin_leads
  trigger,     \* the request of each user
  call,        \* the call of each scraper
  outreachCrashes,
  claims,      \* history: claims granted, per run, since a report last emptied its steps
  disputed,    \* history: runs claimed twice at once
  mixed,       \* history: runs whose leads were reported twice at once
  left         \* history: runs whose instance nobody was to delete any more

requests == <<trigger, call>>
outreachHistory == <<claims, disputed, mixed, left>>
outreachVars == <<searchRuns, scraperMachine, leads, requests, outreachCrashes, outreachHistory>>

-----------------------------------------------------------------------------
RunRow == [ status  : {"none", "pending", "completed", "failed"},
            search  : LinkedInSearch \cup {Nil},
            claimed : BOOLEAN,     \* stepsContext is not empty
            named   : BOOLEAN ]    \* lightSailInstanceId is set
NoRun == [status |-> "none", search |-> Nil, claimed |-> FALSE, named |-> FALSE]

\* No index makes leads unique: a row is told apart by the scraper that added it.
\* It is decided when its status is not pending.
LeadRow == [ run : Run, lead : Lead, by : Scraper, decided : BOOLEAN ]

Trigger == [ pc : {"idle", "insert", "provision", "name"},
             search : LinkedInSearch \cup {Nil}, run : Run \cup {Nil} ]
NoTrigger == [pc |-> "idle", search |-> Nil, run |-> Nil]

Call == [ pc      : {"idle", "claim", "complete", "delete", "leads", "save"},
          run     : Run \cup {Nil},
          named   : BOOLEAN,                    \* complete: the run as read
          status  : {"completed", "failed"},    \* complete: what is reported
          todo    : SUBSET Lead,                \* leads: not looked up yet
          decides : SUBSET Lead,                \* leads: reported as decided
          reopens : SUBSET Lead,                \* leads: reported as pending
          row     : LeadRow \cup {Nil} ]       \* leads: the row to be saved
NoCall == [ pc |-> "idle", run |-> Nil, named |-> FALSE, status |-> "failed",
            todo |-> {}, decides |-> {}, reopens |-> {}, row |-> Nil ]

OutreachTypeOK ==
  /\ searchRuns \in [Run -> RunRow]
  /\ scraperMachine \subseteq Run
  /\ leads \subseteq LeadRow
  /\ trigger \in [Requester -> Trigger]
  /\ \A u \in Requester : trigger[u].pc \in {"provision", "name"} => trigger[u].run # Nil
  /\ call \in [Scraper -> Call]
  /\ \A p \in Scraper : /\ call[p].pc # "idle" => call[p].run # Nil
                        /\ call[p].pc = "save" => call[p].row # Nil
  /\ outreachCrashes \in 0 .. MaxOutreachCrashes
  /\ claims \in [Run -> Nat]
  /\ disputed \subseteq Run /\ mixed \subseteq Run /\ left \subseteq Run

OutreachInit ==
  /\ searchRuns = [r \in Run |-> NoRun]
  /\ scraperMachine = {}
  /\ leads = {}
  /\ trigger = [u \in Requester |-> NoTrigger]
  /\ call = [p \in Scraper |-> NoCall]
  /\ outreachCrashes = 0
  /\ claims = [r \in Run |-> 0]
  /\ disputed = {} /\ mixed = {} /\ left = {}

RunExists(r) == searchRuns[r].status # "none"
Finished(r) == searchRuns[r].status \in {"completed", "failed"}

-----------------------------------------------------------------------------
(* Starting a run *)

RunsFor(s) == {r \in Run : RunExists(r) /\ searchRuns[r].search = s}

\* A run that was created for the same search is taken again, finished or not.
RunForWorkflow(u, s) ==
  /\ trigger[u].pc = "idle"
  /\ \/ \E r \in RunsFor(s) :
          trigger' = [trigger EXCEPT ![u] = [pc |-> "provision", search |-> s, run |-> r]]
     \/ /\ RunsFor(s) = {}
        /\ trigger' = [trigger EXCEPT ![u] = [pc |-> "insert", search |-> s, run |-> Nil]]
  /\ UNCHANGED <<searchRuns, scraperMachine, leads, call, outreachCrashes, outreachHistory>>

InsertRun(u) ==
  \E r \in Run :
    /\ trigger[u].pc = "insert"
    /\ ~ RunExists(r)
    /\ searchRuns' = [searchRuns EXCEPT ![r] = [NoRun EXCEPT !.status = "pending",
                                                 !.search = trigger[u].search]]
    /\ trigger' = [trigger EXCEPT ![u].pc = "provision", ![u].run = r]
    /\ UNCHANGED <<scraperMachine, leads, call, outreachCrashes, outreachHistory>>

\* The instance's name is made from the run's id: AWS refuses a second one.  A
\* run that has ended will not be ended again by the scraper it now gets.
ProvisionRun(u) ==
  LET r == trigger[u].run IN
  /\ trigger[u].pc = "provision"
  /\ \/ /\ r \notin scraperMachine
        /\ scraperMachine' = scraperMachine \cup {r}
        /\ trigger' = [trigger EXCEPT ![u].pc = "name"]
        /\ left' = IF Finished(r) THEN left \cup {r} ELSE left
     \/ /\ r \in scraperMachine \/ OutreachAwsMayFail
        /\ trigger' = [trigger EXCEPT ![u] = NoTrigger]
        /\ UNCHANGED <<scraperMachine, left>>
  /\ UNCHANGED <<searchRuns, leads, call, outreachCrashes, claims, disputed, mixed>>

NameInstance(u) ==
  /\ trigger[u].pc = "name"
  /\ searchRuns' = [searchRuns EXCEPT ![trigger[u].run].named = TRUE]
  /\ trigger' = [trigger EXCEPT ![u] = NoTrigger]
  /\ UNCHANGED <<scraperMachine, leads, call, outreachCrashes, outreachHistory>>

-----------------------------------------------------------------------------
(* Claim and progress *)

ClaimablePending(r) == searchRuns[r].status = "pending"    \* faulty: also when claimed
Claimable(r) == searchRuns[r].status = "pending" /\ ~ searchRuns[r].claimed

ClaimRun(p, r) ==
  /\ call[p].pc = "idle"
  /\ Claimable(r)
  /\ call' = [call EXCEPT ![p] = [NoCall EXCEPT !.pc = "claim", !.run = r]]
  /\ disputed' = IF \E q \in Scraper : call[q].pc = "claim" /\ call[q].run = r
                   THEN disputed \cup {r} ELSE disputed
  /\ UNCHANGED <<searchRuns, scraperMachine, leads, trigger, outreachCrashes, claims, mixed, left>>

WriteClaim(p) ==
  LET r == call[p].run IN
  /\ call[p].pc = "claim"
  /\ searchRuns' = [searchRuns EXCEPT ![r].claimed = TRUE]
  /\ claims' = [claims EXCEPT ![r] = @ + 1]
  /\ call' = [call EXCEPT ![p] = NoCall]
  /\ UNCHANGED <<scraperMachine, leads, trigger, outreachCrashes, disputed, mixed, left>>

\* Progress needs no claim.  Steps that are reported are written as given, in place
\* of those of the claim, and without any the run can be claimed once more.
UpdateProgress(p, r, steps) ==
  /\ call[p].pc = "idle"
  /\ RunExists(r)
  /\ searchRuns' = IF steps = "absent" THEN searchRuns
                   ELSE [searchRuns EXCEPT ![r].claimed = (steps # "none")]
  /\ claims' = IF steps = "none" THEN [claims EXCEPT ![r] = 0] ELSE claims
  /\ UNCHANGED <<scraperMachine, leads, requests, outreachCrashes, disputed, mixed, left>>

-----------------------------------------------------------------------------
(* Leads *)

ReportsOn(r) == {q \in Scraper : call[q].run = r /\ call[q].pc \in {"leads", "save"}}

\* A scraper reports some leads, some of them as decided, some as pending, and
\* some without a status.
UpsertLeads(p, r, found, decides, reopens) ==
  /\ call[p].pc = "idle"
  /\ RunExists(r)
  /\ call' = [call EXCEPT ![p] = [NoCall EXCEPT !.pc = "leads", !.run = r, !.todo = found,
                                     !.decides = decides, !.reopens = reopens]]
  /\ mixed' = IF ReportsOn(r) # {} THEN mixed \cup {r} ELSE mixed
  /\ UNCHANGED <<searchRuns, scraperMachine, leads, trigger, outreachCrashes, claims, disputed, left>>

ExistingNone(r, l) == {}    \* faulty: leads are not recognised
Existing(r, l) == {x \in leads : x.run = r /\ x.lead = l}

MergedAnew(x, p) ==    \* faulty: a status that is left out becomes pending
  [x EXCEPT !.decided = x.lead \in call[p].decides]
\* A status that is reported, pending or not, replaces the one that was read.
Merged(x, p) ==
  [x EXCEPT !.decided = (@ \/ x.lead \in call[p].decides) /\ x.lead \notin call[p].reopens]

FindLead(p) ==
  \E l \in call[p].todo :
    LET r == call[p].run
        new == [run |-> r, lead |-> l, by |-> p, decided |-> FALSE] IN
    /\ call[p].pc = "leads"
    /\ \E x \in IF Existing(r, l) = {} THEN {new} ELSE Existing(r, l) :
         call' = [call EXCEPT ![p].pc = "save", ![p].todo = @ \ {l},
                                 ![p].decides = @ \ {l}, ![p].row = Merged(x, p)]
    /\ UNCHANGED <<searchRuns, scraperMachine, leads, trigger, outreachCrashes, outreachHistory>>

SameRow(x, y) == x.run = y.run /\ x.lead = y.lead /\ x.by = y.by

\* The row is saved whole, as it was read.
SaveLead(p) ==
  LET row == call[p].row IN
  /\ call[p].pc = "save"
  /\ leads' = {x \in leads : ~ SameRow(x, row)} \cup {row}
  /\ call' = [call EXCEPT ![p] = IF call[p].todo = {} THEN NoCall
                                 ELSE [@ EXCEPT !.pc = "leads", !.row = Nil]]
  /\ UNCHANGED <<searchRuns, scraperMachine, trigger, outreachCrashes, outreachHistory>>

-----------------------------------------------------------------------------
(* Completion *)

CompleteRun(p, r, status) ==
  /\ call[p].pc = "idle"
  /\ RunExists(r)
  /\ call' = [call EXCEPT ![p] = [NoCall EXCEPT !.pc = "complete", !.run = r,
                                     !.status = status, !.named = searchRuns[r].named]]
  /\ UNCHANGED <<searchRuns, scraperMachine, leads, trigger, outreachCrashes, outreachHistory>>

WriteStatusOnly(p) ==    \* faulty: the instance is kept
  /\ call[p].pc = "complete"
  /\ searchRuns' = [searchRuns EXCEPT ![call[p].run].status = call[p].status]
  /\ call' = [call EXCEPT ![p] = NoCall]
  /\ UNCHANGED <<scraperMachine, leads, trigger, outreachCrashes, outreachHistory>>

\* Whatever the run's status is.  The instance is deleted if the run, as it was
\* read, named one.
WriteStatus(p) ==
  LET r == call[p].run IN
  /\ call[p].pc = "complete"
  /\ searchRuns' = [searchRuns EXCEPT ![r].status = call[p].status]
  /\ IF call[p].named
       THEN /\ call' = [call EXCEPT ![p].pc = "delete"]
            /\ UNCHANGED left
       ELSE /\ call' = [call EXCEPT ![p] = NoCall]
            /\ left' = left \cup ({r} \cap scraperMachine)
  /\ UNCHANGED <<scraperMachine, leads, trigger, outreachCrashes, claims, disputed, mixed>>

\* An error of AWS is logged.
DeleteInstance(p) ==
  LET r == call[p].run IN
  /\ call[p].pc = "delete"
  /\ \/ scraperMachine' = scraperMachine \ {r} /\ left' = left \ {r}
     \/ /\ r \in scraperMachine /\ OutreachAwsMayFail
        /\ left' = left \cup {r}
        /\ UNCHANGED scraperMachine
  /\ call' = [call EXCEPT ![p] = NoCall]
  /\ UNCHANGED <<searchRuns, leads, trigger, outreachCrashes, claims, disputed, mixed>>

\* The process dies with the requests and the calls.
OutreachCrash ==
  /\ outreachCrashes < MaxOutreachCrashes
  /\ outreachCrashes' = outreachCrashes + 1
  /\ left' = left \cup {r \in scraperMachine : \E p \in Scraper :
                                          call[p].pc = "delete" /\ call[p].run = r}
  /\ trigger' = [u \in Requester |-> NoTrigger]
  /\ call' = [p \in Scraper |-> NoCall]
  /\ UNCHANGED <<searchRuns, scraperMachine, leads, claims, disputed, mixed>>

-----------------------------------------------------------------------------
TriggerStep(u) ==
  \/ \E s \in LinkedInSearch : RunForWorkflow(u, s)
  \/ InsertRun(u) \/ ProvisionRun(u) \/ NameInstance(u)

AskFor(p, r) ==
  \/ ClaimRun(p, r)
  \/ \E steps \in {"absent", "none", "some"} : UpdateProgress(p, r, steps)
  \/ \E found \in SUBSET Lead \ {{}} :
       \E decides \in SUBSET found : \E reopens \in SUBSET (found \ decides) :
         UpsertLeads(p, r, found, decides, reopens)
  \/ \E status \in {"completed", "failed"} : CompleteRun(p, r, status)

CallStep(p) ==
  WriteClaim(p) \/ FindLead(p) \/ SaveLead(p) \/ WriteStatus(p) \/ DeleteInstance(p)

OutreachNext ==
  \/ \E u \in Requester : TriggerStep(u)
  \/ \E p \in Scraper, r \in Run : AskFor(p, r)
  \/ \E p \in Scraper : CallStep(p)
  \/ OutreachCrash

OutreachSpec == OutreachInit /\ [][OutreachNext]_outreachVars

-----------------------------------------------------------------------------
(* Properties *)

\* A run is granted to one scraper, whatever steps, leads and completions are
\* reported meanwhile and however often it is triggered, until somebody reports that
\* it has no steps, and unless two claims of it overlap.
OneClaim == \A r \in Run \ disputed : claims[r] <= 1

\* The instance of a run that has ended is gone or about to be deleted, unless the
\* run had no name for it yet, AWS or the process failed, or the run was triggered
\* again after its end.
NoIdleInstance ==
  \A r \in scraperMachine \ left :
    Finished(r) => \E p \in Scraper : call[p].pc = "delete" /\ call[p].run = r

\* A run has one row per lead, unless leads of it are reported twice at once.
OneRowPerLead ==
  \A x, y \in leads :
    x.run = y.run /\ x.lead = y.lead /\ x.run \notin mixed => x = y

\* A lead that has been decided is pending again only by the report that says it is:
\* none writes an old status back with the row it has read, unless leads of the run
\* are reported twice at once.
DecidedStays ==
  [][\A x \in leads :
       x.decided /\ x.run \notin mixed' =>
         \/ x \in leads'
         \/ \E p \in Scraper :
              SaveLead(p) /\ SameRow(x, call[p].row) /\ x.lead \in call[p].reopens]_outreachVars
=============================================================================
