---------------------------- MODULE LinkTracking ----------------------------
(***************************************************************************)
(* Link tracking: a scraper outside posts the links it collected for a     *)
(* workflow (TeamProcessingService.processLinks), new ones are stored and  *)
(* announced, and the listener tells the user's Telegram chat about them,  *)
(* in every run of the workflow.  A run is made when the user writes to    *)
(* the bot (KijijiLinkNotificationHandler.handleWebhook).                  *)
(*                                                                         *)
(* One user is modelled; all the trackers are linked to his connector,     *)
(* which may be linked to more than one workflow.                          *)
(***************************************************************************)
EXTENDS Naturals, FiniteSets

CONSTANTS
    Tracker,            \* the workflows
    TrackerType,        \* the workflowType of each
    LeadConnector,      \* the connector type of linkedConnectors[0] of each
    Link,
    Batch,               \* the posts of the scraper; each is made once
    Greeting,           \* the messages of the user; each is sent once
    ChunkSize,          \* links per Telegram message (5 in the code)
    MaxTrackRuns,       \* bound on the runs ever made
    MaxTrackCrashes     \* bound on the restarts of the server

TrackingAssumption ==
    /\ Tracker # {} /\ "nobody" \notin Tracker
    /\ DOMAIN TrackerType = Tracker
    /\ LeadConnector \in [Tracker -> {"Kijiji", "Facebook"}]
    /\ ChunkSize \in Nat \ {0}
    /\ MaxTrackRuns \in Nat /\ MaxTrackCrashes \in Nat
ASSUME TrackingAssumption

VARIABLES
    known,     \* rows of kijiji_links
    posted,    \* posts at work
    runOf,     \* the workflow of each run
    greeting,  \* messages at work
    notice,    \* new_kijiji_item messages, by the post that published them
    told,      \* history: how often the chat was told of a link
    unannounced, unheard, unsent,  \* history: links stored and not published,
                                   \* published to nobody, and not sent
    redelivered,                   \* history: posts whose notice came twice
    raced,     \* history: trackers for which two messages looked for a run at once
    trackCrashes

trackingVars == <<known, posted, runOf, greeting, notice, told, unannounced, unheard,
                  unsent, redelivered, raced, trackCrashes>>

-----------------------------------------------------------------------------
(* Types *)

TrackRun == 1..MaxTrackRuns
Nobody == "nobody"

PostState == [pc : {"idle", "read", "insert", "publish", "done"}, tracker : Tracker,
              links : SUBSET Link, new : SUBSET Link]

\* A greeting that has nothing left to find is done.
GreetingState == [pc : {"idle", "find", "create"}, todo : SUBSET Tracker,
                  tracker : Tracker, failed : BOOLEAN]

\* left is what is still to be sent to each run.
NoticeState == [pc : {"none", "queued", "telling", "acked"}, left : [TrackRun -> SUBSET Link]]
NothingLeft == [r \in TrackRun |-> {}]

TrackingTypeOK ==
    /\ known \in [Tracker -> SUBSET Link]
    /\ posted \in [Batch -> PostState]
    /\ runOf \in [TrackRun -> Tracker \cup {Nobody}]
    /\ greeting \in [Greeting -> GreetingState]
    /\ notice \in [Batch -> NoticeState]
    /\ told \in [Tracker \X Link -> Nat]
    /\ \A lost \in {unannounced, unheard, unsent} : lost \subseteq Tracker \X Link
    /\ redelivered \subseteq Batch
    /\ raced \subseteq Tracker
    /\ trackCrashes \in 0..MaxTrackCrashes

AnyTracker == CHOOSE w \in Tracker : TRUE

TrackingInit ==
    /\ known = [w \in Tracker |-> {}]
    /\ posted = [p \in Batch |-> [pc |-> "idle", tracker |-> AnyTracker, links |-> {}, new |-> {}]]
    /\ runOf = [r \in TrackRun |-> Nobody]
    /\ greeting = [g \in Greeting |-> [pc |-> "idle", todo |-> {}, tracker |-> AnyTracker,
                                       failed |-> FALSE]]
    /\ notice = [p \in Batch |-> [pc |-> "none", left |-> NothingLeft]]
    /\ told = [wl \in Tracker \X Link |-> 0]
    /\ unannounced = {} /\ unheard = {} /\ unsent = {}
    /\ redelivered = {}
    /\ raced = {}
    /\ trackCrashes = 0

RunsOf(w) == {r \in TrackRun : runOf[r] = w}
NewOf(p) == {posted[p].tracker} \X posted[p].new

-----------------------------------------------------------------------------
(* processLinks *)

greetVars == <<runOf, greeting, raced>>
toldVars == <<told, unheard, unsent, redelivered, trackCrashes>>

PostLinks(p) ==
    /\ posted[p].pc = "idle"
    /\ \E w \in Tracker, links \in SUBSET Link \ {{}} :
         posted' = [posted EXCEPT ![p] = [pc |-> "read", tracker |-> w, links |-> links, new |-> {}]]
    /\ UNCHANGED <<known, notice, unannounced, greetVars, toldVars>>

\* The links known already are left out,
FindKnown(p) ==
    /\ posted[p].pc = "read"
    /\ LET new == posted[p].links \ known[posted[p].tracker]
       IN posted' = [posted EXCEPT ![p].new = new, ![p].links = {},
                                     ![p].pc = IF new = {} THEN "done" ELSE "insert"]
    /\ UNCHANGED <<known, notice, unannounced, greetVars, toldVars>>

\* the others inserted: those the unique index accepts, and if it refuses one
\* the call fails and nothing is published,
InsertLinks(p) ==
    /\ posted[p].pc = "insert"
    /\ LET w == posted[p].tracker
       IN /\ known' = [known EXCEPT ![w] = @ \cup posted[p].new]
          /\ IF posted[p].new \cap known[w] = {}
               THEN posted' = [posted EXCEPT ![p].pc = "publish"] /\ UNCHANGED unannounced
               ELSE /\ posted' = [posted EXCEPT ![p].pc = "done"]
                    /\ unannounced' = unannounced \cup ({w} \X (posted[p].new \ known[w]))
    /\ UNCHANGED <<notice, greetVars, toldVars>>

\* and announced.
PublishLinks(p) ==
    /\ posted[p].pc = "publish"
    /\ notice' = [notice EXCEPT ![p].pc = "queued"]
    /\ posted' = [posted EXCEPT ![p].pc = "done"]
    /\ UNCHANGED <<known, unannounced, greetVars, toldVars>>

\* MongoDB or the broker fails.
FailPost(p) ==
    /\ posted[p].pc \in {"read", "insert", "publish"}
    /\ posted' = [posted EXCEPT ![p].pc = "done"]
    /\ unannounced' = IF posted[p].pc = "publish" THEN unannounced \cup NewOf(p) ELSE unannounced
    /\ UNCHANGED <<known, notice, greetVars, toldVars>>

-----------------------------------------------------------------------------
(* handleNewKijijiItem *)

postVars == <<known, posted, unannounced, trackCrashes>>

\* The runs of the workflow are read once, whatever their status is.
TakeNotice(p) ==
    /\ notice[p].pc = "queued"
    /\ LET runs == RunsOf(posted[p].tracker)
       IN /\ notice' = [notice EXCEPT ![p].pc = "telling",
                ![p].left = [r \in TrackRun |-> IF r \in runs THEN posted[p].new ELSE {}]]
          /\ unheard' = IF runs = {} THEN unheard \cup NewOf(p) ELSE unheard
    /\ UNCHANGED <<told, unsent, redelivered, postVars, greetVars>>

Least(m, n) == IF m < n THEN m ELSE n

\* Faulty: only the first chunk is sent.
TellFirstChunk(p) ==
    /\ notice[p].pc = "telling"
    /\ \E r \in TrackRun :
         /\ notice[p].left[r] # {}
         /\ \E chunk \in SUBSET notice[p].left[r] :
              /\ Cardinality(chunk) = Least(ChunkSize, Cardinality(notice[p].left[r]))
              /\ notice' = [notice EXCEPT ![p].left[r] = {}]
              /\ told' = [wl \in DOMAIN told |->
                            told[wl] + IF wl[1] = posted[p].tracker /\ wl[2] \in chunk THEN 1 ELSE 0]
    /\ UNCHANGED <<unheard, unsent, redelivered, postVars, greetVars>>

\* One message for each chunk of links, one run after the other.
TellChunk(p) ==
    /\ notice[p].pc = "telling"
    /\ \E r \in TrackRun :
         /\ notice[p].left[r] # {}
         /\ \A q \in 1..(r - 1) : notice[p].left[q] = {}
         /\ \E chunk \in SUBSET notice[p].left[r] :
              /\ Cardinality(chunk) = Least(ChunkSize, Cardinality(notice[p].left[r]))
              /\ notice' = [notice EXCEPT ![p].left[r] = @ \ chunk]
              /\ told' = [wl \in DOMAIN told |->
                            told[wl] + IF wl[1] = posted[p].tracker /\ wl[2] \in chunk THEN 1 ELSE 0]
    /\ UNCHANGED <<unheard, unsent, redelivered, postVars, greetVars>>

AckNotice(p) ==
    /\ notice[p].pc = "telling"
    /\ notice[p].left = NothingLeft
    /\ notice' = [notice EXCEPT ![p].pc = "acked"]
    /\ UNCHANGED <<told, unheard, unsent, redelivered, postVars, greetVars>>

\* Telegram refuses a message: the error is caught, the rest is not sent, and
\* the notice is acknowledged all the same.
FailToTell(p) ==
    /\ notice[p].pc = "telling"
    /\ notice[p].left # NothingLeft
    /\ notice' = [notice EXCEPT ![p] = [pc |-> "acked", left |-> NothingLeft]]
    /\ unsent' = unsent \cup {wl \in NewOf(p) : \E r \in TrackRun : wl[2] \in notice[p].left[r]}
    /\ UNCHANGED <<told, unheard, redelivered, postVars, greetVars>>

-----------------------------------------------------------------------------
(* handleWebhook *)

tellVars == <<known, posted, notice, told, unannounced, unheard, unsent, redelivered, trackCrashes>>

\* The user writes to the bot: all the workflows of his connector are found.
Greet(g) ==
    /\ greeting[g].pc = "idle"
    /\ greeting' = [greeting EXCEPT ![g].pc = "find", ![g].todo = Tracker]
    /\ UNCHANGED <<runOf, raced, tellVars>>

\* For each, its run is looked up,
FindTrackRun(g) ==
    /\ greeting[g].pc = "find"
    /\ \E w \in greeting[g].todo :
         /\ greeting' = IF RunsOf(w) = {}
              THEN [greeting EXCEPT ![g].todo = @ \ {w}, ![g].pc = "create", ![g].tracker = w]
              ELSE [greeting EXCEPT ![g].todo = @ \ {w}]
         /\ raced' = IF RunsOf(w) = {} /\ \E h \in Greeting :
                             greeting[h].pc = "create" /\ greeting[h].tracker = w
                       THEN raced \cup {w} ELSE raced
    /\ UNCHANGED <<runOf, tellVars>>

\* and created if there is none: createWorkflowRunFromPrimaryIdentifier looks
\* for a workflow of the same type again, by the connector that comes first,
Candidates(w) ==
    IF LeadConnector[w] # "Kijiji" THEN {} ELSE {v \in Tracker : TrackerType[v] = TrackerType[w]}

CreateTrackRun(g) ==
    /\ greeting[g].pc = "create"
    /\ \E v \in Candidates(greeting[g].tracker), r \in TrackRun :
         /\ runOf[r] = Nobody
         /\ \A q \in 1..(r - 1) : runOf[q] # Nobody
         /\ runOf' = [runOf EXCEPT ![r] = v]
    /\ greeting' = [greeting EXCEPT ![g].pc = "find", ![g].tracker = AnyTracker]
    /\ UNCHANGED <<raced, tellVars>>

\* and when it finds none, or a statement fails, the other workflows are left.
StillLooking(g) == greeting[g].pc = "create" \/ greeting[g].todo # {}
Abandoned(state) == [state EXCEPT !.pc = "find", !.todo = {}, !.tracker = AnyTracker, !.failed = TRUE]

FailGreeting(g) ==
    /\ StillLooking(g)
    /\ greeting' = [greeting EXCEPT ![g] = Abandoned(@)]
    /\ UNCHANGED <<runOf, raced, tellVars>>

-----------------------------------------------------------------------------
(* A restart: requests die, a notice not acknowledged is delivered again. *)

TrackCrash ==
    /\ trackCrashes < MaxTrackCrashes
    /\ trackCrashes' = trackCrashes + 1
    /\ posted' = [p \in Batch |-> IF posted[p].pc = "idle" THEN posted[p]
                                 ELSE [posted[p] EXCEPT !.pc = "done"]]
    /\ unannounced' = unannounced \cup UNION {NewOf(p) : p \in {q \in Batch : posted[q].pc = "publish"}}
    /\ greeting' = [g \in Greeting |-> IF StillLooking(g) THEN Abandoned(greeting[g])
                                                       ELSE greeting[g]]
    /\ redelivered' = redelivered \cup {p \in Batch : notice[p].pc = "telling"}
    /\ notice' = [p \in Batch |-> IF notice[p].pc = "telling"
                    THEN [pc |-> "queued", left |-> NothingLeft] ELSE notice[p]]
    /\ UNCHANGED <<known, runOf, told, unheard, unsent, raced>>

Posting(p) == FindKnown(p) \/ InsertLinks(p) \/ PublishLinks(p) \/ FailPost(p)
Telling(p) == TakeNotice(p) \/ TellChunk(p) \/ AckNotice(p) \/ FailToTell(p)
Greeted(g) == FindTrackRun(g) \/ CreateTrackRun(g) \/ FailGreeting(g)

TrackingNext ==
    \/ \E p \in Batch : PostLinks(p) \/ Posting(p) \/ Telling(p)
    \/ \E g \in Greeting : Greet(g) \/ Greeted(g)
    \/ TrackCrash

\* Requests proceed and the broker delivers.
TrackingFairness == \A p \in Batch : WF_trackingVars(Posting(p)) /\ WF_trackingVars(Telling(p))

TrackingSpec == TrackingInit /\ [][TrackingNext]_trackingVars /\ TrackingFairness

-----------------------------------------------------------------------------
(* Properties *)

\* Another workflow of the user has the same type: a run that is made for the
\* one may be made of the other, again with each message.
Alike(w) == \E v \in Tracker \ {w} : TrackerType[v] = TrackerType[w]

\* The chat is told once of a link, however many posts carry it at the same
\* time, unless two messages of the user raced for the run, the run may be
\* another workflow's, or a restart had the broker deliver the notice again.
ToldOnce ==
    \A w \in Tracker, l \in Link :
      \/ told[<<w, l>>] <= 1
      \/ w \in raced \/ Alike(w)
      \/ \E p \in redelivered : posted[p].tracker = w /\ l \in posted[p].new

\* A user has one run per tracker, unless two of his messages looked for it at
\* the same time, or two trackers have the same type.
OneTrackRun == \A w \in Tracker : Cardinality(RunsOf(w)) <= 1 \/ w \in raced \/ Alike(w)

\* A notice that was published and not acknowledged is on its way.
OnItsWay(w, l) ==
    \E p \in Batch :
      /\ <<w, l>> \in NewOf(p)
      /\ posted[p].pc = "publish" \/ notice[p].pc = "queued" \/ \E r \in TrackRun : l \in notice[p].left[r]

\* Every link stored is told or on its way to be, unless its post failed or
\* clashed with another before it was announced, nobody had written to the bot
\* yet, or Telegram refused a message: such links are known from then on, and
\* nothing announces them again.
StoredIsTold ==
    \A w \in Tracker : \A l \in known[w] :
      \/ told[<<w, l>>] > 0
      \/ OnItsWay(w, l)
      \/ <<w, l>> \in unannounced \cup unheard \cup unsent

\* Nothing is told twice, nothing that is known goes untold, and a user has one
\* run, outside of the named races, losses and likenesses.
NoticesAreSound == TrackingTypeOK /\ ToldOnce /\ OneTrackRun /\ StoredIsTold
=============================================================================
