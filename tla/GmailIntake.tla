----------------------------- MODULE GmailIntake -----------------------------
(***************************************************************************)
(* How new mail gets into the product.  Gmail announces a mailbox change   *)
(* on Pub/Sub with the mailbox's history id; messageHandler moves the      *)
(* connector's cursor (lastHistoryId) to it, fetches what was added since  *)
(* the old cursor, stores each message once and queues it for the          *)
(* workflows.  Pub/Sub may deliver an announcement late, out of order and  *)
(* more than once, and several deliveries are handled at the same time.    *)
(* The connector is read at the start and saved as a whole row later.      *)
(***************************************************************************)
EXTENDS Naturals, FiniteSets

CONSTANTS
  Mail,           \* messages that may arrive in the mailbox
  Own,            \* those sent from the mailbox's own address
  Handler,        \* announcements handled at the same time
  FirstSync,      \* how many messages the first synchronisation lists
  PageSize,       \* how many the history API returns at once
  Clerk,          \* other code that reads the connector and saves it later
  ApiMayFail,     \* Gmail calls may fail
  GrantMayLapse,  \* the user may revoke the refresh token
  MaxExpiries, MaxDuplicates, MaxCrashes, MaxErrands, \* bounds
  None

ASSUME IntakeAssumption ==
  /\ Own \subseteq Mail
  /\ IsFiniteSet(Mail)
  /\ FirstSync \in Nat /\ PageSize \in Nat
  /\ {ApiMayFail, GrantMayLapse} \subseteq BOOLEAN
  /\ {MaxExpiries, MaxDuplicates, MaxCrashes, MaxErrands} \subseteq Nat
  /\ None \notin Mail

VARIABLES
  arrived,    \* Gmail: the history id at which each message was added, or 0
  grant,      \* Gmail: the consent whose refresh token is honoured, or 0
  pushes,     \* announcements Pub/Sub has yet to deliver, by history id
  connector,  \* the connectors row
  stored,     \* rows of user_incoming_emails per message
  queued,     \* PROCESS_INCOMING_EMAIL messages published per message
  job,        \* what each handler is doing
  errand,     \* what each clerk is doing
  expiries, duplicates, crashes, errands,
  lost,       \* history: messages a failed or dead handler was to store
  unlisted,   \* history: messages a listing left out
  unheeded,   \* history: messages announced while the connector was inactive
  contested   \* history: messages two handlers were to store at the same time

gmail   == <<arrived, grant>>
tables  == <<connector, stored>>
faults  == <<expiries, duplicates, crashes, errands>>
history == <<lost, unlisted, unheeded, contested>>
vars    == <<gmail, pushes, tables, queued, job, errand, faults, history>>

-----------------------------------------------------------------------------
HistoryId == 0 .. Cardinality(Mail)
Consent   == 0 .. MaxErrands + 1

Connector == [ status : {"active", "inactive"},
               cursor : HistoryId,                  \* 0: never synchronised
               token  : {"fresh", "expiring"},
               consent : Consent ]                  \* of its refresh token

Pc == {"idle", "read", "renew", "deactivate", "advance", "list", "next",
       "save", "publish", "done"}

Job == [ pc   : Pc,
         push : HistoryId,
         snap : Connector,           \* the row as read at the start
         todo : SUBSET Mail,
         mail : Mail \cup {None} ]

NewConnector == [status |-> "active", cursor |-> 0, token |-> "fresh", consent |-> 1]
Idle == [pc |-> "idle", push |-> 0, snap |-> NewConnector, todo |-> {}, mail |-> None]

Errand == [pc : {"idle", "watch", "renew", "verify"}, snap : Connector]
NoErrand == [pc |-> "idle", snap |-> NewConnector]

TypeOK ==
  /\ arrived \in [Mail -> HistoryId]
  /\ grant \in Consent
  /\ pushes \subseteq HistoryId
  /\ connector \in Connector
  /\ stored \in [Mail -> Nat]
  /\ queued \in [Mail -> Nat]
  /\ job \in [Handler -> Job]
  /\ \A h \in Handler : job[h].pc \in {"save", "publish"} => job[h].mail # None
  /\ errand \in [Clerk -> Errand]
  /\ expiries \in 0 .. MaxExpiries
  /\ duplicates \in 0 .. MaxDuplicates
  /\ crashes \in 0 .. MaxCrashes
  /\ errands \in 0 .. MaxErrands
  /\ lost \subseteq Mail /\ unlisted \subseteq Mail
  /\ unheeded \subseteq Mail /\ contested \subseteq Mail

Init ==
  /\ arrived = [m \in Mail |-> 0]
  /\ grant = 1
  /\ pushes = {}
  /\ connector = NewConnector
  /\ stored = [m \in Mail |-> 0]
  /\ queued = [m \in Mail |-> 0]
  /\ job = [h \in Handler |-> Idle]
  /\ errand = [k \in Clerk |-> NoErrand]
  /\ expiries = 0 /\ duplicates = 0 /\ crashes = 0 /\ errands = 0
  /\ lost = {} /\ unlisted = {} /\ unheeded = {} /\ contested = {}

-----------------------------------------------------------------------------
(* Gmail and Pub/Sub *)

Inbox == {m \in Mail : arrived[m] # 0}

\* A message arrives and the new history id is announced.
Arrive(m) ==
  LET now == Cardinality(Inbox) + 1 IN
  /\ arrived[m] = 0
  /\ arrived' = [arrived EXCEPT ![m] = now]
  /\ pushes' = pushes \cup {now}
  /\ UNCHANGED <<grant, tables, queued, job, errand, faults, history>>

Duplicate(p) ==
  /\ duplicates < MaxDuplicates
  /\ \E m \in Inbox : arrived[m] = p
  /\ duplicates' = duplicates + 1
  /\ pushes' = pushes \cup {p}
  /\ UNCHANGED <<gmail, tables, queued, job, errand, expiries, crashes, errands, history>>

Revoke ==
  /\ GrantMayLapse /\ grant # 0
  /\ grant' = 0
  /\ UNCHANGED <<arrived, pushes, tables, queued, job, errand, faults, history>>

\* Time brings the access token close to its expiry.
Expire ==
  /\ expiries < MaxExpiries
  /\ expiries' = expiries + 1
  /\ connector' = [connector EXCEPT !.token = "expiring"]
  /\ UNCHANGED <<gmail, pushes, stored, queued, job, errand, duplicates, crashes, errands,
                 history>>

-----------------------------------------------------------------------------
(* messageHandler *)

Goto(h, pc) == job' = [job EXCEPT ![h].pc = pc]

Deliver(h, p) ==
  /\ job[h].pc = "idle"
  /\ p \in pushes
  /\ pushes' = pushes \ {p}
  /\ job' = [job EXCEPT ![h] = [Idle EXCEPT !.pc = "read", !.push = p]]
  /\ UNCHANGED <<gmail, tables, queued, errand, faults, history>>

\* What an announcement of history id p tells of.
Announced(p) == {m \in Inbox : arrived[m] <= p}

ReadConnector(h) ==
  /\ job[h].pc = "read"
  /\ IF connector.status = "active"
     THEN /\ job' = [job EXCEPT ![h].snap = connector,
                                ![h].pc = IF connector.token = "expiring"
                                          THEN "renew" ELSE "advance"]
          /\ UNCHANGED unheeded
     ELSE /\ Goto(h, "done")
          /\ unheeded' = unheeded \cup Announced(job[h].push)
  /\ UNCHANGED <<gmail, pushes, tables, queued, errand, faults, lost, unlisted, contested>>

\* Renewal asks Gmail for an access token with the refresh token of the row
\* as it was read, and writes the outcome with the rest of that row.
Renewed(row, row2) ==
  \/ row.consent = grant /\ row2 = [row EXCEPT !.token = "fresh"]
  \/ (row.consent # grant \/ ApiMayFail) /\ row2 = [row EXCEPT !.status = "inactive"]

RenewToken(h) ==
  /\ job[h].pc = "renew"
  /\ Renewed(job[h].snap, connector')
  /\ job' = [job EXCEPT ![h].snap = connector',
                        ![h].pc = IF connector'.token = "fresh" THEN "advance"
                                                                ELSE "deactivate"]
  /\ UNCHANGED <<gmail, pushes, stored, queued, errand, faults, history>>

\* After a failed renewal the watch is stopped and the row is saved again.
Deactivate(h) ==
  /\ job[h].pc = "deactivate"
  /\ connector' = [job[h].snap EXCEPT !.status = "inactive"]
  /\ unheeded' = unheeded \cup Announced(job[h].push)
  /\ Goto(h, "done")
  /\ UNCHANGED <<gmail, pushes, stored, queued, errand, faults, lost, unlisted, contested>>

\* The cursor moves before anything has been fetched.
AdvanceCursor(h) ==
  /\ job[h].pc = "advance"
  /\ connector' = [job[h].snap EXCEPT !.cursor = job[h].push]
  /\ Goto(h, "list")
  /\ UNCHANGED <<gmail, pushes, stored, queued, errand, faults, history>>

\* The messages a listing from cursor c returns: the most recent ones at the
\* first synchronisation, later the first page of those added since.
ListedLate(c) ==    \* faulty: misses the first message after the cursor
  IF c = 0 THEN {m \in Inbox : arrived[m] + FirstSync > Cardinality(Inbox)}
           ELSE {m \in Inbox : arrived[m] > c + 1 /\ arrived[m] <= c + PageSize}
Listed(c) ==
  IF c = 0 THEN {m \in Inbox : arrived[m] + FirstSync > Cardinality(Inbox)}
           ELSE {m \in Inbox : arrived[m] > c /\ arrived[m] <= c + PageSize}
Unlisted(c) ==
  IF c = 0 THEN {m \in Inbox : arrived[m] + FirstSync <= Cardinality(Inbox)}
           ELSE {m \in Inbox : arrived[m] > c + PageSize}

\* An error is logged and the announcement acknowledged all the same.
GiveUp(h, S) ==
  /\ ApiMayFail
  /\ lost' = lost \cup S
  /\ Goto(h, "done")

\* What another handler has listed and not stored yet.
InOtherHands(h) ==
  UNION {job[g].todo \cup (IF job[g].pc = "save" THEN {job[g].mail} ELSE {})
         : g \in Handler \ {h}}

ListMail(h) ==
  LET c == job[h].snap.cursor IN
  /\ job[h].pc = "list"
  /\ \/ /\ job' = [job EXCEPT ![h].todo = Listed(c), ![h].pc = "next"]
        /\ unlisted' = unlisted \cup Unlisted(c)
        /\ contested' = contested \cup (Listed(c) \cap InOtherHands(h))
        /\ UNCHANGED lost
     \/ /\ GiveUp(h, {m \in Inbox : arrived[m] > c})
        /\ UNCHANGED <<unlisted, contested>>
  /\ UNCHANGED <<gmail, pushes, tables, queued, errand, faults, unheeded>>

KnownNever(m) == FALSE    \* faulty: stored messages are not recognised
Known(m) == stored[m] > 0

\* A message that is stored already or comes from the mailbox itself is passed
\* over; any other is fetched, which changes nothing here.
CheckMailOnce(h) ==    \* faulty: a known message ends the loop
  /\ job[h].pc = "next"
  /\ \E m \in job[h].todo :
       job' = [job EXCEPT ![h].todo = @ \ {m}, ![h].mail = m,
                          ![h].pc = IF Known(m) THEN "done" ELSE "save"]
  /\ UNCHANGED <<gmail, pushes, tables, queued, errand, faults, history>>

CheckMail(h) ==
  /\ job[h].pc = "next"
  /\ \E m \in job[h].todo :
       \/ /\ Known(m) \/ m \in Own
          /\ job' = [job EXCEPT ![h].todo = @ \ {m}]
          /\ UNCHANGED lost
       \/ /\ ~ Known(m) /\ m \notin Own
          /\ job' = [job EXCEPT ![h].todo = @ \ {m}, ![h].mail = m, ![h].pc = "save"]
          /\ UNCHANGED lost
       \/ /\ ~ Known(m)
          /\ GiveUp(h, job[h].todo)
  /\ UNCHANGED <<gmail, pushes, tables, queued, errand, faults, unlisted, unheeded, contested>>

SaveMail(h) ==
  /\ job[h].pc = "save"
  /\ stored' = [stored EXCEPT ![job[h].mail] = @ + 1]
  /\ Goto(h, "publish")
  /\ UNCHANGED <<gmail, pushes, connector, queued, errand, faults, history>>

PublishMail(h) ==
  /\ job[h].pc = "publish"
  /\ queued' = [queued EXCEPT ![job[h].mail] = @ + 1]
  /\ job' = [job EXCEPT ![h].mail = None, ![h].pc = "next"]
  /\ UNCHANGED <<gmail, pushes, tables, errand, faults, history>>

\* The announcement is acknowledged whatever has happened.
Ack(h) ==
  /\ job[h].pc = "done" \/ (job[h].pc = "next" /\ job[h].todo = {})
  /\ job' = [job EXCEPT ![h] = Idle]
  /\ UNCHANGED <<gmail, pushes, tables, queued, errand, faults, history>>

-----------------------------------------------------------------------------
(* Other code that saves the connector as it read it: RENEW_WATCH, the token   *)
(* renewal before a reply or on RENEW_TOKEN, and the user's new consent        *)

StartErrand(k) ==
  /\ errand[k].pc = "idle" /\ errands < MaxErrands
  /\ errands' = errands + 1
  /\ \/ /\ errand' = [errand EXCEPT ![k] = [pc |-> "watch", snap |-> connector]]
        /\ UNCHANGED grant
     \/ /\ connector.token = "expiring"
        /\ errand' = [errand EXCEPT ![k] = [pc |-> "renew", snap |-> connector]]
        /\ UNCHANGED grant
     \/ /\ grant' = errands + 2
        /\ errand' = [errand EXCEPT ![k] =
                        [pc |-> "verify", snap |-> [connector EXCEPT !.consent = grant']]]
  /\ UNCHANGED <<arrived, pushes, tables, queued, job, expiries, duplicates, crashes,
                 history>>

\* The watch changes nothing modelled; consent makes the connector active with
\* a new token and keeps the cursor it had when it was read.
FinishErrand(k) ==
  LET row == errand[k].snap IN
  /\ \/ errand[k].pc = "watch" /\ connector' = row
     \/ errand[k].pc = "renew" /\ Renewed(row, connector')
     \/ /\ errand[k].pc = "verify"
        /\ connector' = [row EXCEPT !.status = "active", !.token = "fresh"]
     \/ /\ errand[k].pc \in {"watch", "verify"} /\ ApiMayFail
        /\ UNCHANGED connector
  /\ errand' = [errand EXCEPT ![k] = NoErrand]
  /\ UNCHANGED <<gmail, pushes, stored, queued, job, faults, history>>

-----------------------------------------------------------------------------
\* What a handler has taken upon itself to store.
Charge(h) ==
  CASE job[h].pc = "list" -> {m \in Inbox : arrived[m] > job[h].snap.cursor}
    [] job[h].pc = "next" -> job[h].todo
    [] job[h].pc = "save" -> job[h].todo \cup {job[h].mail}
    [] job[h].pc = "publish" -> job[h].todo
    [] OTHER -> {}

\* The process dies; Pub/Sub delivers again what was not acknowledged.
Crash ==
  /\ crashes < MaxCrashes
  /\ crashes' = crashes + 1
  /\ lost' = lost \cup UNION {Charge(h) : h \in Handler}
  /\ pushes' = pushes \cup {job[h].push : h \in {g \in Handler : job[g].pc # "idle"}}
  /\ job' = [h \in Handler |-> Idle]
  /\ errand' = [k \in Clerk |-> NoErrand]
  /\ UNCHANGED <<gmail, tables, queued, expiries, duplicates, errands, unlisted, unheeded,
                 contested>>

HandlerStep(h) ==
  \/ ReadConnector(h) \/ RenewToken(h) \/ Deactivate(h) \/ AdvanceCursor(h)
  \/ ListMail(h) \/ CheckMail(h) \/ SaveMail(h) \/ PublishMail(h) \/ Ack(h)

Next ==
  \/ \E m \in Mail : Arrive(m)
  \/ \E p \in HistoryId : Duplicate(p)
  \/ Revoke \/ Expire \/ Crash
  \/ \E k \in Clerk : StartErrand(k) \/ FinishErrand(k)
  \/ \E h \in Handler, p \in HistoryId : Deliver(h, p)
  \/ \E h \in Handler : HandlerStep(h)

Spec == Init /\ [][Next]_vars

\* Pub/Sub delivers every announcement and the event loop resumes handlers.
Fairness ==
  /\ \A p \in HistoryId : WF_vars(\E h \in Handler : Deliver(h, p))
  /\ \A h \in Handler : WF_vars(HandlerStep(h))

-----------------------------------------------------------------------------
(* Properties *)

\* No message falls between two announcements: with cursors read early, saved
\* late and moved backwards by concurrent handlers, every message in the
\* mailbox is stored, or some handler has it in charge, or an announcement of
\* it is still to be handled -- or it is known where it was lost.
NoMailSlipsThrough ==
  \A m \in Inbox \ Own :
    \/ stored[m] > 0
    \/ \E h \in Handler : m \in Charge(h)
    \/ \E p \in pushes : m \in Announced(p)
    \/ \E h \in Handler : /\ job[h].pc \in {"read", "renew", "deactivate", "advance"}
                          /\ m \in Announced(job[h].push)
    \/ m \in lost \cup unlisted \cup unheeded

Accounted(m) ==
  \/ stored[m] > 0
  \/ \E h \in Handler : m \in Charge(h)
  \/ m \in lost \cup unlisted

Covered(c) == \A m \in Inbox \ Own : arrived[m] <= c => Accounted(m)

\* The cursor never runs ahead of the mail, although it is saved before anything
\* is fetched and may be overwritten by rows read before: what lies at or below
\* it is stored, in a handler's charge, lost in a caught error or a crash, or
\* was left out of a listing.  Mail announced while the connector was inactive
\* is therefore still found by the listing that follows its new consent.
CursorCoversMail == Covered(connector.cursor)

\* A message is stored and queued only once, whatever is announced again, fails
\* half-way or is listed again after a crash, except when two handlers have
\* listed it and neither has stored it yet.
StoredOnce == \A m \in Mail \ contested : stored[m] <= 1 /\ queued[m] <= 1
=============================================================================
