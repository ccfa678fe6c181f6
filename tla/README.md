# pancedar backend: TLA+ models, checks and proofs

The backend (`src/`, NestJS) runs automations for teams: it watches Gmail
accounts and answers mail, searches businesses and their websites, drives
LinkedIn and Kijiji scrapers, drafts blog posts, registers parking, and answers
on Telegram, phone and chat. State lives in a relational database and MongoDB,
work travels through RabbitMQ, Gmail announces mail through Google Pub/Sub.

This directory holds models of the parts whose correctness depends on the order
of things: several handlers running at once, messages delivered again, a
process that dies between two writes, rows saved as they were read long before.

## The system

Paths are relative to `src/src/`.

| part | state it keeps | operations | talks to | hard because |
|---|---|---|---|---|
| **queue** (`queue/`) | RabbitMQ queues, one per topic | `publish`, handlers on a topic | every pipeline | at-least-once delivery, requeue on throw, caught errors are acknowledged |
| **gmail intake** (`connector/gmail/`, `connector/google-connector-auth.service.ts`) | `connectors` row (status, tokens, `lastHistoryId`), `user_incoming_emails` | `messageHandler`, token renewal, watch renewal, new consent | Gmail, Pub/Sub, queue | the cursor is saved before mail is fetched; whole rows are saved as read earlier; announcements overlap |
| **gmail cron** (`connector/gmail/google-cron.ts`) | a lock in the cache | publish RENEW_TOKEN, RENEW_WATCH | queue | its selection finds no connector |
| **email assistant** (`workflows/workflow-queue-handler.service.ts`, `workflows/email-assistant/`, `workflows/steps/email/`) | `workflow_runs`, `user_incoming_emails` | PROCESS_INCOMING_EMAIL, EMAIL_ASSISTANT, EMAIL_WORKFLOW_REPLY, EMAIL_WORKFLOW_REPLY_GMAIL, edit draft, approve | queue, language model, Gmail | redelivery, crashes between publish and update, concurrent approvals, disconnection of the connector |
| **business scraper** (`workflows/google-business-scraper/`) | `workflow_runs`, `google_root_websites`, `google_flagged_pages`, a task in memory | start a run, PROCESS_WEBSITE | queue, browser | nothing resumes the task; the last website completes the run; rows are shared between runs |
| **browser automation** (`resource-ingestion/`) | open browsers, a persistent profile | search a website, list people, read posts, search LinkedIn, register a car | the web, LinkedIn, Chrome | browsers left open, pages that look like a login wall, partial results |
| **workflow editing** (`workflows/workflow.service.ts`, `common/lightsail.service.ts`) | `workflows`, instances at AWS, timers | update steps, stop, start, delete, deploy | AWS | an AWS call, then a save of a row read before |
| **linkedin outreach** (`workflows/linkedin-search-outreach/`, `team/linkedin-search-outreach-team-process.service.ts`) | `workflow_runs`, `linkedin_leads`, an instance per run | create run, claim, progress, leads, complete | AWS, external scraper | claim race, unconditional completion |
| **link tracking** (`team/team-processing.service.ts`, `workflows/kiji-link-tracking/`) | `kijiji_links` (MongoDB), runs | post links, notify, greet | queue, Telegram | store, then announce; partial insertions; redelivered notices |
| **seo helper** (`workflows/seo-helper/`) | `seo_blog_drafts`, runs, a git repository | draft, edit, approve, push | git, language model, browser | a pipeline nobody waits for; a topic triggered again works on the same run; push, then save |
| **carleton parking** (`workflows/carleton-parking-workflow/`) | runs (stays), jobs in memory | message, registration | browser, Telegram | background registration, retried submissions |
| **telegram agent** (`connector/telegram/`) | conversation in the cache, run | update, timeout cron, COMPLETE_RUN | language model, queue | timeout against late message; whole states written back |
| **phone calls** (`connector/twilio/`, `llm-integration/`) | run, socket, an agent in memory | prompt, interrupt, turn, external action, order | Twilio, language model | turns overlap and share one agent |
| **chat widget** (`connector/chat-widget/`, `llm-integration/chat-llm/`) | run, sockets, agent state in the cache | register, connect, message, leave | language model, knowledge base | reconnection, interrupted turns, capped lookups |
| **teams, permissions** (`team/team.service.ts`, `permissions/`) | teams, memberships, groups, assignments, a 24-hour cache | edit teams, members, groups; ask for a permission | cache | one statement at a time; stale cache |
| **team settings** (`team/team.service.ts`) | `team_configs`, encrypted secrets | create, update, delete | – | one JSON, read, merged and saved whole |
| **accounts** (`authentication/`, `user/user.service.ts`) | `users`, `otp` | create, activate, log in, reset, lock, switch, move to another address, delete | e-mail | rows and codes read, then saved |
| **changelog** (`history/`) | `histories`, a map in memory | record what a save changes | TypeORM | one map slot per row, overlapping saves, updates it does not see |
| connectors, categories, rag, cost, agent communication, reviews, whatsapp | rows of their own | single inserts, edits, queries | – | little shared state |

What makes each part correct:

* *gmail intake* — no message is lost except where the code gives up on it, the
  cursor never passes mail nobody has taken charge of, a message is stored once.
* *email assistant* — one run per e-mail and workflow; no reply without approval
  where approval is asked for; no reply for a skipped run; a completed run has
  its reply; a pending run is worked on; a published reply reaches Gmail.
* *business scraper* — a completed run has been searched whole; a pending one is
  still under way; rows are not doubled and point to the run they belong to.
* *workflow editing, linkedin outreach* — an instance that runs is named by a
  row; a run has one claimant; a decided lead stays decided.
* *link tracking* — nothing is told twice and nothing that is known goes untold.
* *seo, parking* — a completed run has been pushed, a stay is registered once,
  and both say so.
* *conversations* — what was said is not forgotten, an action is performed once,
  an answer is grounded, and a conversation whose end is noticed is completed.
* *permissions, accounts, settings, changelog* — the cache follows the rows, a
  code is used once, an account is what its requests made of it, a secret
  survives the form, and a save that a signed-in user made is recorded as it was.

`PROJECT.json` lists every component with its status and, under `hazards`, the
lines where these go wrong, with the properties that watch them.

## How the modules fit together

```
            +------------------- MailPipeline -------------------+
Gmail --Pub/Sub--> GmailIntake --PROCESS_INCOMING_EMAIL--> EmailAssistant --> Gmail
                                                              | implements
                                                              v
                                                         RunLifecycle
MCScrapers      BusinessScraper (task --PROCESS_WEBSITE--> handler), LinkedInOutreach
                                                              <--> AWS, scraper
MCWorkflowInstances            WorkflowInstances <--> AWS
MCConversations                PhoneCall, ChatWidget, TelegramAgent --COMPLETE_RUN-->
MCServices                     TeamAccess, UserAccounts, TeamSettings, SeoHelper,
                               LinkTracking, Parking, SiteScan, LinkedInContact, Changelog
```

* `RunLifecycle.tla` — the abstract lifecycle of a workflow run, as the rest of
  the product sees it: absent, pending, awaiting action, completed or skipped,
  deleted.
* `EmailAssistant.tla`, `MCEmailAssistant.tla`, proofs in
  `EmailAssistantProofs.tla` and, on top of it, `EmailDeliveryProofs.tla`.
* `GmailIntake.tla`, `MCGmailIntake.tla`, `GmailIntakeProofs.tla`.
* `MailPipeline.tla`, `MCMailPipeline.tla` — both of them in one process.
* `BusinessScraper.tla`, `LinkedInOutreach.tla`, `MCScrapers.tla`,
  `ScrapersProofs.tla`.
* `WorkflowInstances.tla`, `MCWorkflowInstances.tla`, `WorkflowInstancesProofs.tla`.
* `PhoneCall.tla`, `ChatWidget.tla`, `TelegramAgent.tla`, `MCConversations.tla`,
  `ConversationsProofs.tla`.
* `TeamAccess.tla`, `UserAccounts.tla`, `TeamSettings.tla`, `SeoHelper.tla`,
  `LinkTracking.tla`, `Parking.tla`, `SiteScan.tla`, `LinkedInContact.tla`,
  `Changelog.tla`, `MCServices.tla`; `Subsequence.tla`, which `SiteScan` and
  `LinkedInContact` filter lists with. Proofs about these two are in
  `BrowserProofs.tla`, about the others in `ServicesProofs.tla`.

An `MC` module declares the model values and the symmetry that the `.cfg` files
use. `MCScrapers`, `MCConversations` and `MCServices` hold systems that share no
state: a variable `focus`, chosen at the start, says which of them moves, so that
one run explores them one at a time and not their product. Definitions marked
*faulty* are not part of a specification: each is a plausible mistake in the
definition that follows it, and `PROJECT.json` names the property that then fails.

What joins the two mail modules is the message PROCESS_INCOMING_EMAIL:
`GmailIntake` stops where it is published (`queued`), `EmailAssistant` starts with
one such message per stored e-mail, and in `MailPipeline` nobody can receive it
before the intake has published it, and one crash ends both. Two histories belong to
the composition: `unsaid` is mail that was stored by a handler which died before it
published the message, and `shut` holds the pairs of a workflow and an e-mail that were
given up because the handler's loop over the workflows ended with an error at another
one before it. `MailIsDecided` asks for each pair of its own, so that an error over one
workflow excuses nothing of another, except for those that come after it in that loop.

### Grain

A handler is a sequence of steps, one for each awaited call that writes
something or whose result another actor can make stale, together with the code
that follows it up to the next such call. Awaited reads that come right after a
step are part of that step. Nothing else is atomic: any handler, request,
crash or redelivery may come between two steps. The process is one Node process,
so the code between two awaits does run without interruption.

### EmailAssistant

| model | code |
|---|---|
| `rows` | `user_incoming_emails`: whether the row exists, its `workflowRunId` |
| `runs` | `workflow_runs`: workflow, e-mail in `context`, status, `currentStep`, category and draft in `stepsContext`, explanation |
| `queue` | the broker's queues as a multiset: consumers take messages in any order, as concurrent ones do |
| `job` | one record per delivery in progress: next step, message, the run as last read, the workflows still to do |
| `request` | one record per user: an approval, with or without an edit of the draft |
| `FindEmail` … `PublishRun` | `handleProcessIncomingEmail` and `createWorkflowRun` |
| `Load` … `Record` | `EmailAssistantService.runWorkflow`, `runCategorizeStep`, `ReplyService.runStep` |
| `RouteReply`, `SendGmail`, `RefuseGmail` | `handleEmailWorkflowReply`, `replyToIncomingEmail` and its consumer |
| `Approve` … `CompleteApproved` | `updateDraft` and `sendApprovedReply` |
| `DeleteRuns`, `DeleteEmails` | disconnecting the connector in `user.service.ts` |
| `Crash`, `Reconnect` | the process dies; the broker loses the connection and delivers again while the handlers live on |

`queue` counts are unbounded in the model; they stay small because each message
is published by a step that happens a bounded number of times under the fault
bounds. The histories `replies`, `sent`, `raced`, `abandoned` record what
happened and are read by no action.

Abstractions: the language model answers any category of the team, or none, or
fails; the text of a reply is only "generated" or "edited by user u"; a category
is missing, without resources, or with resources. Database and broker calls do
not fail by themselves (a crash may come between any two of them). Removing a
connector that was interrupted by a crash may be tried again and then continues
from the beginning.

### GmailIntake

| model | code |
|---|---|
| `arrived`, `grant` | Gmail: the history id of each message, the refresh token it honours |
| `pushes` | Pub/Sub: announcements not delivered yet |
| `connector` | the `connectors` row: status, `lastHistoryId`, how close its token is to expiry, which consent it belongs to |
| `stored`, `queued` | rows of `user_incoming_emails` and PROCESS_INCOMING_EMAIL messages per message |
| `job` | one announcement in progress: `messageHandler` from reading the connector to the acknowledgement |
| `errand` | other code that reads the connector row and saves it whole later: RENEW_WATCH, the renewal of a token by the reply and by RENEW_TOKEN, a new consent |
| `Crash` | the process dies; Pub/Sub delivers unacknowledged announcements again |

Abstractions: one connector; history ids are consecutive; the first
synchronisation lists the newest `FirstSync` messages (3 in the code), later ones
the first page of `PageSize`. `SKIP_GMAIL_SYNC` is off. Cleaning a message's text
does not change the model's state. `lost`, `unlisted` and `unheeded` record
where the code lets go of a message: a caught error or a crash, a listing that
is longer than a page, an announcement for an inactive connector; `contested`
records the messages a handler has listed while another one was to store them.

### BusinessScraper

| model | code |
|---|---|
| `runs` | status and `completedView` of `workflow_runs` |
| `task` | `runScrapeForWorkflow`, started and not awaited by the request |
| `queue`, `job` | PROCESS_WEBSITE: a FIFO queue with prefetch 1; a website given back goes to the head |
| `roots`, `pages` | `google_root_websites`, `google_flagged_pages`; rows carry a copy number, since no index makes them unique |
| `Rethrow` | the task's rejection is unhandled and ends the process |

Abstractions: pages of a site, contact details, outreach text and the browser
are data or I/O. Page and root rows are those of one team. The publish of a
website and the search of businesses may fail (`TaskMayFail`); the handler's own
database calls may not, except through `Leave`, which stands for the early
returns and for an error caught before anything is written.

### WorkflowInstances

| model | code |
|---|---|
| `row` | the `workflows` row: whether it exists, `isStopped`, whether `lightSailInstanceId` is set, whether any connector is linked |
| `machine` | AWS: whether the instance named after the workflow exists, and whether its setup script has been tried |
| `timer` | the `setTimeout` of `createInstanceFromSnapshot` |
| `request` | one record per user: the entity as it was read and changed, and the next step of `updateSteps`, `startWorkflow`, `stopWorkflow`, `delete` or `deployAllScrapers` |
| `Provision`, `Destroy` | `CreateInstancesFromSnapshot` and `DeleteInstance`: names are unique, so creating what exists and deleting what does not both fail |
| `Save` | TypeORM's `save` compares with the row of that moment, so it writes every field as the request has it, and inserts the row again when it is gone |
| `Configure`, `Refresh` | the setup script, run by the timer and by a deployment |
| `Crash` | the process dies with its requests and timers |

Abstractions: the environment is production and the workflows have a scraping
configuration (otherwise no instance is ever made); the two timers of a workflow
that is started twice within the setup delay are one; the database does not
fail by itself. Left out: steps and descriptions, and the rule that a connector
of some types belongs to one workflow. `contended`, `cut` and `forgot` record
which workflows two requests have worked on at once, which had a request die
after its AWS call, and which lost their timer.

### LinkedInOutreach

| model | code |
|---|---|
| `searchRuns` | status, search, non-empty `stepsContext`, set `lightSailInstanceId` of `workflow_runs` |
| `leads` | `linkedin_leads`; no index makes them unique, so a row carries the scraper that added it |
| `scraperMachine` | AWS: the instance named after the run |
| `trigger` | `runForWorkflow`, one per user |
| `call` | the calls of `LinkedInSearchOutreachTeamProcessService`, one at a time per scraper, from the read of the run or lead to the last write |

The scraper is not in this repository: the model lets every scraper make any
call on any run in any order and as often as it likes, which includes retries
and late answers. What it reports is written as given: a report whose steps are
empty takes the claim off the run, so that it can be claimed once more (`claims`
counts since then), and a lead that is reported as pending is pending again,
whatever had been decided. Of a lead only its status is modelled. Requests are in production, so that a run gets an instance; a
missing secret or setting fails the request like a refusal of AWS. `disputed`,
`mixed` and `left` record overlapping claims, overlapping reports, and instances
that nothing deletes any more (the run named none when it ended, AWS or the
process failed at the deletion, or an ended run was triggered again).

### Conversations

| module | model | code |
|---|---|---|
| `PhoneCall` | `call`, `callRun`, `hangups` | the socket and its close listener, the run, COMPLETE_RUN |
| | `agent`, `controller`, `turn` | the fields of `LlmAgent` and `OrderLlmAgent`, `currentAbort`, one `handleTurn` per prompt |
| | `HearPrompt`, `Interrupt`, `TurnStep` | `onMessage` of the gateway, `runTurn` cut at the planner, the knowledge base, the external action and the pause before a goodbye |
| `ChatWidget` | `chatRun`, `saved`, `socket`, `completions` | the run, the state in the cache, connections, COMPLETE_RUN |
| | `chatAgent`, `message` | the question-answering agent of each socket, each message with the turn it starts |
| | `WriteMessage`, `MessageStep` | `onMessage`, `runTurn` with its forced lookup, its cap on lookups and its forced link |
| `TelegramAgent` | `entry`, `conversation` | the cache entry of the chat, the run of each `startedAt` |
| | `update`, `cron`, `completing` | each webhook update, `completeTimedOutPendingRuns`, COMPLETE_RUN |

The planner may return any plan that the parser lets through. For the chat widget
that is also an action that does not exist: the parser keeps what the planner wrote
and the turn says what comes with it. Neither this nor `END_CONVERSATION` is checked
for having something in the knowledge base to rest on, so that such an answer may be
said ungrounded (`UncheckedPlan`), and `NoUngroundedAnswer` is about plans to answer.
On the phone, what a plan extracts is spread over what is known, keys without a value
included: a blank drops a piece that was known, and the agent asks for it again.
`told` is what plans have extracted for an action less what they left blank later.
The histories `crossed`, `entangled`, `haunted`, `overlapped` and `overtaken` name the
overlaps in which the code loses something: a property excludes exactly those.

### Services

| module | model | code |
|---|---|---|
| `TeamAccess` | `team`, `member`, `group`, `assigned`, `cached` | rows of teams, members, groups and assignments; `permissions_user_<id>` in Redis |
| | `request`, `counted` | one request at a time per name, cut at its writes, failing anywhere with nothing undone; groups whose assignments have been counted and that are about to be deleted |
| `UserAccounts` | `account`, `code`, `demand` | `users` that have one address, or may move to it and away from it, its row of `otp`, requests at work |
| `TeamSettings` | `settings`, `submission` | the row of `team_configs`, requests between their read and their save |
| `SeoHelper` | `post`, `draft`, `pipeline`, `workspace`, `visit`, `repo` | the run of one topic, the drafts of each time the topic was triggered, `executePipeline` once per trigger, its directory, edits and approvals, the remote repository |
| `LinkTracking` | `known`, `posted`, `runOf`, `greeting`, `notice` | `kijiji_links`, posts of the scraper, runs, messages of the user, `new_kijiji_item` |
| `Parking` | `stay`, `text`, `job`, `site`, `heard` | runs, messages, `registerCar` in the background, what the site accepted, what the user was told |
| `SiteScan` | `scan`, `scanned`, `chrome`, `fetches` | the website being searched, how each ended, browsers open, sitemaps fetched |
| `LinkedInContact` | `errand`, `walled` | outreaches and searches; searches that met a login wall and did not get past it |
| `Changelog` | `row`, `save`, `oldEntity`, `histories` | a row, TypeORM saves and plain updates of it, the slot of `oldEntityMap`, the entries |

`repository.save` is what TypeORM does: it compares the copy with the row of that
moment and writes the columns that differ, so a copy read before another request's
write undoes that write. `update`, `increment` and the step contexts touch the
columns they are given. A name of a request, message or visit stands for the value
it submits. `torn`, `stale`, `belated`, `muddled`, `reused`, `mixed`, `twins`,
`seized`, `clash`, `contended`, `stranded`, `raced`, `unannounced`, `unheard`, `unsent`,
`redelivered`, `met`, `late`, `killed`, `walled`, `undone`, `mingled` and `unlogged` are
histories that record the races and losses which the code does not prevent.

A topic of `SeoHelper` has one run: a trigger makes it, or finds the one that is there
(`createWorkflowRun` looks for the same context, whatever the status), and its pipeline
then writes over what that run says. Two triggers that both look before either has
inserted can make two rows; these are two topics to the model. Whether a page of LinkedIn
is a login wall is read off its text, so that `LinkedInContact` may meet one on any
visit, signed in or not.

## Runs

| run | instance | checks |
|---|---|---|
| `approval_crash` | 1 e-mail, 1 workflow with approval, 2 workers, 1 user, 1 crash, 1 edit of the categories, model and Gmail may fail | `CompletedIsAccounted`, `AwaitingHasDraft`, `ApprovalComesFirst`, `OneRunPerEmail`, `NoRunForgotten`, `AtMostOneReply` |
| `redelivery` | 1 e-mail, 1 automatic workflow, 2 workers, 1 user, 1 lost connection, disconnection of the connector | `RefinesLifecycle` (the abstract specification) |
| `mail_live` | intake and assistant together: 1 e-mail, 2 automatic workflows, one named unlike its type, 1 handler, 1 worker, 1 repeated announcement, 1 crash, model and Gmail may fail; fair | `SkippedNeverReplied`, `RepliesAreSent`, `MailIsDecided` |
| `double_approval` | 2 users approve; **violated** | `SendsOnlyAwaiting` |
| `intake_faults` | 2 messages, 2 handlers, pages of 1, failing calls, lapse of consent, and up to 2 of: 1 repeated announcement, 1 crash, 1 errand, 1 expiry | `NoMailSlipsThrough`, `StoredOnce`, `CursorCoversMail` |
| `scrapers` | 2 business runs on the same 2 websites, 2 workers, 1 crash, 1 lost connection, failing task; or 1 LinkedIn run, 2 users, 2 scrapers, 1 lead, AWS may refuse, 1 crash | `RowsAreSound`, `StatusIsTrue`, `FinalStays`; `OneClaim`, `NoIdleInstance`, `OneRowPerLead`, `DecidedStays` |
| `scraper_live` | 2 runs of up to 2 websites, 1 worker, 1 crash, failing task; fair | `SitesAreSearched` |
| `scraper_last_site` | 1 run; **violated** | `LastSiteCompletes` |
| `parking_success` | 1 message, 2 attempts; **violated** | `SuccessIsRegistered` |
| `instances` | 2 workflows, 2 users with a request each, AWS may refuse, 1 crash | `InstancesAreKnown`, `StopAndDeleteStay`, `StrandedForGood` |
| `conversations` | a call with 2 prompts and 2 actions that need 2 pieces of information; or a session with 2 connections and 2 messages; or a chat with 2 updates and 2 conversations; 1 crash; fair | `TurnsAreSound`, `SessionIsSound`, `ConversationIsSound`, `InformationKept`, `ConversationsEnd` |
| `services` | each service with 2 or 3 requests and, where it matters, 1 crash (see `Services.cfg`); the pipeline of a post fair | `AccessIsSound`, `AccountsAreSound`, `SecretsAreKept`, `SettingsNotReplaced`, `PostIsSound`, `PostAdvances`, `NoticesAreSound`, `StaysAreSound`, `ScanIsSound`, `ErrandsAreSound`, `ChangelogIsSound` |

A property whose name says that something "is sound" is a conjunction of named
parts, each stated with its comment in its module:

| property | parts, beside the types |
|---|---|
| `InstancesAreKnown` | `InstanceIsKnown`, `BareIsScheduled` |
| `RowsAreSound` | `PagesFollowRoots`, `RowsAreUnique` |
| `StatusIsTrue` | `CompletedIsSearched`, `PendingIsExplained` |
| `TurnsAreSound` | `ControllerIsNewest`, `PerformedOnce`, `AskedIsRemembered` |
| `SessionIsSound` | `NoUngroundedAnswer`, `LookupsBounded`, `ChatHistoryKept` |
| `ConversationIsSound` | `TelegramHistoryKept`, `CompletedIsOver` |
| `ConversationsEnd` | `HangUpCompletes`, `MessagesAreAnswered`, `ChatRunCompletes`, `IdleIsCompleted` |
| `AccessIsSound` | `CacheFollows`, `AssignedAreMembers`, `GroupsInUseStay` |
| `AccountsAreSound` | `AccountAsMeant`, `OneLiveAccount`, `CodeUsedOnce`, `MailedCodeStands` |
| `SecretsAreKept` | `SecretsAsSubmitted`, `SecretsArePlain` |
| `PostIsSound`, `PostAdvances` | `CompletedIsPublished`, `AwaitingShowsResearch`; `CompletedStays`, `RunEndsOrAwaits` |
| `NoticesAreSound` | `ToldOnce`, `OneTrackRun`, `StoredIsTold` |
| `StaysAreSound` | `OnePendingStay`, `JobsReport`, `RegisteredOnce`, `CompletedIsReported` |
| `ScanIsSound` | `BrowsersAccounted`, `PagesReadOnce`, `FetchesBounded` |
| `ErrandsAreSound` | `BrowserReleased`, `SkippedReportsNothing`, `SearchIsWhole`, `PeopleListedOnce` |
| `ChangelogIsSound` | `EntriesTellTheTruth`, `SavesAreRecorded`, `RowIsExplained` |

Why the bounds are enough to be interesting. Each hazard needs two actors, or
one actor and one fault: two workers give every overlap of two deliveries, one
crash lands on every pair of neighbouring steps, one lost connection puts a
second copy next to every state of the first. Two run ids let a faulty lookup
create a second run; two messages on pages of one let a cursor jump over one;
two websites separate "first" from "last"; two scraper runs share rows; two
users' requests overlap on one workflow, and a deployment meets two instances.
Two prompts make one overlap of turns, and a second action is one that the first
must not be mistaken for. Three requests on an account are what it takes to issue,
use and spoil a code; three saves of a row put two that overlap next to a third.
One index that lists itself twice and another sitemap exceeds both the depth and
the number that are followed. `intake_faults` combines any two faults and leaves
out three at once. `services` has a persistent profile with credentials; without
credentials a search is shut out as soon as it meets the wall, and without a profile
Chrome refuses nobody, so that both only take branches away. Its posts have three
requests, triggers and visits together: two triggers and an approval between them are
what it takes to work on a run that is completed, two visits and a trigger to publish
twice. Runs of LinkedIn outreach share nothing, so one is enough there.
Deadlock checking is off in every run, because each system comes to rest when its
messages are handled and its fault bounds are used up, and a conversation or
service that rests is no error.

Findings, each shown by a run that violates what a comment or message promises:

* `scraper_last_site` — the comment on `runScrapeForWorkflow` says the run is
  completed when the last queued site finishes; the handler returns early when
  the last site has no hit (`process-website-queue.handler.ts:72`), and the run
  stays pending.
* `double_approval` — "Sends the drafted email for a workflow run that was left
  in awaiting_action": two concurrent approvals both send it.
* `parking_success` — "Registration completed successfully": it is said when every
  attempt at the form has failed, since the page of the last failure is returned
  like that of a success (`real-browser.ts:177`).

Seen while modelling, and part of the models without a run of their own: two
concurrent announcements store a message twice (`contested` in `GmailIntake`);
a sitemap index is expanded two levels deep, where `browser.service.ts:41` says one;
the rule that the only administrator is not changed (`team.service.ts:572`) does not
hold under two requests; a plan that was interrupted still acts
(`llm-agent-base.ts`); a forced lookup of the chat comes on top of the cap
(`LookupsBounded` says by how much); whether a connector belongs to another
workflow is checked before the save (`workflow.service.ts:483`); and the run that a
greeting makes for a tracker is made for the first workflow of the same type
(`workflow.service.ts:591`), so that a user with two trackers of one type gets another
run of the first with each message and is told of its links once for each
(`Alike` in `LinkTracking`). Further:

* a topic of a blog post that is triggered again is worked on in the run it has
  (`workflow.service.ts:659`): the pipeline takes the draft off a run that is completed,
  and makes it await another approval or fail (`CompletedStays` excepts that step and no
  other, `CompletedIsPublished` lets only a run triggered again name no draft);
* an account that is not verified may be moved to an address that another one has
  (`user.service.ts:248`); `OneLiveAccount` excepts it (`seized`);
* changes of the user's row by a statement of its own reach the subscriber without an id
  and leave no entry (`history.subscriber.ts:65`, `unlogged`);
* an empty report of progress un-claims a run, and a reported "pending" reopens a lead
  (`linkedin-search-outreach-team-process.service.ts:174`, `:223`);
* a key without a value in a plan drops what a caller said before (`llm-agent.ts:429`);
* a group that is given to somebody between the count of its assignments and its
  deletion is deleted in use (`permission.service.ts:353`, `belated`);
* a plan of the chat that calls itself anything but an answer is not kept from speaking
  without the knowledge base (`question-answering-action-performing-agent.ts:341`).

### Fairness

Liveness assumes weak fairness of each handler's, task's and turn's steps (the
event loop resumes code whose awaited call has returned, and the language model,
the knowledge base and git answer or fail), weak fairness of delivery for each
message (the broker delivers what is queued to a free consumer), of the clock and
of the crons, and, for replies, strong fairness of a successful send (Gmail does
not refuse the same reply for ever although it is asked again and again).
In `services` only the pipeline of a post is fair; `LinkTracking` states the
fairness its handlers have, and no property there needs it.
Nothing that a user does, and no fault, is fair.

## Proofs

`tlapm` checks these for every value of the constants.

* `GmailIntakeProofs!TypeCorrect`: `Spec => []TypeOK`. The history id of the next
  message stays within `HistoryId`, because the mailbox is a subset of `Mail`
  (`NextId`, by cardinality).
* `GmailIntakeProofs!CursorCorrect`: `Spec => []CursorCoversMail`. The property is
  not inductive: the cursor is copied from rows read earlier and from
  announcements in flight. `CursorInv` adds `CursorsReached` (every cursor
  anywhere – in the row, in a handler's or clerk's copy, in an announcement – is
  at most the number of messages that have arrived, so that a message yet to
  come lies above it) and `CursorsCovered` (every copy of the row that may still
  be saved satisfies `Covered` too). `Covered` is preserved
  because what is accounted for stays so: a message leaves a handler's charge
  only by being stored or by being recorded as lost (lemma `AccountedStep`).
* `GmailIntakeProofs!NothingSlipsThrough`: `Spec => []NoMailSlipsThrough`. `CursorInv`
  with one more part, `InSight`, for each message in the mailbox: it is accounted
  for, or an announcement that reaches it is still to come, or a handler that will
  list it has not listed yet.
* `GmailIntakeProofs!MailIsStoredOnce`: `Spec => []StoredOnce`. Inductive with `Once`:
  outside of a contest at most one handler has listed a message, and what it is
  about to store or to publish is not stored or published yet.
* `EmailAssistantProofs!TypeCorrect`: `Spec => []TypeOK`. Strengthened to
  `WellTyped`: a busy worker's message has the type its step belongs to, a run
  that exists has an e-mail, an approval in progress holds a draft.
* `EmailAssistantProofs!Accountability`: `Spec => []CompletedIsAccounted`. Made
  inductive by `RepliesFirst`: whoever is about to set a run to completed has
  published its reply already – a worker at `record` in the automatic case, a
  request at `complete` – and nothing decreases `replies`. It needs no bound on
  workers, users, crashes, redeliveries or disconnections.
* `EmailAssistantProofs`, in its second part: `DraftsAwait` (`AwaitingHasDraft`), `SkippedStaySilent`
  (`SkippedNeverReplied`), `ApprovalFirst` (`ApprovalComesFirst`) and the refinement
  `RunsFollowLifecycle`: `Spec => RefinesLifecycle`. None of the four is inductive. `RunInv`
  says of every run that is not `raced` that one worker at most deals with it
  (`Tended`), what that worker relies on at each of its steps (`WorkerOK`: the run it read
  is still pending or has been deleted, a run with replies is past its
  categorisation), what a request relies on (`RequestTied`), and what the run itself
  says (`RunTended`); and of a run that is not there, that no message, worker or request
  has heard of it (`Unheard`). A second delivery of the same run makes it `raced`,
  which the refinement maps to "disputed". Initial states map to initial states, and each
  action maps to a step of `RunLifecycle` or to a stutter.
* `EmailDeliveryProofs!EmailsHaveOneRun`: `Spec => []OneRunPerEmail`. The property compares
  two runs; what keeps them from both being there lies in the handlers. `OnceInv` adds that
  a stored e-mail is announced once, in the queue or to one handler (`OneAnnouncement`:
  a crash ends the handler before the message comes back, a lost connection does not), and
  that a handler about to insert a run has looked and there is none yet (`StillNone`).
* `EmailDeliveryProofs!RunsAreRemembered`: `Spec => []NoRunForgotten`. `CareInv` holds for as long as
  the connector is linked, whatever crashes and is delivered twice. `NoneMissed` says that
  each workflow of each e-mail has a run, or a message or a handler that is going to
  make one (`Due`), or that the e-mail was lost to a caught error; `AllPursued` that a pending
  run has its own message, or a handler at work on it, or is due again. A run passes from
  one of these to the other in each step from the insertion to the record.
* `EmailDeliveryProofs!SendersHearOnce`: `Spec => []AtMostOneReply`. Where nothing crashes and one
  person approves, `CalmInv` follows one piece of work through the whole pipeline:
  announcement (`FirstTime`), run message (`ErrandOnce`), reply at the router and at Gmail
  (`SentOnce`), and says who may still publish the reply (`AnsweredOnce`). That each is in one place
  only is `Alone`, for which lemmas about sets of messages and workers say what taking,
  putting back and leaving alone does.
* `WorkflowInstancesProofs`: `TypeCorrect`, `InstancesAccounted` (both parts of
  `InstancesAreKnown`), `StopsStay`, `StrandedStays`. `CopiesInv` says that a workflow
  that was never contended has at most one request, and that this request's copy of
  the row undoes a stop only if it is a start; `KnownInv` says that the writer of such
  a workflow has a copy that agrees with AWS, or, if there is none, the row does. Each
  is preserved because a step of a request touches only its own workflow
  (`RequestStep`). `StrandedStays` needs no exclusion at all: it holds however
  requests overlap.
* `ScrapersProofs`: of `LinkedInOutreach`, `TypeCorrect` and all four properties.
  `ClaimInv` ties each claim under way to the run's status and to what has been counted
  since its steps were last emptied, `LeadInv` says that a
  report which is about to save holds the row the table has, or that there is none.
* Of `BusinessScraper`, `RowsAreNotTorn` (`RowsAreSound`), `StatusesAreTrue` (`StatusIsTrue`) and
  `FinalStatusStays` (`FinalStays`). `RowsInv`: a handler has the row of its own website in
  hand (`JobsAgree`), and before the first lost channel one handler is at work, and what it has
  not found is still not there (`LookupsHold`). `ScrapeInv` follows the order of the websites:
  each one listed for a run has been searched, is held, is in the queue or is yet to be
  published (`PublishedInOrder`), and each of the others of its run is before a last
  website in the queue, with a handler, or searched already (`LastComesLast`). A crash or a lost channel
  keeps this order, because what was held comes back in front (lemma `ReturnScrapes`);
  that would not hold if it went to the end of the queue, or with a prefetch above 1.
  `LastsAreOut`: no last website of a failed run was ever queued. `LastAwaited`: somebody still
  comes to the completion of a pending run, or `cut` or `missed` says why not.
* `ServicesProofs`, one service after the other. Of `TeamSettings`, `SecretsSurvive`
  (`SecretsAreKept`) and `RowsGiveWayByRemoval` (`SettingsNotReplaced`): `SettingsInv` says that
  every secret, in the row and in every copy, is encrypted once, and that outside of
  a clash one submission is at work, on the row as it is.
* Of `Changelog`, `ChangesAreLogged` (`ChangelogIsSound`): what an entry says was copied into
  the subscriber's map before the statement ran. `ChangelogInv` says of a save that
  nobody disturbs that the row is still what it was compared with, that the map holds
  that row, and that nobody else is in a transaction until it has been taken out. That the
  changelog explains each value of the row needs the same of the copies that requests have
  read and may write back (`CopiesAreExplained`) and of a row that has just been inserted
  (`NewUserIsWhole`).
* Of `SeoHelper`, `PostsAreSound` (`PostIsSound`) and `CompletedPostsStay` (`CompletedStays`).
  `SeoInv`: nobody is asked for approval, and no run is completed, before a pipeline has
  saved a draft and is past asking or failing (`Past`), and a draft that is named, by the
  run or by a visit's copy of it, is there with its content and its file (`DraftIsThere`);
  outside of contention one visit is at work, which has pushed what it publishes
  (`OneVisit`). That `repo.head` stays in its type needs a count: the pushes are
  at most the foreign ones and the visits that are past theirs (`Spent`).
* Of `Parking`, `StaysAreRegistered` (`StaysAreSound`). `ParkingInv`: each job reports before it
  completes the run (`JobInOrder`), two jobs for one stay do not both work or have finished
  unless they crossed (`OneJob`), and one message looks for a stay when there is none
  (`OneLooks`).
* Of `LinkTracking`, `NoticesAreTold` (`NoticesAreSound`). `TrackingInv`: the post that inserted a
  link is the only one to carry it, from its announcement on (`OneCarries`); what it still has to
  tell to a run it has told to nobody (`ToldBy`), which holds because a user's tracker has one run
  (`Single`). The attempt to prove `OneTrackRun` without more showed that it fails when a
  user has two trackers of one type, as described under Runs.
* Of `UserAccounts`, `AccountsAreAsMeant` (`AccountsAreSound`). `AccountsInv` has two halves.
  `CodesInv`: a code that a demand has verified is the row's for as long as the row has its
  value (`CodeInHand`), a code exists once the demand that issues it is done
  (`CodeIsIssued`), and one that is not reused is in one pair of hands and has set no
  password before (`OneUse`). `RowsInv`: outside of `twins`, `seized` and `muddled` whoever
  is about to insert an account has found none, and there is one at most (`OneLive`). The attempt to
  prove it showed that `meant.failed` has no bound: a login that saves its copy takes
  failures that others counted meanwhile off the row, so the row's counter, which
  `MaxFailed` bounds, falls behind those that were meant.
* Of `TeamAccess`, `AccessIsKept` (`AccessIsSound`). `AccessInv`: unless a user's requests have
  been torn, one request at most works on the user (`WorksAlone`), what it has read or
  promised to insert fits the rows (`WorkIsSound`), and where none works the rows are those
  of members (`RestIsSound`). `GroupsKept`: but for those in `belated`, a group that is about
  to be deleted has been given to nobody, and one that a request is about to give is live.
* `BrowserProofs`. Of `SiteScan`, `ScanIsKept` (`ScanIsSound`). `ScanInv` bounds the fetches by what is still on the
  stack (`StackOK`): sitemaps of level three are on top, then those of level two, then of
  level one (`Layers`), and each causes at most no fetch, one, and `1 + MaxNested`. Browsers
  are accounted for because a website that is being launched has none yet; pages are
  read once because what a sitemap adds is new (lemma `NewAreAppended`).
* Of `LinkedInContact`, `ErrandsAreKept` (`ErrandsAreSound`). `ContactInv`: each errand says of
  itself where it has a browser, that only posts follow a contact, and what a search has
  counted, whether or not it was shut out (`ErrandOK`, `Searched`).
  Both rest on what `Picked` returns (lemmas `PickedPositions` and `PickedInSeq`): positions
  in order, none twice. It is defined by counting positions and not with `SelectSeq`,
  which is recursive over the data.
* `ConversationsProofs`, one kind of conversation after the other. Of `TelegramAgent`,
  `ConversationsAreKept` (`ConversationIsSound`). `TelegramInv`: where updates do not overlap, the
  one handler at work on a conversation knows all that was said in it (`HandlersKnow`), and
  a conversation that is completed, or has its COMPLETE_RUN on the way, has no handler and its
  cache entry is about to go (`CompletedIsLeft`).
* Of `ChatWidget`, `SessionsAreSound` (`SessionIsSound`). `ChatInv`: an agent that is alone with a
  turn counts the lookups of that turn and no other (`TurnIsAlone`), and unless the session is
  haunted one agent is at work and knows what the cache knows (`AgentsKnow`).
* Of `PhoneCall`, `TurnsAreKept` (`TurnsAreSound`) and `WordsAreKept`
  (`InformationKept`). `CallInv` says of an action that is not crossed that, performed once, it is
  current only while it is being performed (`PerformedIsLeft`), that the newest one
  waits for no answer meanwhile (`NobodyIsAsked`), and that the copy which
  `performAction` will write back is up to date (`HeldIsAll`). All the steps that take an action up
  are one lemma (`ActionTouched`), and those that have nothing to do with actions another
  (`QuietTurn`). The attempt to prove the type of the agent showed that `SomeName` need not be
  an action's name when there are none; `Instance` now says so.

Assumptions: `IntakeAssumption`, `ConstantsAssumption` (in `EmailAssistant`, in
`WorkflowInstances` and in `BusinessScraper`), `OutreachAssumption`, `SeoAssumption`,
`ParkingAssumption`, `TrackingAssumption`, `AccountsAssumption`, `AccessAssumption`,
`RowsAreNotNone`, `ScanAssumption`, `ContactAssumption`, `CallAssumption`, `ChatAssumption` and
`TelegramAssumption`, in the modules that declare the constants: finite sets where they
are counted, natural bounds, a tracker, a stay, a founder, a team and a delivery that
exist, sitemaps followed at most two levels down (it is two in the code), and model
values that differ from each other.

The types of `EmailAssistant`, `GmailIntake`, `WorkflowInstances` and `LinkedInOutreach` are
proved and no run repeats them.

Only model-checked: the liveness properties (liveness under fairness and ENABLED are
out of the prover's reach). Every invariant that a passing run checks is also
stated by a theorem.

## Not modelled

Components with status `not_modelled` in `PROJECT.json`, each with its reason, and
of those that are modelled:

* what a language model, a browser, Gmail, Telegram, LinkedIn, git or AWS returns is
  data that the models choose freely; prompts, texts, HTML, logging and the validation
  of requests are left out;
* the search of Google Maps and the selectors of `real-browser.ts`;
* `carleton-parking-reminder.cron.ts`, which only sends messages;
* the connectors, steps and description of a workflow, and the setup script of an
  instance;
* `email-handler/`, `mission-agent.ts` and `llm-factory.ts`, which nothing in use calls;
  `cost/`, used by a script only;
* two instances of the server at once: all modules are about one Node process and
  what survives it.

## Plan

1. An abstract conversation that `PhoneCall`, `ChatWidget` and `TelegramAgent` implement:
   what was said, what was answered, and whether it is over.
2. The connectors of a workflow in `WorkflowInstances`, with the rule that some
   belong to one workflow.
