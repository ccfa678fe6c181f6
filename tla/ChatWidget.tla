----------------------------- MODULE ChatWidget -----------------------------
(***************************************************************************)
(* One chat session of the website widget: ChatWidgetService registers it, *)
(* ChatWidgetGateway serves its sockets, and each socket gets a            *)
(* QuestionAnsweringActionPerformingLlmAgent of its own, restored from the *)
(* state that the agents of the session keep in the cache.                 *)
(*                                                                         *)
(* A message aborts the socket's turn at once, is stored, and only then    *)
(* starts a turn; turns of one socket share the agent.  The planner may    *)
(* return any plan, of an action it was not offered too, and something to  *)
(* say with it; the workflow has a link.                                   *)
(* Writes of the state are not awaited but go through one connection, so   *)
(* they land in their order.                                               *)
(***************************************************************************)
EXTENDS Naturals, FiniteSets

CONSTANTS
    MaxSockets,               \* the visitor connects at most so often
    MaxTabs,                  \* and has at most so many sockets open at once
    MaxMessages,              \* and writes at most so many messages
    MAX_LOOKUPS_PER_MESSAGE,  \* 2 in the code
    Kind,                     \* what isSubstantiveUserMessage and isWrapUpSignal
                              \* find in a message: neither, one, or both
    MaxChatCrashes            \* bound on crashes of the process

ChatAssumption ==
    /\ MaxSockets \in Nat
    /\ MaxTabs \in Nat
    /\ MaxMessages \in Nat
    /\ MAX_LOOKUPS_PER_MESSAGE \in Nat
    /\ Kind \subseteq SUBSET {"substantive", "wrapup"}
    /\ MaxChatCrashes \in Nat
ASSUME ChatAssumption

VARIABLES
    chatRun,      \* status of the session's workflow run
    saved,        \* the agent state in the cache
    socket,       \* phase of each connection
    chatAgent,    \* the agent of each connection
    message,      \* each message and the turn it starts
    completions,  \* a COMPLETE_RUN message waits
    entangled,    \* history: messages whose turns shared an agent
    haunted,      \* history: agents of two sockets were at work at once, or
                  \* the cache dropped the state
    chatCrashes   \* crashes so far

chatVars == <<chatRun, saved, socket, chatAgent, message, completions,
              entangled, haunted, chatCrashes>>

-----------------------------------------------------------------------------
(* Types *)

Socket == 1..MaxSockets
Message == 1..MaxMessages

\* "kb": the knowledge gathered so far (extraContext) is not empty.
State == [history : SUBSET Message, kb : BOOLEAN, linkProvided : BOOLEAN]

\* "controller": the message whose turn currentAbort belongs to, or 0.
\* "last": the last user message in the history.
ChatAgent == [history : SUBSET Message, kb : BOOLEAN, linkProvided : BOOLEAN,
              fetching : BOOLEAN, forced : BOOLEAN,
              lookups : 0..(MAX_LOOKUPS_PER_MESSAGE + 1),
              controller : Message \cup {0}, last : Message \cup {0}]

\* "fresh": the turn is in its first plan; "looked": its lookups, counted up to
\* a bound; "ungrounded": it spoke on an empty knowledge base, by a plan to
\* answer or by one that is not checked for that.
Turned == [at : Socket \cup {0}, kind : SUBSET {"substantive", "wrapup"},
           pc : {"none", "store", "plan", "lookup", "done"},
           fresh : BOOLEAN, aborted : BOOLEAN,
           looked : 0..(MAX_LOOKUPS_PER_MESSAGE + 2),
           answered : BOOLEAN, ungrounded : {"no", "answer", "unchecked"}]

ChatTypeOK ==
    /\ chatRun \in {"none", "pending", "completed"}
    /\ saved \in State
    /\ socket \in [Socket -> {"none", "open", "lost", "closed"}]
    /\ chatAgent \in [Socket -> ChatAgent]
    /\ message \in [Message -> Turned]
    /\ completions \in BOOLEAN
    /\ entangled \subseteq Message
    /\ haunted \in BOOLEAN
    /\ chatCrashes \in 0..MaxChatCrashes

EmptyState == [history |-> {}, kb |-> FALSE, linkProvided |-> FALSE]

\* What saveState puts into the cache.
StateOf(a) == [history |-> a.history, kb |-> a.kb, linkProvided |-> a.linkProvided]

\* Faulty: the history is not restored.
NewAgentBlank(state) ==
    [history |-> {}, kb |-> state.kb, linkProvided |-> FALSE,
     fetching |-> FALSE, forced |-> FALSE, lookups |-> 0, controller |-> 0,
     last |-> 0]

\* A new agent: loadState, called by the base constructor, restores the saved
\* fields; then the initializers of the subclass reset those it declares.
NewAgent(state) ==
    [history |-> state.history, kb |-> state.kb, linkProvided |-> FALSE,
     fetching |-> FALSE, forced |-> FALSE, lookups |-> 0, controller |-> 0,
     last |-> 0]

NoMessage == [at |-> 0, kind |-> {}, pc |-> "none", fresh |-> TRUE,
              aborted |-> FALSE, looked |-> 0, answered |-> FALSE,
              ungrounded |-> "no"]

ChatInit ==
    /\ chatRun = "none"
    /\ saved = EmptyState
    /\ socket = [s \in Socket |-> "none"]
    /\ chatAgent = [s \in Socket |-> NewAgent(EmptyState)]
    /\ message = [m \in Message |-> NoMessage]
    /\ completions = FALSE
    /\ entangled = {}
    /\ haunted = FALSE
    /\ chatCrashes = 0

Turning(m) == message[m].pc \in {"plan", "lookup"}
TurnsAt(s) == {m \in Message : message[m].at = s /\ Turning(m)}

\* A socket that is open, or whose agent still has turns.
AtWork(s) == socket[s] = "open" \/ \E m \in Message : message[m].at = s
                                       /\ message[m].pc \in {"store", "plan", "lookup"}

-----------------------------------------------------------------------------
(* ChatWidgetService and the gateway's connections *)

\* registerChat: createOrGetWorkflowRun finds the session's run, completed or
\* not, or creates it.
RegisterChat ==
    /\ chatRun = "none"
    /\ chatRun' = "pending"
    /\ UNCHANGED <<saved, socket, chatAgent, message, completions, entangled,
                   haunted, chatCrashes>>

\* currentAbort.abort() of the socket's agent.
Abort(s) == [m \in Message |->
    IF chatAgent[s].controller = m THEN [message[m] EXCEPT !.aborted = TRUE]
                                   ELSE message[m]]

\* handleConnection has read run, context and state, and makes the agent; a
\* visitor who is gone by then is never heard again.
ConnectWidget(s) ==
    /\ chatRun # "none"
    /\ socket[s] = "none"
    /\ \A r \in 1..(s - 1) : socket[r] # "none"
    /\ Cardinality({r \in Socket : socket[r] = "open"}) < MaxTabs
    /\ \E phase \in {"open", "lost"} : socket' = [socket EXCEPT ![s] = phase]
    /\ chatAgent' = [chatAgent EXCEPT ![s] = NewAgent(saved)]
    /\ haunted' = (haunted \/ \E r \in Socket \ {s} : AtWork(r))
    /\ UNCHANGED <<chatRun, saved, message, completions, entangled, chatCrashes>>

\* The socket closes: the turn in progress is aborted and COMPLETE_RUN is
\* published.
DisconnectWidget(s) ==
    /\ socket[s] = "open"
    /\ socket' = [socket EXCEPT ![s] = "closed"]
    /\ completions' = TRUE
    /\ message' = Abort(s)
    /\ UNCHANGED <<chatRun, saved, chatAgent, entangled, haunted, chatCrashes>>

CompleteChatRun ==
    /\ completions
    /\ completions' = FALSE
    /\ chatRun' = "completed"
    /\ UNCHANGED <<saved, socket, chatAgent, message, entangled, haunted, chatCrashes>>

\* The process dies with its sockets, agents and turns; the cache stays.
CrashWidget ==
    /\ chatCrashes < MaxChatCrashes
    /\ chatCrashes' = chatCrashes + 1
    /\ socket' = [s \in Socket |-> IF socket[s] = "none" THEN "none" ELSE "closed"]
    /\ message' = [m \in Message |->
         IF message[m].pc = "none" THEN message[m] ELSE [message[m] EXCEPT !.pc = "done"]]
    /\ chatAgent' = [s \in Socket |-> NewAgent(EmptyState)]
    /\ UNCHANGED <<chatRun, saved, completions, entangled, haunted>>

\* A day without a write: the cache drops the state.
ExpireState ==
    /\ saved # EmptyState
    /\ \A m \in Message : ~Turning(m)
    /\ saved' = EmptyState
    /\ haunted' = TRUE
    /\ UNCHANGED <<chatRun, socket, chatAgent, message, completions, entangled,
                   chatCrashes>>

-----------------------------------------------------------------------------
(* Messages and turns: onMessage, BaseChatLlmAgent and its subclass *)

sessionVars == <<chatRun, socket, completions, chatCrashes>>

\* A message arrives: it aborts the turn in progress and is stored.
WriteMessage(s, m) ==
    /\ socket[s] = "open"
    /\ message[m].pc = "none"
    /\ \A k \in 1..(m - 1) : message[k].pc # "none"
    /\ \E kind \in Kind :
         message' = [Abort(s) EXCEPT ![m] = [NoMessage EXCEPT !.at = s, !.kind = kind,
                                                             !.pc = "store"]]
    /\ UNCHANGED <<saved, chatAgent, entangled, haunted, sessionVars>>

\* The turn of m moves to t and its agent to a, and the state is saved.
Put(m, t, a) ==
    /\ message' = [message EXCEPT ![m] = t]
    /\ chatAgent' = [chatAgent EXCEPT ![t.at] = a]
    /\ saved' = StateOf(a)
    /\ haunted' = (haunted \/ \E r \in Socket \ {t.at} : AtWork(r))

\* handleTurn, finally: release the controller if it is still one's own.
Over(m, a) == [a EXCEPT !.controller = IF @ = m THEN 0 ELSE @]

\* The message is stored, and handleTurn starts, next to a turn that started
\* while it was being stored or has not noticed its abort.
StartTurn(m) ==
    /\ message[m].pc = "store"
    /\ LET a      == chatAgent[message[m].at]
           others == TurnsAt(message[m].at)
       IN /\ Put(m, [message[m] EXCEPT !.pc = "plan"],
                    [a EXCEPT !.controller = m, !.last = m, !.forced = FALSE,
                              !.lookups = 0, !.history = @ \cup {m}])
          /\ entangled' = IF others = {} THEN entangled
                                         ELSE entangled \cup others \cup {m}
    /\ UNCHANGED sessionVars

Planning(m) == message[m].pc = "plan"

\* shouldForceGroundingLookup, when the plan is ANSWER_USER.
MustGround(m) ==
    LET a     == chatAgent[message[m].at]
        probe == IF message[m].fresh THEN m ELSE a.last
    IN ~a.forced /\ ~a.fetching /\ ~a.kb /\ "substantive" \in message[probe].kind

\* shouldForceLinkInjection.
MustLink(m) ==
    message[m].fresh /\ ~chatAgent[message[m].at].linkProvided /\ "wrapup" \in message[m].kind

\* runLookup: counted, then fetched.
Lookup(m, a) ==
    Put(m, [message[m] EXCEPT !.pc = "lookup", !.fresh = FALSE,
                              !.looked = IF @ < MAX_LOOKUPS_PER_MESSAGE + 2 THEN @ + 1 ELSE @],
           [a EXCEPT !.lookups = IF @ <= MAX_LOOKUPS_PER_MESSAGE THEN @ + 1 ELSE @,
                     !.fetching = TRUE])

\* injectExtra: the answer carries the link.
Linked(a, link) == [a EXCEPT !.linkProvided = @ \/ link]

\* The turn says something, with the link or without; an aborted one says it
\* to its history only.
Say(m, link, ungrounded) ==
    Put(m, [message[m] EXCEPT !.pc = "done", !.answered = ~message[m].aborted,
                              !.ungrounded = ungrounded],
           Over(m, Linked(chatAgent[message[m].at], link /\ ~message[m].aborted)))

GroundingLookup(m) ==
    /\ Planning(m)
    /\ MustGround(m)
    /\ Lookup(m, [chatAgent[message[m].at] EXCEPT !.forced = TRUE])
    /\ UNCHANGED <<entangled, sessionVars>>

\* Whatever the plan is, but for an ungrounded answer.
BeforeYouGo(m) ==
    /\ Planning(m)
    /\ MustLink(m)
    /\ Say(m, TRUE, "no")
    /\ UNCHANGED <<entangled, sessionVars>>

\* LOOKUP_KB below the cap; at the cap an apology instead.
LookupPlan(m) ==
    /\ Planning(m)
    /\ ~MustLink(m)
    /\ LET a == chatAgent[message[m].at]
       IN IF a.lookups >= MAX_LOOKUPS_PER_MESSAGE THEN Say(m, FALSE, "no")
                                                  ELSE Lookup(m, a)
    /\ UNCHANGED <<entangled, sessionVars>>

\* What the planner words itself rests on the knowledge base, if there is any.
Worded(m, how) == IF chatAgent[message[m].at].kb THEN "no" ELSE how

AnswerPlan(m) ==
    /\ Planning(m)
    /\ ~MustGround(m)
    /\ ~MustLink(m)
    /\ \E link \in BOOLEAN : Say(m, link, Worded(m, "answer"))
    /\ UNCHANGED <<entangled, sessionVars>>

\* END_CONVERSATION says goodbye, and nothing ends.  An action that is none of
\* the three is kept as the planner wrote it, and what comes with it is said.
\* Neither is a plan to answer, so that neither is kept from speaking ungrounded.
UncheckedPlan(m) ==
    /\ Planning(m)
    /\ ~MustLink(m)
    /\ Say(m, FALSE, Worded(m, "unchecked"))
    /\ UNCHANGED <<entangled, sessionVars>>

\* The knowledge base has answered, perhaps with nothing; the turn plans again
\* unless it has been aborted.
ChatLookupDone(m) ==
    /\ message[m].pc = "lookup"
    /\ \E found \in BOOLEAN :
         LET a == [chatAgent[message[m].at] EXCEPT !.kb = @ \/ found, !.fetching = FALSE]
         IN IF message[m].aborted
              THEN Put(m, [message[m] EXCEPT !.pc = "done"], Over(m, a))
              ELSE Put(m, [message[m] EXCEPT !.pc = "plan"], a)
    /\ UNCHANGED <<entangled, sessionVars>>

-----------------------------------------------------------------------------
MessageStep(m) ==
    \/ StartTurn(m) \/ GroundingLookup(m) \/ BeforeYouGo(m) \/ LookupPlan(m)
    \/ AnswerPlan(m) \/ UncheckedPlan(m) \/ ChatLookupDone(m)

ChatNext ==
    \/ RegisterChat \/ CompleteChatRun \/ CrashWidget \/ ExpireState
    \/ \E s \in Socket :
         \/ ConnectWidget(s) \/ DisconnectWidget(s)
         \/ \E m \in Message : WriteMessage(s, m)
    \/ \E m \in Message : MessageStep(m)

\* The database, the planner and the knowledge base answer or fail, and the
\* broker delivers.
ChatFairness ==
    /\ WF_chatVars(CompleteChatRun)
    /\ WF_chatVars(\E m \in Message : MessageStep(m))

ChatSpec == ChatInit /\ [][ChatNext]_chatVars /\ ChatFairness

-----------------------------------------------------------------------------
(* Properties *)

\* A plan to answer a substantive question is not said from an empty knowledge
\* base before it was looked up ("refusing to answer ungrounded"), unless turns
\* overlap.  A plan that calls itself anything else is said without the check.
NoUngroundedAnswer ==
    \A m \in Message \ entangled :
      message[m].ungrounded = "answer" /\ "substantive" \in message[m].kind
        => message[m].looked > 0

\* A message costs at most the capped lookups and the forced one, unless turns
\* overlap, whose messages reset the counter of each other.
LookupsBounded ==
    \A m \in Message \ entangled : message[m].looked <= MAX_LOOKUPS_PER_MESSAGE + 1

\* The state that a reconnecting visitor's agent loads holds every message that
\* a turn was started for, whichever agent took it, unless two agents were at
\* work at once or the cache dropped it.
ChatHistoryKept ==
    ~haunted => {m \in Message : message[m].pc \in {"plan", "lookup"} \/ message[m].answered}
                  \subseteq saved.history

\* Plans to answer are grounded at a bounded cost, and a reconnection loses nothing that
\* was said.
SessionIsSound == ChatTypeOK /\ NoUngroundedAnswer /\ LookupsBounded /\ ChatHistoryKept

\* A message gets an answer, unless a later message, the visitor's leaving or
\* a crash cuts its turn short.
MessagesAreAnswered ==
    \A m \in Message :
      message[m].pc = "store" ~>
        message[m].answered \/ message[m].aborted \/ chatCrashes > 0

\* A session whose visitor leaves is completed.  (One who leaves before the
\* agent is ready is not: the COMPLETE_RUN then names no run.)
ChatRunCompletes ==
    \A s \in Socket : socket[s] = "closed" ~> chatRun = "completed" \/ chatCrashes > 0
=============================================================================
