------------------------------ MODULE PhoneCall ------------------------------
(***************************************************************************)
(* One phone call answered by an agent: TwilioVoiceService creates a run   *)
(* and hands out a socket address, TwilioMediaGateway serves the socket,   *)
(* and an LlmAgent ("voice") or OrderLlmAgent ("ordering") answers.        *)
(*                                                                         *)
(* The gateway does not wait for a turn before it takes the next prompt,   *)
(* so turns of one call overlap; they share the agent's fields and its     *)
(* only abort controller.  A turn is cut at its awaits: the planner, the   *)
(* knowledge base, the external action and the pause before a goodbye.     *)
(* The planner may return any plan.                                        *)
(***************************************************************************)
EXTENDS Naturals

CONSTANTS
    MaxPrompts,     \* the caller says at most so many things
    MaxActions,     \* external actions the agent starts on (bound)
    ActionName,     \* names of external actions
    Info,           \* pieces of information an action may require
    Required,       \* requiredInformation of each action name
    MaxCallCrashes  \* bound on crashes of the process

CallAssumption ==
    /\ MaxPrompts \in Nat
    /\ MaxActions \in Nat
    /\ MaxCallCrashes \in Nat
    /\ Required \in [ActionName -> SUBSET Info]
ASSUME CallAssumption

VARIABLES
    call,        \* the socket, and whether its close event has a listener
    callRun,     \* status of the call's workflow run
    hangups,     \* a COMPLETE_RUN message waits
    agent,       \* the fields of the agent
    controller,  \* currentAbort: the prompt whose turn an interrupt aborts
    turn,        \* one handleTurn per prompt
    deeds,       \* history: how often performAction ran for an action
    orders,      \* history: prompts whose turn published ORDER_CONFIRMED
    crossed,     \* history: actions touched while another turn performed one
    told,        \* history: what plans extracted for an action, less what a
                 \* later one of them left blank
    callCrashes  \* crashes so far

callVars == <<call, callRun, hangups, agent, controller, turn, deeds, orders,
              crossed, told, callCrashes>>

-----------------------------------------------------------------------------
(* Types *)

Prompt == 1..MaxPrompts
ActionId == 1..MaxActions
Nobody == 0
NoAction == 0

AgentType == {"voice", "ordering"}
Phase == {"none", "created", "ringing", "opening", "open", "gone", "closed"}
ActionState == {"idle", "asking", "performing"}
Step == {"none", "plan", "lookup", "perform", "farewell", "done"}

\* The record of an action that has not been made has some name.
SomeName == CHOOSE name \in ActionName : TRUE

Instance == [name : ActionName \cup {SomeName}, state : ActionState, info : SUBSET Info]

Agent == [type : AgentType, state : ActionState,
          current : ActionId \cup {NoAction},
          made : 0..MaxActions, instance : [ActionId -> Instance]]

\* "held": the copy of the collected information taken before performAction.
Turn == [pc : Step, aborted : BOOLEAN, depth : 0..1,
         acting : ActionId \cup {NoAction}, held : SUBSET Info]

SilentTurn == [pc |-> "none", aborted |-> FALSE, depth |-> 0,
               acting |-> NoAction, held |-> {}]

CallTypeOK ==
    /\ call \in [phase : Phase, heard : BOOLEAN]
    /\ callRun \in {"none", "pending", "completed"}
    /\ hangups \in BOOLEAN
    /\ agent \in Agent
    /\ controller \in Prompt \cup {Nobody}
    /\ turn \in [Prompt -> Turn]
    /\ deeds \in [ActionId -> Nat]
    /\ orders \subseteq Prompt
    /\ crossed \subseteq ActionId
    /\ told \in [ActionId -> SUBSET Info]
    /\ callCrashes \in 0..MaxCallCrashes

NewInstance(name) == [name |-> name, state |-> "idle", info |-> {}]

Live(p) == turn[p].pc \notin {"none", "done"}

CallInit ==
    /\ call = [phase |-> "none", heard |-> FALSE]
    /\ callRun = "none"
    /\ hangups = FALSE
    /\ \E type \in AgentType :
         agent = [type |-> type, state |-> "idle", current |-> NoAction, made |-> 0,
                  instance |-> [i \in ActionId |-> NewInstance(SomeName)]]
    /\ controller = Nobody
    /\ turn = [p \in Prompt |-> SilentTurn]
    /\ deeds = [i \in ActionId |-> 0]
    /\ orders = {}
    /\ crossed = {}
    /\ told = [i \in ActionId |-> {}]
    /\ callCrashes = 0

-----------------------------------------------------------------------------
(* The call: TwilioVoiceService and TwilioMediaGateway *)

agentVars == <<agent, controller, turn, deeds, orders, crossed, told>>

\* An incoming call: the run is saved first,
CreateCallRun ==
    /\ call.phase = "none"
    /\ call' = [call EXCEPT !.phase = "created"]
    /\ callRun' = "pending"
    /\ UNCHANGED <<hangups, agentVars, callCrashes>>

\* then the context is cached and the socket's address is returned.
CacheContext ==
    /\ call.phase = "created"
    /\ call' = [call EXCEPT !.phase = "ringing"]
    /\ UNCHANGED <<callRun, hangups, agentVars, callCrashes>>

\* The socket opens; handleConnection starts to read the context.
OpenSocket ==
    /\ call.phase = "ringing"
    /\ call' = [call EXCEPT !.phase = "opening"]
    /\ UNCHANGED <<callRun, hangups, agentVars, callCrashes>>

\* The context has been read and the listeners are attached: too late for the
\* close event of a caller who is gone.  An expired context or an unknown
\* agent closes the socket before anybody listens.
AttachListeners ==
    /\ call.phase \in {"opening", "gone"}
    /\ \/ /\ call.phase = "opening"
          /\ call' = [phase |-> "open", heard |-> TRUE]
       \/ call' = [call EXCEPT !.phase = "closed"]
    /\ UNCHANGED <<callRun, hangups, agentVars, callCrashes>>

HangUpEarly ==
    /\ call.phase = "opening"
    /\ call' = [call EXCEPT !.phase = "gone"]
    /\ UNCHANGED <<callRun, hangups, agentVars, callCrashes>>

\* The socket closes; its listener publishes COMPLETE_RUN.
Close ==
    IF call.phase = "open"
      THEN call' = [call EXCEPT !.phase = "closed"] /\ hangups' = TRUE
      ELSE UNCHANGED <<call, hangups>>

\* The caller hangs up, or the five minutes are over.
HangUp ==
    /\ call.phase = "open"
    /\ Close
    /\ UNCHANGED <<callRun, agentVars, callCrashes>>

HandleCompleteRun ==
    /\ hangups
    /\ hangups' = FALSE
    /\ callRun' = "completed"
    /\ UNCHANGED <<call, agentVars, callCrashes>>

\* The process dies: nobody hears the socket close, and the turns are gone.
CrashCall ==
    /\ callCrashes < MaxCallCrashes
    /\ call.phase # "none"
    /\ callCrashes' = callCrashes + 1
    /\ call' = IF call.phase = "ringing" THEN call
               ELSE [phase |-> "closed",
                     heard |-> call.phase = "closed" /\ call.heard]
    /\ turn' = [p \in Prompt |-> IF Live(p) THEN [turn[p] EXCEPT !.pc = "done"]
                                            ELSE turn[p]]
    /\ controller' = Nobody
    /\ UNCHANGED <<callRun, hangups, agent, deeds, orders, crossed, told>>

-----------------------------------------------------------------------------
(* Turns: BaseLlmAgent, LlmAgent, OrderLlmAgent *)

socketVars == <<callRun, callCrashes>>

Performing(p) == turn[p].pc = "perform"
\* A turn that is not p is waiting for an external action.
AnotherPerforms(p) == \E q \in Prompt \ {p} : Performing(q)

Touch(p, i) == crossed' = IF AnotherPerforms(p) THEN crossed \cup {i} ELSE crossed

\* Faulty: the controller is cleared without a look at whose it is.
ReleaseAnyController(p) == Nobody

\* finally: clear the controller unless a newer turn has installed its own.
ReleaseController(p) == IF controller = p THEN Nobody ELSE controller

EndTurn(p) ==
    /\ turn' = [turn EXCEPT ![p].pc = "done"]
    /\ controller' = ReleaseController(p)

\* A prompt starts a turn, whatever other turns are doing.
HearPrompt(p) ==
    /\ call.phase = "open"
    /\ turn[p].pc = "none"
    /\ \A q \in 1..(p - 1) : turn[q].pc # "none"
    /\ turn' = [turn EXCEPT ![p].pc = "plan"]
    /\ controller' = p
    /\ UNCHANGED <<call, hangups, agent, deeds, orders, crossed, told, socketVars>>

\* The caller speaks over the answer.
Interrupt ==
    /\ call.phase = "open"
    /\ controller # Nobody
    /\ turn' = [turn EXCEPT ![controller].aborted = TRUE]
    /\ UNCHANGED <<call, hangups, agent, controller, deeds, orders, crossed, told, socketVars>>

\* What planTurn may return: what parseAction lets through.  A plan that fails
\* or cannot be read becomes LOOKUP_KB; the signal reaches no call, so an
\* interrupted turn plans to the end as well.
Plan(type) ==
    {"NONE", "LOOKUP_KB", "END_CONVERSATION"} \cup
      (IF type = "voice" THEN {"PERFORM_EXTERNAL_ACTION"} ELSE {"TAKING_USER_ORDER"})

Planned(p, action) == turn[p].pc = "plan" /\ action \in Plan(agent.type)

\* NONE, or TAKING_USER_ORDER without a confirmation: nothing more to do.
PlanNothing(p) ==
    /\ Planned(p, "NONE")
    /\ ~(agent.type = "voice" /\ agent.state = "asking" /\ agent.current # NoAction)
    /\ EndTurn(p)
    /\ UNCHANGED <<call, hangups, agent, deeds, orders, crossed, told, socketVars>>

\* The order agent reports a confirmed order (with NONE, too).
PlanOrder(p) ==
    /\ Planned(p, "TAKING_USER_ORDER")
    /\ orders' = orders \cup {p}
    /\ EndTurn(p)
    /\ UNCHANGED <<call, hangups, agent, deeds, crossed, told, socketVars>>

\* END_CONVERSATION: the turn waits four seconds,
PlanFarewell(p) ==
    /\ Planned(p, "END_CONVERSATION")
    /\ turn' = [turn EXCEPT ![p].pc = "farewell"]
    /\ UNCHANGED <<call, hangups, agent, controller, deeds, orders, crossed, told, socketVars>>

\* then closes the socket.
Farewell(p) ==
    /\ turn[p].pc = "farewell"
    /\ Close
    /\ EndTurn(p)
    /\ UNCHANGED <<agent, deeds, orders, crossed, told, socketVars>>

\* LOOKUP_KB, which is also what a failed or unreadable plan becomes: looked
\* up once per question by LlmAgent.  OrderLlmAgent calls performLookupKb only
\* when a lookup has been made already, which then declines.
PlanLookup(p) ==
    /\ Planned(p, "LOOKUP_KB")
    /\ IF agent.type = "voice" /\ turn[p].depth = 0
         THEN /\ turn' = [turn EXCEPT ![p].pc = "lookup"]
              /\ UNCHANGED controller
         ELSE EndTurn(p)
    /\ UNCHANGED <<call, hangups, agent, deeds, orders, crossed, told, socketVars>>

\* fetchKbContext returns (nothing, when it fails); the turn plans again
\* unless it was interrupted.
LookupDone(p) ==
    /\ turn[p].pc = "lookup"
    /\ IF turn[p].aborted
         THEN EndTurn(p)
         ELSE /\ turn' = [turn EXCEPT ![p].pc = "plan", ![p].depth = 1]
              /\ UNCHANGED controller
    /\ UNCHANGED <<call, hangups, agent, deeds, orders, crossed, told, socketVars>>

-----------------------------------------------------------------------------
(* External actions of LlmAgent *)

\* availableInformation of a plan: the pieces extracted from the conversation,
\* and those it has a key for with nothing behind it.
Extract == {x \in [said : SUBSET Info, blank : SUBSET Info] : x.said \cap x.blank = {}}

\* Faulty: what was said before is dropped.
CollectedAnew(inst, x) == [inst EXCEPT !.info = x.said]

\* It is spread over collectedInformation, the blank pieces too, which then are
\* missing again.
Collected(inst, x) == [inst EXCEPT !.info = (@ \ x.blank) \cup x.said]

Tell(i, x) == told' = [told EXCEPT ![i] = (@ \ x.blank) \cup x.said]

\* missingRequiredInformation is empty.
Sufficient(name, info) == Required[name] \subseteq info

\* The turn starts performAction for i with all that has been collected.
StartAction(p, i, inst) ==
    /\ agent' = [agent EXCEPT !.state = "performing", !.current = i,
                              !.made = IF i > @ THEN i ELSE @,
                              !.instance[i] = [inst EXCEPT !.state = "performing"]]
    /\ deeds' = [deeds EXCEPT ![i] = @ + 1]
    /\ turn' = [turn EXCEPT ![p].pc = "perform", ![p].acting = i, ![p].held = inst.info]
    /\ UNCHANGED controller

\* NONE while information is asked for: what the plan extracted is added, and
\* the action is performed when nothing is missing.
PlanCollect(p) ==
    /\ Planned(p, "NONE")
    /\ agent.type = "voice" /\ agent.state = "asking" /\ agent.current # NoAction
    /\ \E x \in Extract :
         LET i    == agent.current
             inst == Collected(agent.instance[i], x)
         IN  /\ Touch(p, i)
             /\ Tell(i, x)
             /\ IF Sufficient(inst.name, inst.info)
                  THEN StartAction(p, i, inst)
                  ELSE /\ agent' = [agent EXCEPT !.instance[i] = inst]
                       /\ EndTurn(p)
                       /\ UNCHANGED deeds
    /\ UNCHANGED <<call, hangups, orders, socketVars>>

\* resolveActionInstance: the current action when the plan continues it,
\* else a new one.
Resolved(name, continues) ==
    IF continues /\ agent.current # NoAction /\ agent.instance[agent.current].name = name
      THEN {agent.current}
      ELSE {agent.made + 1} \cap ActionId

\* PERFORM_EXTERNAL_ACTION: an interrupted turn leaves the new action behind
\* as the current one; otherwise the action is performed or asked about.
PlanAction(p) ==
    /\ Planned(p, "PERFORM_EXTERNAL_ACTION")
    /\ \E name \in ActionName, continues \in BOOLEAN, x \in Extract :
       \E i \in Resolved(name, continues) :
         LET known == IF i > agent.made THEN NewInstance(name) ELSE agent.instance[i]
             inst  == Collected(known, x)
             Keep(a, s) == agent' = [agent EXCEPT !.state = s, !.current = i,
                                        !.made = IF i > @ THEN i ELSE @, !.instance[i] = a]
         IN  /\ Touch(p, i)
             /\ CASE turn[p].aborted ->
                       Keep(known, agent.state) /\ EndTurn(p) /\ UNCHANGED <<deeds, told>>
                  [] ~turn[p].aborted /\ Sufficient(name, inst.info) ->
                       StartAction(p, i, inst) /\ Tell(i, x)
                  [] OTHER ->
                       /\ Keep([inst EXCEPT !.state = "asking"], "asking")
                       /\ Tell(i, x)
                       /\ EndTurn(p)
                       /\ UNCHANGED deeds
    /\ UNCHANGED <<call, hangups, orders, socketVars>>

\* performAction has returned, which it does without having executed anything
\* when the service is unknown or fails.  The action is written back as it was
\* taken, and the turn plans again with "Action performed successfully".
ActionDone(p) ==
    /\ Performing(p)
    /\ LET i == turn[p].acting
       IN agent' = [agent EXCEPT !.state = "idle", !.current = NoAction,
                       !.instance[i] = [@ EXCEPT !.state = "idle", !.info = turn[p].held]]
    /\ turn' = [turn EXCEPT ![p].pc = "plan", ![p].depth = 0, ![p].acting = NoAction,
                            ![p].held = {}]
    /\ UNCHANGED <<call, hangups, controller, deeds, orders, crossed, told, socketVars>>

-----------------------------------------------------------------------------
TurnStep(p) ==
    \/ PlanNothing(p) \/ PlanOrder(p) \/ PlanFarewell(p) \/ Farewell(p)
    \/ PlanLookup(p) \/ LookupDone(p)
    \/ PlanCollect(p) \/ PlanAction(p) \/ ActionDone(p)

CallNext ==
    \/ CreateCallRun \/ CacheContext \/ OpenSocket \/ AttachListeners
    \/ HangUpEarly \/ HangUp \/ HandleCompleteRun \/ CrashCall
    \/ \E p \in Prompt : HearPrompt(p) \/ TurnStep(p)
    \/ Interrupt

\* A resumed handler runs, and the broker delivers.
CallFairness ==
    /\ WF_callVars(AttachListeners)
    /\ WF_callVars(HandleCompleteRun)
    /\ WF_callVars(\E p \in Prompt : TurnStep(p))

CallSpec == CallInit /\ [][CallNext]_callVars /\ CallFairness

-----------------------------------------------------------------------------
(* Properties *)

\* currentAbort belongs to the newest turn for as long as that turn lives, so
\* an interrupt never reaches an older turn or one that is over
\* (handleTurn: "A newer turn may have already installed its own controller").
ControllerIsNewest ==
    \A p \in Prompt :
      /\ controller = p => Live(p)
      /\ Live(p) /\ controller # p => \E q \in (p + 1)..MaxPrompts : turn[q].pc # "none"

\* An external action is performed once, unless another turn took it up while
\* one was being performed: what has been performed is no longer current.
PerformedOnce ==
    \A i \in ActionId : deeds[i] > 1 => i \in crossed

\* The newest action that waits for information is the one the agent asks
\* about, so that the caller's next words reach it.  A turn that comes back
\* from another action makes the agent forget it (crossed).
AskedIsRemembered ==
    \A i \in ActionId \ crossed :
      i = agent.made /\ agent.instance[i].state = "asking"
        => agent.state = "asking" /\ agent.current = i

\* Turns of a call that overlap neither interrupt, repeat nor forget what is
\* another turn's.
TurnsAreSound == CallTypeOK /\ ControllerIsNewest /\ PerformedOnce /\ AskedIsRemembered

\* An action is asked about and performed with all that plans extracted for it
\* since it was made, and with nothing that a later plan left blank: the copy
\* written back when performAction returns drops nothing, and brings nothing
\* back, unless another turn took up an action while one was performed.
InformationKept ==
    \A i \in ActionId \ crossed : agent.instance[i].info = told[i]

\* A call whose end is noticed has its run completed.
HangUpCompletes ==
    call.phase = "closed" /\ call.heard ~> callRun = "completed"
=============================================================================
