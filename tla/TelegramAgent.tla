--------------------------- MODULE TelegramAgent ---------------------------
(***************************************************************************)
(* One Telegram chat answered by an agent.  Each update gets an agent of   *)
(* its own, loaded from the chat's cache entry; every change of its state  *)
(* overwrites the entry.  The entry also names the conversation: the run   *)
(* is looked up by the entry's startedAt.  A cron completes the runs of    *)
(* the assistant that have a communication of more than ten minutes ago.   *)
(*                                                                         *)
(* Two updates that find no entry read the clock at different instants, so *)
(* a conversation is numbered by its startedAt.  Writes of the entry are   *)
(* not awaited but go through one connection, in their order.              *)
(***************************************************************************)
EXTENDS Naturals

CONSTANTS
    Update,      \* the updates of the chat
    MaxStarted,  \* bound on the conversations
    MaxTelegramCrashes

TelegramAssumption == MaxStarted \in Nat /\ MaxTelegramCrashes \in Nat
ASSUME TelegramAssumption

VARIABLES
    chatType,     \* telegram-assistant, or telegram-phone-ordering-assistant
    entry,        \* the cache entry of the chat
    conversation, \* the run of each startedAt
    update,       \* the handler of each update, and the turn it starts
    cron,         \* the timeout cron: runs it has listed, and the one it evicts
    completing,   \* COMPLETE_RUN messages
    overlapped,   \* history: conversations with two handlers at work at once
    overtaken,    \* history: conversations completed under a handler's feet, or
                  \* whose eviction a crash has prevented
    telegramCrashes

telegramVars == <<chatType, entry, conversation, update, cron, completing,
                  overlapped, overtaken, telegramCrashes>>

-----------------------------------------------------------------------------
(* Types *)

Started == 1..MaxStarted
NoStart == 0

\* "recorded": a communication of the run is stored; "old": for ten minutes.
Conversation == [run : {"none", "pending", "completed"},
                 recorded : BOOLEAN, old : BOOLEAN]

Handler == [pc : {"none", "read", "plan", "lookup", "done", "failed"},
            startedAt : Started \cup {NoStart}, history : SUBSET Update]

TelegramTypeOK ==
    /\ chatType \in {"assistant", "ordering"}
    /\ entry \in [startedAt : Started \cup {NoStart}, history : SUBSET Update]
    /\ conversation \in [Started -> Conversation]
    /\ update \in [Update -> Handler]
    /\ cron \in [listed : SUBSET Started, evicting : Started \cup {NoStart}]
    /\ completing \subseteq Started
    /\ overlapped \subseteq Started
    /\ overtaken \subseteq Started
    /\ telegramCrashes \in 0..MaxTelegramCrashes

NoEntry == [startedAt |-> NoStart, history |-> {}]
IdleCron == [listed |-> {}, evicting |-> NoStart]

TelegramInit ==
    /\ chatType \in {"assistant", "ordering"}
    /\ entry = NoEntry
    /\ conversation = [s \in Started |-> [run |-> "none", recorded |-> FALSE, old |-> FALSE]]
    /\ update = [u \in Update |-> [pc |-> "none", startedAt |-> NoStart, history |-> {}]]
    /\ cron = IdleCron
    /\ completing = {}
    /\ overlapped = {}
    /\ overtaken = {}
    /\ telegramCrashes = 0

Busy(u) == update[u].pc \in {"read", "plan", "lookup"}
Handling(s) == {u \in Update : Busy(u) /\ update[u].startedAt = s}

\* The clock goes on, so each conversation starts later than those before.
NextStart == {s \in Started : \A t \in Started :
                 t < s <=> \E u \in Update : update[u].startedAt = t}

-----------------------------------------------------------------------------
(* handleWebhookUpdate *)

turnVars == <<chatType, cron, completing, overtaken, telegramCrashes>>

\* The entry is read; without one a conversation starts now.
ReceiveUpdate(u) ==
    /\ update[u].pc = "none"
    /\ \E s \in IF entry = NoEntry THEN NextStart ELSE {entry.startedAt} :
         /\ update' = [update EXCEPT ![u] = [pc |-> "read", startedAt |-> s,
                                             history |-> entry.history]]
         /\ overlapped' = IF Handling(s) = {} THEN overlapped ELSE overlapped \cup {s}
         /\ overtaken' = IF cron.evicting = s THEN overtaken \cup {s} ELSE overtaken
    /\ UNCHANGED <<chatType, entry, conversation, cron, completing, telegramCrashes>>

\* The entry is written by the agent of u.
Save(u, history) == entry' = [startedAt |-> update[u].startedAt, history |-> history]

\* The run is found, completed or not, or made; the agent is loaded, and its
\* turn adds the message to the history and has it recorded.
StartTelegramTurn(u) ==
    /\ update[u].pc = "read"
    /\ LET s     == update[u].startedAt
           known == update[u].history \cup {u}
       IN /\ conversation' = [conversation EXCEPT
                 ![s].run = IF @ = "none" THEN "pending" ELSE @, ![s].recorded = TRUE]
          /\ update' = [update EXCEPT ![u].pc = "plan", ![u].history = known]
          /\ Save(u, known)
    /\ UNCHANGED <<overlapped, turnVars>>

\* No run or configuration is found, or making the agent fails: the error is
\* logged, and the message forgotten.  The run may have been made.
FailUpdate(u) ==
    /\ update[u].pc = "read"
    /\ update' = [update EXCEPT ![u].pc = "failed"]
    /\ \E made \in BOOLEAN :
         conversation' = [conversation EXCEPT ![update[u].startedAt].run =
                            IF made /\ @ = "none" THEN "pending" ELSE @]
    /\ UNCHANGED <<entry, overlapped, turnVars>>

\* The knowledge base is asked, which the order agent never does,
AskKnowledge(u) ==
    /\ chatType = "assistant"
    /\ update[u].pc = "plan"
    /\ update' = [update EXCEPT ![u].pc = "lookup"]
    /\ Save(u, update[u].history)
    /\ UNCHANGED <<conversation, overlapped, turnVars>>

\* and the last words of the turn are sent; each step saves the state.
Answer(u) ==
    /\ update[u].pc \in {"plan", "lookup"}
    /\ update' = [update EXCEPT ![u].pc = "done"]
    /\ Save(u, update[u].history)
    /\ UNCHANGED <<conversation, overlapped, turnVars>>

-----------------------------------------------------------------------------
(* The cache, the clock, the timeout cron and its message *)

handlerVars == <<chatType, update, overlapped>>

\* Two hours without a write.
ExpireEntry ==
    /\ entry # NoEntry
    /\ \A u \in Update : ~Busy(u)
    /\ entry' = NoEntry
    /\ UNCHANGED <<conversation, cron, completing, overtaken, telegramCrashes, handlerVars>>

TenMinutesPass(s) ==
    /\ conversation[s].recorded
    /\ ~conversation[s].old
    /\ conversation' = [conversation EXCEPT ![s].old = TRUE]
    /\ UNCHANGED <<entry, cron, completing, overtaken, telegramCrashes, handlerVars>>

\* completeTimedOutPendingRuns lists the pending runs of the assistant,
CronList ==
    /\ cron = IdleCron
    /\ chatType = "assistant"
    /\ LET pending == {s \in Started : conversation[s].run = "pending"}
       IN pending # {} /\ cron' = [cron EXCEPT !.listed = pending]
    /\ UNCHANGED <<entry, conversation, completing, overtaken, telegramCrashes, handlerVars>>

\* and for each that has an old communication publishes COMPLETE_RUN,
CronComplete(s) ==
    /\ cron.evicting = NoStart
    /\ s \in cron.listed
    /\ IF conversation[s].old
         THEN /\ completing' = completing \cup {s}
              /\ cron' = [listed |-> cron.listed \ {s}, evicting |-> s]
              /\ overtaken' = IF Handling(s) = {} THEN overtaken ELSE overtaken \cup {s}
         ELSE /\ cron' = [cron EXCEPT !.listed = @ \ {s}]
              /\ UNCHANGED <<completing, overtaken>>
    /\ UNCHANGED <<entry, conversation, telegramCrashes, handlerVars>>

\* Faulty: the entry stays.
CronForgetsEntry ==
    /\ cron.evicting # NoStart
    /\ cron' = [cron EXCEPT !.evicting = NoStart]
    /\ UNCHANGED <<entry, conversation, completing, overtaken, telegramCrashes, handlerVars>>

\* then evicts the chat's entry, whichever conversation the entry is of.
CronEvict ==
    /\ cron.evicting # NoStart
    /\ cron' = [cron EXCEPT !.evicting = NoStart]
    /\ entry' = NoEntry
    /\ UNCHANGED <<conversation, completing, overtaken, telegramCrashes, handlerVars>>

\* Faulty: the message is dropped.
LoseCompletion(s) ==
    /\ s \in completing
    /\ completing' = completing \ {s}
    /\ UNCHANGED <<entry, conversation, cron, overtaken, telegramCrashes, handlerVars>>

CompleteConversation(s) ==
    /\ s \in completing
    /\ completing' = completing \ {s}
    /\ conversation' = [conversation EXCEPT ![s].run = "completed"]
    /\ UNCHANGED <<entry, cron, overtaken, telegramCrashes, handlerVars>>

\* The process dies, handlers and cron with it (a message without text is
\* enough: nobody handles the rejection of its turn).
CrashTelegram ==
    /\ telegramCrashes < MaxTelegramCrashes
    /\ telegramCrashes' = telegramCrashes + 1
    /\ update' = [u \in Update |-> IF Busy(u) THEN [update[u] EXCEPT !.pc = "failed"]
                                             ELSE update[u]]
    /\ cron' = IdleCron
    /\ overtaken' = overtaken \cup ({cron.evicting} \cap Started)
    /\ UNCHANGED <<chatType, entry, conversation, completing, overlapped>>

-----------------------------------------------------------------------------
TelegramNext ==
    \/ \E u \in Update :
         \/ ReceiveUpdate(u) \/ StartTelegramTurn(u) \/ FailUpdate(u)
         \/ AskKnowledge(u) \/ Answer(u)
    \/ ExpireEntry \/ CronList \/ CronEvict \/ CrashTelegram
    \/ \E s \in Started : TenMinutesPass(s) \/ CronComplete(s) \/ CompleteConversation(s)

\* The cron runs every minute, the clock goes on, and the broker delivers.
TelegramFairness ==
    /\ WF_telegramVars(CronList)
    /\ WF_telegramVars(CronEvict)
    /\ WF_telegramVars(\E s \in Started : TenMinutesPass(s))
    /\ WF_telegramVars(\E s \in Started : CronComplete(s))
    /\ WF_telegramVars(\E s \in Started : CompleteConversation(s))

TelegramSpec == TelegramInit /\ [][TelegramNext]_telegramVars /\ TelegramFairness

-----------------------------------------------------------------------------
(* Properties *)

\* As long as its updates come one after the other, the entry of a
\* conversation holds all that was said in it.
TelegramHistoryKept ==
    entry.startedAt \notin overlapped \cup {NoStart} =>
      {u \in Update : update[u].startedAt = entry.startedAt
                        /\ update[u].pc \in {"plan", "lookup", "done"}} \subseteq entry.history

\* A message after a conversation has been completed starts another one, unless
\* the completion met an update at work (whose turn brings the entry back) or a
\* crash came before the eviction.
CompletedIsOver ==
    \A u \in Update :
      update[u].pc = "read" /\ conversation[update[u].startedAt].run = "completed"
        => update[u].startedAt \in overtaken

\* A conversation keeps what was said in it and is over when it was completed.
ConversationIsSound == TelegramTypeOK /\ TelegramHistoryKept /\ CompletedIsOver

\* Every conversation with the assistant in which something was recorded is
\* completed: the cron sees to it, through crashes.
IdleIsCompleted ==
    \A s \in Started :
      chatType = "assistant" /\ conversation[s].recorded
        ~> conversation[s].run = "completed"
=============================================================================
