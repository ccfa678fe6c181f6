-------------------------- MODULE MCConversations --------------------------
(***************************************************************************)
(* The three kinds of conversation share no state, so one run explores     *)
(* them one at a time: focus says which one moves.                         *)
(***************************************************************************)
EXTENDS PhoneCall, ChatWidget, TelegramAgent, TLC

CONSTANTS book, email, day

VARIABLE focus

vars == <<focus, callVars, chatVars, telegramVars>>

\* The one external action needs two pieces of information.
MCRequired == book :> {email, day}

MCKind == {{"substantive", "wrapup"}}

Init ==
    /\ focus \in {"phone", "widget", "telegram"}
    /\ CallInit /\ ChatInit /\ TelegramInit
    /\ focus # "phone" => agent.type = "voice"
    /\ focus # "telegram" => chatType = "assistant"

Next ==
    \/ /\ focus = "phone"
       /\ CallNext
       /\ UNCHANGED <<focus, chatVars, telegramVars>>
    \/ /\ focus = "widget"
       /\ ChatNext
       /\ UNCHANGED <<focus, callVars, telegramVars>>
    \/ /\ focus = "telegram"
       /\ TelegramNext
       /\ UNCHANGED <<focus, callVars, chatVars>>

Spec == Init /\ [][Next]_vars /\ CallFairness /\ ChatFairness /\ TelegramFairness

-----------------------------------------------------------------------------
\* Conversations end: messages are answered, and a call that is hung up, a
\* session that is left and a chat that falls silent have their runs completed.
ConversationsEnd ==
    HangUpCompletes /\ MessagesAreAnswered /\ ChatRunCompletes /\ IdleIsCompleted
=============================================================================
