------------------------- MODULE ConversationsProofs -------------------------
(***************************************************************************)
(* Proofs about the three kinds of conversation.  TelegramAgent: what a    *)
(* chat's agent answers, and the run it answers for.  ChatWidget: the      *)
(* sessions of the widget and their messages.  PhoneCall: turns of one     *)
(* call that overlap.                                                      *)
(***************************************************************************)
EXTENDS PhoneCall, ChatWidget, TelegramAgent, FiniteSetTheorems, TLAPS

-----------------------------------------------------------------------------
(* TelegramAgent *)

\* An entry that names no conversation is none, a handler has one, a run that
\* is there was met by an update, and only such a run is listed or completed.
ConversationsAreMet ==
    /\ entry.startedAt = NoStart => entry = NoEntry
    /\ \A u \in Update :
         /\ update[u].pc = "none" => update[u].startedAt = NoStart
         /\ Busy(u) => update[u].startedAt \in Started
    /\ \A s \in Started :
         s \in completing \/ s \in cron.listed \/ conversation[s].run # "none" =>
           /\ conversation[s].run # "none"
           /\ \E u \in Update : update[u].startedAt = s

\* What was said in a conversation.
Said(s) == {u \in Update : update[u].startedAt = s /\ update[u].pc \in {"plan", "lookup", "done"}}

\* One handler at a time, which knows all that was said.
HandlersKnow ==
    \A s \in Started \ overlapped, u \in Update :
      Busy(u) /\ update[u].startedAt = s =>
        Said(s) \subseteq update[u].history /\ \A v \in Handling(s) : v = u

\* A conversation that is completed, or about to be, has no handler, and its
\* entry is about to go.
CompletedIsLeft ==
    \A s \in Started \ overtaken :
      s \in completing \/ conversation[s].run = "completed" =>
        /\ Handling(s) = {}
        /\ entry.startedAt = s => cron.evicting = s

TelegramInv ==
    /\ TelegramTypeOK /\ ConversationsAreMet /\ HandlersKnow /\ TelegramHistoryKept
    /\ CompletedIsLeft

LEMMA InitTelegram == TelegramInit => TelegramInv
    <1> SUFFICES ASSUME TelegramInit PROVE TelegramInv
        OBVIOUS
    <1>1. TelegramTypeOK
        BY TelegramAssumption
          DEF TelegramAssumption, TelegramInit, TelegramTypeOK, NoEntry, IdleCron, Conversation, Handler, NoStart
    <1>2. ConversationsAreMet /\ HandlersKnow /\ TelegramHistoryKept /\ CompletedIsLeft
        BY DEF TelegramInit, ConversationsAreMet, HandlersKnow, TelegramHistoryKept, CompletedIsLeft, NoEntry,
               IdleCron, NoStart, Busy, Handling
    <1> QED
        BY <1>1, <1>2 DEF TelegramInv

LEMMA ReceiveTelegram ==
    ASSUME TelegramInv, NEW u \in Update, ReceiveUpdate(u)
    PROVE  TelegramInv'
    <1>0. /\ entry \in [startedAt : Started \cup {NoStart}, history : SUBSET Update]
          /\ update \in [Update -> Handler] /\ update[u].pc = "none"
        BY DEF TelegramInv, TelegramTypeOK, ReceiveUpdate
    <1>1. PICK s \in IF entry = NoEntry THEN NextStart ELSE {entry.startedAt} :
            /\ update' = [update EXCEPT ![u] = [pc |-> "read", startedAt |-> s, history |-> entry.history]]
            /\ overlapped' = IF Handling(s) = {} THEN overlapped ELSE overlapped \cup {s}
            /\ overtaken' = IF cron.evicting = s THEN overtaken \cup {s} ELSE overtaken
        BY DEF ReceiveUpdate
    <1>2. UNCHANGED <<chatType, entry, conversation, cron, completing, telegramCrashes>>
        BY DEF ReceiveUpdate
    <1> DEFINE h == [pc |-> "read", startedAt |-> s, history |-> entry.history]
    <1>3. s \in Started /\ s # NoStart /\ (entry.startedAt = s \/ (entry = NoEntry /\ s \in NextStart))
        BY <1>0, <1>1 DEF TelegramInv, ConversationsAreMet, NextStart, Started, NoStart
    <1>4. entry = NoEntry => entry.startedAt # s /\ \A v \in Update : update[v].startedAt # s
        BY <1>1, <1>3 DEF NoEntry, NextStart, Started
    <1>5. h \in Handler /\ h.pc = "read" /\ h.startedAt = s /\ h.history = entry.history
        BY <1>0, <1>3 DEF Handler
    <1>6. update' = [update EXCEPT ![u] = h]
        BY <1>1
    <1> HIDE DEF h
    <1>7. update'[u] = h /\ \A v \in Update : v # u => update'[v] = update[v]
        BY <1>0, <1>6
    <1>8. TelegramTypeOK'
        BY <1>1, <1>2, <1>3, <1>5, <1>6 DEF TelegramInv, TelegramTypeOK
    <1>9. /\ Busy(u)' /\ ~ Busy(u) /\ \A v \in Update : v # u => (Busy(v)' <=> Busy(v))
          /\ \A t \in Started : t # s => Handling(t)' = Handling(t)
          /\ Handling(s)' = Handling(s) \cup {u}
          /\ \A t \in Started : Said(t)' \subseteq Said(t)
        BY <1>0, <1>5, <1>7 DEF Busy, Handling, Said
    <1>10. ConversationsAreMet'
        <2>1. \A v \in Update :
                /\ update'[v].pc = "none" => update'[v].startedAt = NoStart
                /\ Busy(v)' => update'[v].startedAt \in Started
            BY <1>3, <1>5, <1>7, <1>9 DEF TelegramInv, ConversationsAreMet
        <2>2. ASSUME NEW t \in Started, \E v \in Update : update[v].startedAt = t
              PROVE  \E v \in Update : update'[v].startedAt = t
            <3>1. PICK v \in Update : update[v].startedAt = t
                BY <2>2
            <3>2. t # NoStart
                BY DEF Started, NoStart
            <3>3. v # u
                BY <1>0, <3>1, <3>2 DEF TelegramInv, ConversationsAreMet
            <3> QED
                BY <1>7, <3>1, <3>3
        <2> QED
            BY <1>2, <2>1, <2>2 DEF TelegramInv, ConversationsAreMet
    <1>11. HandlersKnow'
        <2> SUFFICES ASSUME NEW t \in Started, t \notin overlapped', NEW v \in Update, Busy(v)', update'[v].startedAt = t
                     PROVE  Said(t)' \subseteq update'[v].history /\ \A w \in Handling(t)' : w = v
            BY DEF HandlersKnow
        <2>1. CASE t = s
            <3>1. Handling(s) = {} /\ s \notin overlapped
                BY <1>1, <2>1
            <3>2. v = u
                BY <1>9, <2>1, <3>1 DEF Handling
            <3>3. Said(s) \subseteq entry.history
                BY <1>3, <1>4, <3>1 DEF TelegramInv, TelegramHistoryKept, Said
            <3> QED
                BY <1>5, <1>7, <1>9, <2>1, <3>1, <3>2, <3>3
        <2>2. CASE t # s
            <3>1. v # u /\ t \notin overlapped
                BY <1>1, <1>5, <1>7, <2>2
            <3> QED
                BY <1>7, <1>9, <2>2, <3>1 DEF TelegramInv, HandlersKnow
        <2> QED
            BY <2>1, <2>2
    <1>12. TelegramHistoryKept'
        <2>1. entry.startedAt \in Started \cup {NoStart}
            BY <1>0
        <2>2. overlapped \subseteq overlapped'
            BY <1>1
        <2> QED
            BY <1>2, <1>9, <2>1, <2>2 DEF TelegramInv, TelegramHistoryKept, Said
    <1>13. CompletedIsLeft'
        <2> SUFFICES ASSUME NEW t \in Started, t \notin overtaken', t \in completing \/ conversation[t].run = "completed"
                     PROVE  Handling(t)' = {} /\ (entry.startedAt = t => cron.evicting = t)
            BY <1>2 DEF CompletedIsLeft
        <2>1. t \notin overtaken /\ Handling(t) = {} /\ (entry.startedAt = t => cron.evicting = t)
            BY <1>1 DEF TelegramInv, CompletedIsLeft
        <2>2. t # s
            <3> SUFFICES ASSUME t = s PROVE FALSE
                OBVIOUS
            <3>1. \E v \in Update : update[v].startedAt = s
                BY DEF TelegramInv, ConversationsAreMet
            <3> QED
                BY <1>1, <1>3, <1>4, <2>1, <3>1
        <2> QED
            BY <1>9, <2>1, <2>2
    <1> QED
        BY <1>8, <1>10, <1>11, <1>12, <1>13 DEF TelegramInv

\* A handler goes on: it saves what it knows, or fails.
LEMMA HandleTelegram ==
    ASSUME TelegramInv, NEW u \in Update, Busy(u), NEW h \in Handler,
           h.startedAt = update[u].startedAt, h.pc \in {"plan", "lookup", "done", "failed"},
           update' = [update EXCEPT ![u] = h],
           h.pc # "failed" =>
             /\ update[u].history \subseteq h.history
             /\ u \in h.history \cup Said(update[u].startedAt)
             /\ entry' = [startedAt |-> update[u].startedAt, history |-> h.history],
           h.pc = "failed" => entry' = entry,
           conversation' \in [Started -> Conversation],
           \A s \in Started :
             \/ conversation'[s].run = conversation[s].run
             \/ s = update[u].startedAt /\ conversation[s].run = "none" /\ conversation'[s].run = "pending",
           UNCHANGED <<overlapped, turnVars>>
    PROVE  TelegramInv'
    <1> DEFINE s == update[u].startedAt
    <1>0. /\ entry \in [startedAt : Started \cup {NoStart}, history : SUBSET Update]
          /\ update \in [Update -> Handler] /\ s \in Started /\ s # NoStart
        BY DEF TelegramInv, TelegramTypeOK, ConversationsAreMet, Started, NoStart
    <1>1. update'[u] = h /\ \A v \in Update : v # u => update'[v] = update[v]
        BY <1>0
    <1>2. UNCHANGED <<chatType, cron, completing, overtaken, telegramCrashes, overlapped>>
        BY DEF turnVars
    <1>3. h.history \in SUBSET Update
        BY DEF Handler
    <1>4. TelegramTypeOK'
        BY <1>0, <1>2, <1>3 DEF TelegramInv, TelegramTypeOK
    <1>5. /\ \A v \in Update : Busy(v)' => Busy(v) /\ update'[v].startedAt = update[v].startedAt
          /\ \A t \in Started : Handling(t)' \subseteq Handling(t)
          /\ \A t \in Started : Said(t)' \subseteq Said(t) \cup {u} /\ (t # s => Said(t)' = Said(t))
          /\ h.pc = "failed" => \A t \in Started : Said(t)' \subseteq Said(t)
        BY <1>0, <1>1 DEF Busy, Handling, Said
    <1>6. ConversationsAreMet'
        <2>1. \A v \in Update : update'[v].startedAt = update[v].startedAt
            BY <1>1
        <2>2. \A v \in Update : update'[v].pc = "none" => update[v].pc = "none"
            BY <1>1
        <2>3. entry'.startedAt = NoStart => entry' = NoEntry
            BY <1>0 DEF TelegramInv, ConversationsAreMet
        <2> QED
            BY <1>0, <1>2, <1>5, <2>1, <2>2, <2>3 DEF TelegramInv, ConversationsAreMet
    <1>7. s \notin overlapped => /\ Said(s) \subseteq update[u].history
                                 /\ \A v \in Handling(s) : v = u
        BY <1>0 DEF TelegramInv, HandlersKnow
    <1>8. HandlersKnow'
        <2> SUFFICES ASSUME NEW t \in Started, t \notin overlapped, NEW v \in Update, Busy(v)', update'[v].startedAt = t
                     PROVE  Said(t)' \subseteq update'[v].history /\ \A w \in Handling(t)' : w = v
            BY <1>2 DEF HandlersKnow
        <2>1. Busy(v) /\ update[v].startedAt = t
            BY <1>5
        <2>2. Said(t) \subseteq update[v].history /\ \A w \in Handling(t) : w = v
            BY <2>1 DEF TelegramInv, HandlersKnow
        <2>3. CASE v = u
            <3>1. h.pc # "failed"
                BY <1>1, <2>3 DEF Busy
            <3> QED
                BY <1>0, <1>1, <1>5, <2>1, <2>2, <2>3, <3>1
        <2>4. CASE v # u
            <3>1. t # s
                BY <1>0, <2>2, <2>4 DEF Handling
            <3> QED
                BY <1>1, <1>5, <2>2, <2>4, <3>1
        <2> QED
            BY <2>3, <2>4
    <1>9. TelegramHistoryKept'
        <2>1. CASE h.pc = "failed"
            BY <1>0, <1>2, <1>5, <2>1 DEF TelegramInv, TelegramHistoryKept, Said
        <2>2. CASE h.pc # "failed"
            BY <1>0, <1>2, <1>5, <1>7, <2>2 DEF TelegramHistoryKept, Said
        <2> QED
            BY <2>1, <2>2
    <1>10. CompletedIsLeft'
        <2> SUFFICES ASSUME NEW t \in Started, t \notin overtaken, t \in completing \/ conversation'[t].run = "completed"
                     PROVE  Handling(t)' = {} /\ (entry'.startedAt = t => cron.evicting = t)
            BY <1>2 DEF CompletedIsLeft
        <2>1. Handling(t) = {} /\ (entry.startedAt = t => cron.evicting = t)
            BY DEF TelegramInv, CompletedIsLeft
        <2>2. t # s
            BY <2>1 DEF Handling
        <2> QED
            BY <1>5, <2>1, <2>2
    <1> QED
        BY <1>4, <1>6, <1>8, <1>9, <1>10 DEF TelegramInv

LEMMA UpdatesStep ==
    ASSUME TelegramInv, NEW u \in Update,
           StartTelegramTurn(u) \/ FailUpdate(u) \/ AskKnowledge(u) \/ Answer(u)
    PROVE  TelegramInv'
    <1>0. /\ Busy(u) /\ update \in [Update -> Handler] /\ update[u] \in Handler
          /\ conversation \in [Started -> Conversation] /\ update[u].startedAt \in Started
        BY DEF TelegramInv, TelegramTypeOK, ConversationsAreMet, StartTelegramTurn, FailUpdate, AskKnowledge,
               Answer, Busy
    <1>1. CASE StartTelegramTurn(u)
        <2> DEFINE known == update[u].history \cup {u}
                   h     == [update[u] EXCEPT !.pc = "plan", !.history = known]
        <2>1. /\ update' = [update EXCEPT ![u] = h] /\ UNCHANGED <<overlapped, turnVars>>
              /\ entry' = [startedAt |-> update[u].startedAt, history |-> known]
            BY <1>0, <1>1 DEF StartTelegramTurn, Save
        <2>2. known \subseteq Update
            BY <1>0 DEF Handler
        <2> HIDE DEF known
        <2>3. h \in Handler /\ h.pc = "plan" /\ h.startedAt = update[u].startedAt /\ h.history = known
            BY <1>0, <2>2 DEF Handler
        <2> HIDE DEF h
        <2>4. known = update[u].history \cup {u}
            BY DEF known
        <2> DEFINE c == [conversation[update[u].startedAt] EXCEPT
                           !.run = IF @ = "none" THEN "pending" ELSE @, !.recorded = TRUE]
        <2>5. conversation' = [conversation EXCEPT ![update[u].startedAt] = c]
            BY <1>0, <1>1 DEF StartTelegramTurn
        <2>6. /\ c \in Conversation
              /\ c.run = IF conversation[update[u].startedAt].run = "none" THEN "pending"
                                                                           ELSE conversation[update[u].startedAt].run
            BY <1>0 DEF Conversation
        <2> HIDE DEF c
        <2>7. /\ conversation' \in [Started -> Conversation]
              /\ \A s \in Started :
                   \/ conversation'[s].run = conversation[s].run
                   \/ s = update[u].startedAt /\ conversation[s].run = "none" /\ conversation'[s].run = "pending"
            BY <1>0, <2>5, <2>6
        <2> QED
            BY <1>0, <2>1, <2>3, <2>4, <2>7, HandleTelegram
    <1>2. CASE FailUpdate(u)
        <2> DEFINE h == [update[u] EXCEPT !.pc = "failed"]
        <2>1. update' = [update EXCEPT ![u] = h] /\ UNCHANGED <<entry, overlapped, turnVars>>
            BY <1>0, <1>2 DEF FailUpdate
        <2>2. h \in Handler /\ h.pc = "failed" /\ h.startedAt = update[u].startedAt
            BY <1>0 DEF Handler
        <2> HIDE DEF h
        <2>3. PICK made \in BOOLEAN :
                conversation' = [conversation EXCEPT ![update[u].startedAt].run =
                                   IF made /\ @ = "none" THEN "pending" ELSE @]
            BY <1>2 DEF FailUpdate
        <2>4. /\ conversation' \in [Started -> Conversation]
              /\ \A s \in Started :
                   \/ conversation'[s].run = conversation[s].run
                   \/ s = update[u].startedAt /\ conversation[s].run = "none" /\ conversation'[s].run = "pending"
            BY <1>0, <2>3 DEF Conversation
        <2> QED
            BY <1>0, <2>1, <2>2, <2>4, HandleTelegram
    <1>3. ASSUME NEW pc \in {"lookup", "done"}, update' = [update EXCEPT ![u].pc = pc],
                 Save(u, update[u].history), UNCHANGED <<conversation, overlapped, turnVars>>,
                 update[u].pc \in {"plan", "lookup"}
          PROVE  TelegramInv'
        <2> DEFINE h == [update[u] EXCEPT !.pc = pc]
        <2>1. /\ update' = [update EXCEPT ![u] = h]
              /\ entry' = [startedAt |-> update[u].startedAt, history |-> update[u].history]
            BY <1>0, <1>3 DEF Save
        <2>2. h \in Handler /\ h.pc = pc /\ h.startedAt = update[u].startedAt /\ h.history = update[u].history
            BY <1>0 DEF Handler
        <2> HIDE DEF h
        <2>3. u \in Said(update[u].startedAt)
            BY <1>3 DEF Said
        <2> QED
            BY <1>0, <1>3, <2>1, <2>2, <2>3, HandleTelegram
    <1>4. CASE AskKnowledge(u)
        BY <1>3, <1>4 DEF AskKnowledge
    <1>5. CASE Answer(u)
        BY <1>3, <1>5 DEF Answer
    <1> QED
        BY <1>1, <1>2, <1>4, <1>5

\* What happens beside the updates: the entry stays or goes, and a conversation
\* is completed only if it was about to be.
LEMMA AroundTelegram ==
    ASSUME TelegramInv, TelegramTypeOK', UNCHANGED <<update, overlapped>>, entry' \in {entry, NoEntry},
           overtaken \subseteq overtaken',
           \A s \in Started :
             /\ s \in completing' \/ s \in cron'.listed \/ conversation'[s].run # "none" =>
                  s \in completing \/ s \in cron.listed \/ conversation[s].run # "none"
             /\ conversation[s].run # "none" => conversation'[s].run # "none"
             /\ s \in completing' \/ conversation'[s].run = "completed" =>
                  \/ s \in overtaken'
                  \/ /\ s \in completing \/ conversation[s].run = "completed"
                     /\ cron.evicting = s => cron'.evicting = s \/ entry' = NoEntry
                  \/ Handling(s) = {} /\ cron'.evicting = s
    PROVE  TelegramInv'
    <1>0. /\ entry \in [startedAt : Started \cup {NoStart}, history : SUBSET Update]
          /\ NoEntry.startedAt = NoStart /\ NoStart \notin Started
        BY DEF TelegramInv, TelegramTypeOK, NoEntry, NoStart, Started
    <1>1. \A s \in Started : Handling(s)' = Handling(s)
        BY DEF Handling, Busy
    <1>2. ConversationsAreMet'
        BY DEF TelegramInv, ConversationsAreMet, Busy, NoEntry
    <1>3. HandlersKnow'
        BY <1>1 DEF TelegramInv, HandlersKnow, Busy, Said
    <1>4. TelegramHistoryKept'
        BY <1>0 DEF TelegramInv, TelegramHistoryKept
    <1>5. CompletedIsLeft'
        <2> SUFFICES ASSUME NEW t \in Started, t \notin overtaken', t \in completing' \/ conversation'[t].run = "completed"
                     PROVE  Handling(t)' = {} /\ (entry'.startedAt = t => cron'.evicting = t)
            BY DEF CompletedIsLeft
        <2>1. CASE Handling(t) = {} /\ cron'.evicting = t
            BY <1>1, <2>1
        <2>2. CASE /\ t \in completing \/ conversation[t].run = "completed"
                   /\ cron.evicting = t => cron'.evicting = t \/ entry' = NoEntry
            <3>1. Handling(t) = {} /\ (entry.startedAt = t => cron.evicting = t)
                BY <2>2 DEF TelegramInv, CompletedIsLeft
            <3> QED
                BY <1>0, <1>1, <2>2, <3>1
        <2> QED
            BY <2>1, <2>2
    <1> QED
        BY <1>2, <1>3, <1>4, <1>5 DEF TelegramInv

LEMMA CronStep ==
    ASSUME TelegramInv,
           \/ ExpireEntry \/ CronList \/ CronEvict
           \/ \E s \in Started : TenMinutesPass(s) \/ CronComplete(s) \/ CompleteConversation(s)
    PROVE  TelegramInv'
    <1>0. /\ TelegramTypeOK /\ conversation \in [Started -> Conversation] /\ NoStart \notin Started
          /\ cron \in [listed : SUBSET Started, evicting : Started \cup {NoStart}]
          /\ NoEntry \in [startedAt : Started \cup {NoStart}, history : SUBSET Update]
        BY DEF TelegramInv, TelegramTypeOK, NoEntry, NoStart, Started
    <1>1. CASE ExpireEntry
        <2>1. TelegramTypeOK'
            BY <1>0, <1>1 DEF ExpireEntry, handlerVars, TelegramTypeOK
        <2> QED
            BY <1>1, <2>1, AroundTelegram DEF ExpireEntry, handlerVars
    <1>2. CASE CronList
        <2>1. /\ cron' = [cron EXCEPT !.listed = {s \in Started : conversation[s].run = "pending"}]
              /\ cron.evicting = NoStart
              /\ UNCHANGED <<chatType, entry, conversation, update, completing, overlapped, overtaken, telegramCrashes>>
            BY <1>2 DEF CronList, handlerVars, IdleCron
        <2>2. /\ cron'.listed = {s \in Started : conversation[s].run = "pending"}
              /\ cron'.evicting = NoStart /\ cron' \in [listed : SUBSET Started, evicting : Started \cup {NoStart}]
            BY <1>0, <2>1
        <2>3. TelegramTypeOK'
            BY <1>0, <2>1, <2>2 DEF TelegramTypeOK
        <2>4. \A s \in cron'.listed : conversation[s].run # "none"
            BY <2>2
        <2> QED
            BY <1>0, <2>1, <2>2, <2>3, <2>4, AroundTelegram
    <1>3. CASE CronEvict
        <2>1. /\ cron' = [cron EXCEPT !.evicting = NoStart] /\ entry' = NoEntry
              /\ UNCHANGED <<chatType, conversation, update, completing, overlapped, overtaken, telegramCrashes>>
            BY <1>3 DEF CronEvict, handlerVars
        <2>2. cron'.listed = cron.listed /\ cron' \in [listed : SUBSET Started, evicting : Started \cup {NoStart}]
            BY <1>0, <2>1
        <2>3. TelegramTypeOK'
            BY <1>0, <2>1, <2>2 DEF TelegramTypeOK
        <2> QED
            BY <1>0, <2>1, <2>2, <2>3, AroundTelegram
    <1>4. ASSUME NEW s \in Started, TenMinutesPass(s) PROVE TelegramInv'
        <2>1. /\ conversation' = [conversation EXCEPT ![s].old = TRUE]
              /\ UNCHANGED <<chatType, entry, cron, update, completing, overlapped, overtaken, telegramCrashes>>
            BY <1>4 DEF TenMinutesPass, handlerVars
        <2>2. /\ conversation' \in [Started -> Conversation]
              /\ \A t \in Started : conversation'[t].run = conversation[t].run
            BY <1>0, <2>1 DEF Conversation
        <2>3. TelegramTypeOK'
            BY <1>0, <2>1, <2>2 DEF TelegramTypeOK
        <2> QED
            BY <2>1, <2>2, <2>3, AroundTelegram
    <1>5. ASSUME NEW s \in Started, CronComplete(s) PROVE TelegramInv'
        <2>0. /\ cron.evicting = NoStart /\ s \in cron.listed
              /\ UNCHANGED <<chatType, entry, conversation, update, overlapped, telegramCrashes>>
            BY <1>5 DEF CronComplete, handlerVars
        <2>1. CASE conversation[s].old
            <3>1. /\ completing' = completing \cup {s}
                  /\ cron' = [listed |-> cron.listed \ {s}, evicting |-> s]
                  /\ overtaken' = IF Handling(s) = {} THEN overtaken ELSE overtaken \cup {s}
                BY <1>5, <2>1 DEF CronComplete
            <3>2. cron'.listed = cron.listed \ {s} /\ cron'.evicting = s
                BY <3>1
            <3>3. TelegramTypeOK'
                BY <1>0, <2>0, <3>1 DEF TelegramTypeOK
            <3>4. overtaken \subseteq overtaken' /\ (s \in overtaken' \/ Handling(s) = {})
                BY <3>1
            <3>5. \A t \in Started : t \in completing' => t = s \/ t \in completing
                BY <3>1
            <3> QED
                BY <1>0, <2>0, <3>2, <3>3, <3>4, <3>5, AroundTelegram
        <2>2. CASE ~ conversation[s].old
            <3>1. cron' = [cron EXCEPT !.listed = cron.listed \ {s}] /\ UNCHANGED <<completing, overtaken>>
                BY <1>0, <1>5, <2>2 DEF CronComplete
            <3>2. cron'.listed = cron.listed \ {s} /\ cron'.evicting = cron.evicting
                BY <1>0, <3>1
            <3>3. TelegramTypeOK'
                BY <1>0, <2>0, <3>1 DEF TelegramTypeOK
            <3> QED
                BY <2>0, <3>1, <3>2, <3>3, AroundTelegram
        <2> QED
            BY <2>1, <2>2
    <1>6. ASSUME NEW s \in Started, CompleteConversation(s) PROVE TelegramInv'
        <2>1. /\ s \in completing /\ completing' = completing \ {s}
              /\ conversation' = [conversation EXCEPT ![s].run = "completed"]
              /\ UNCHANGED <<chatType, entry, cron, update, overlapped, overtaken, telegramCrashes>>
            BY <1>6 DEF CompleteConversation, handlerVars
        <2>2. /\ conversation' \in [Started -> Conversation]
              /\ \A t \in Started : conversation'[t].run = IF t = s THEN "completed" ELSE conversation[t].run
            BY <1>0, <2>1 DEF Conversation
        <2>3. TelegramTypeOK'
            BY <1>0, <2>1, <2>2 DEF TelegramTypeOK
        <2>4. \A t \in Started : t \in completing' => t \in completing
            BY <2>1
        <2> QED
            BY <2>1, <2>2, <2>3, <2>4, AroundTelegram
    <1> QED
        BY <1>1, <1>2, <1>3, <1>4, <1>5, <1>6

\* The handlers die with the process, and what the cron was about to do.
LEMMA CrashOfTelegram == TelegramInv /\ CrashTelegram => TelegramInv'
    <1> SUFFICES ASSUME TelegramInv, CrashTelegram PROVE TelegramInv'
        OBVIOUS
    <1>0. /\ TelegramTypeOK /\ update \in [Update -> Handler] /\ NoStart \notin Started
          /\ cron \in [listed : SUBSET Started, evicting : Started \cup {NoStart}]
          /\ MaxTelegramCrashes \in Nat
        BY TelegramAssumption DEF TelegramAssumption, TelegramInv, TelegramTypeOK, NoStart, Started
    <1>1. /\ update' = [u \in Update |-> IF Busy(u) THEN [update[u] EXCEPT !.pc = "failed"] ELSE update[u]]
          /\ cron' = IdleCron /\ overtaken' = overtaken \cup ({cron.evicting} \cap Started)
          /\ telegramCrashes < MaxTelegramCrashes /\ telegramCrashes' = telegramCrashes + 1
          /\ UNCHANGED <<chatType, entry, conversation, completing, overlapped>>
        BY DEF CrashTelegram
    <1>2. \A u \in Update :
            /\ update'[u] \in Handler /\ update'[u].startedAt = update[u].startedAt
            /\ update'[u].pc = IF Busy(u) THEN "failed" ELSE update[u].pc
        BY <1>0, <1>1 DEF Handler
    <1>3. /\ \A u \in Update : ~ Busy(u)'
          /\ \A s \in Started : Handling(s)' = {} /\ Said(s)' \subseteq Said(s)
        BY <1>2 DEF Busy, Handling, Said
    <1>4. TelegramTypeOK'
        <2>1. update' \in [Update -> Handler]
            BY <1>1, <1>2
        <2>2. cron' \in [listed : SUBSET Started, evicting : Started \cup {NoStart}]
            BY <1>1 DEF IdleCron
        <2> QED
            BY <1>0, <1>1, <2>1, <2>2 DEF TelegramTypeOK
    <1>5. ConversationsAreMet'
        BY <1>1, <1>2, <1>3 DEF TelegramInv, ConversationsAreMet, IdleCron, Busy
    <1>6. HandlersKnow'
        BY <1>3 DEF HandlersKnow
    <1>7. TelegramHistoryKept'
        BY <1>0, <1>1, <1>3 DEF TelegramInv, TelegramTypeOK, TelegramHistoryKept, Said
    <1>8. CompletedIsLeft'
        BY <1>0, <1>1, <1>3 DEF TelegramInv, CompletedIsLeft
    <1> QED
        BY <1>4, <1>5, <1>6, <1>7, <1>8 DEF TelegramInv

LEMMA TelegramStep == TelegramInv /\ [TelegramNext]_telegramVars => TelegramInv'
    <1> SUFFICES ASSUME TelegramInv, [TelegramNext]_telegramVars PROVE TelegramInv'
        OBVIOUS
    <1>1. CASE UNCHANGED telegramVars
        BY <1>1 DEF telegramVars, TelegramInv, TelegramTypeOK, ConversationsAreMet, HandlersKnow,
                    TelegramHistoryKept, CompletedIsLeft, Busy, Handling, Said
    <1> QED
        BY <1>1, ReceiveTelegram, UpdatesStep, CronStep, CrashOfTelegram DEF TelegramNext

\* The entry of a conversation holds all that was said in it while its updates
\* come one after the other, and a message after its completion starts another
\* conversation, unless the completion met an update or a crash
\* (handleWebhookUpdate, completeTimedOutPendingRuns).
THEOREM ConversationsAreKept == TelegramSpec => []ConversationIsSound
    <1>1. TelegramInv => ConversationIsSound
        <2> SUFFICES ASSUME TelegramInv PROVE ConversationIsSound
            OBVIOUS
        <2>1. CompletedIsOver
            <3> SUFFICES ASSUME NEW u \in Update, update[u].pc = "read",
                                conversation[update[u].startedAt].run = "completed"
                         PROVE  update[u].startedAt \in overtaken
                BY DEF CompletedIsOver
            <3>1. Busy(u) /\ update[u].startedAt \in Started
                BY DEF TelegramInv, ConversationsAreMet, Busy
            <3> QED
                BY <3>1 DEF TelegramInv, CompletedIsLeft, Handling
        <2> QED
            BY <2>1 DEF TelegramInv, ConversationIsSound
    <1> QED
        BY <1>1, InitTelegram, TelegramStep, PTL DEF TelegramSpec

-----------------------------------------------------------------------------
(* ChatWidget *)

Delivered(m) == message[m].pc \in {"store", "plan", "lookup"}

\* A message is at an open socket's agent, or at one that was open; it counts
\* from nothing, and an agent that fetches does so for a turn.
MessagesAreAt ==
    /\ \A m \in Message :
         /\ Delivered(m) => message[m].at \in Socket /\ socket[message[m].at] # "none"
         /\ message[m].pc = "store" => message[m].looked = 0 /\ message[m].fresh
         /\ message[m].pc \in {"none", "store"} => message[m].ungrounded = "no" /\ ~ message[m].answered
    /\ \A s \in Socket : chatAgent[s].fetching =>
         \E m \in Message : message[m].at = s /\ message[m].pc = "lookup"

\* The turn that has its agent to itself: the agent's counter and flags speak
\* of this turn.
TurnIsAlone ==
    \A m \in Message \ entangled :
      Turning(m) =>
        LET a == chatAgent[message[m].at] IN
        /\ TurnsAt(message[m].at) = {m}
        /\ message[m].looked = a.lookups
        /\ a.forced => message[m].looked > 0
        /\ ~ message[m].fresh => message[m].looked > 0
        /\ ~ a.forced => a.lookups <= MAX_LOOKUPS_PER_MESSAGE

\* The messages that a turn was started for, and that it has not dropped.
Heard == {m \in Message : message[m].pc \in {"plan", "lookup"} \/ message[m].answered}

\* Unless haunted, one agent is at work, and it knows what the cache knows.
AgentsKnow ==
    ~ haunted =>
      /\ Heard \subseteq saved.history
      /\ \A r, s \in Socket : AtWork(r) /\ AtWork(s) => r = s
      /\ \A s \in Socket : AtWork(s) => Heard \subseteq chatAgent[s].history

ChatInv ==
    /\ ChatTypeOK /\ MessagesAreAt /\ TurnIsAlone /\ NoUngroundedAnswer /\ LookupsBounded
    /\ AgentsKnow

LEMMA ChatTypes ==
    /\ MaxChatCrashes \in Nat /\ MAX_LOOKUPS_PER_MESSAGE \in Nat /\ Kind \subseteq SUBSET {"substantive", "wrapup"}
    /\ 0 \notin Socket /\ 0 \notin Message /\ EmptyState \in State /\ NoMessage \in Turned
    /\ \A state \in State : NewAgent(state) \in ChatAgent
    /\ \A a \in ChatAgent : StateOf(a) \in State
    <1>1. /\ MaxChatCrashes \in Nat /\ MAX_LOOKUPS_PER_MESSAGE \in Nat /\ Kind \subseteq SUBSET {"substantive", "wrapup"}
        BY ChatAssumption DEF ChatAssumption
    <1>2. EmptyState \in State /\ NoMessage \in Turned
        BY <1>1 DEF EmptyState, State, NoMessage, Turned
    <1>3. \A state \in State : NewAgent(state) \in ChatAgent
        BY <1>1 DEF NewAgent, State, ChatAgent
    <1>4. \A a \in ChatAgent : StateOf(a) \in State
        BY DEF StateOf, State, ChatAgent
    <1> QED
        BY <1>1, <1>2, <1>3, <1>4 DEF Socket, Message

LEMMA InitChat == ChatInit => ChatInv
    <1> SUFFICES ASSUME ChatInit PROVE ChatInv
        OBVIOUS
    <1>1. /\ socket = [s \in Socket |-> "none"] /\ message = [m \in Message |-> NoMessage]
          /\ chatAgent = [s \in Socket |-> NewAgent(EmptyState)] /\ ~ haunted
        BY DEF ChatInit
    <1>2. ChatTypeOK
        <2>1. NewAgent(EmptyState) \in ChatAgent
            BY ChatTypes
        <2>2. chatAgent \in [Socket -> ChatAgent] /\ message \in [Message -> Turned]
            BY <1>1, <2>1, ChatTypes
        <2>3. chatCrashes \in 0..MaxChatCrashes /\ saved \in State
            BY ChatTypes DEF ChatInit
        <2>4. /\ chatRun \in {"none", "pending", "completed"} /\ completions \in BOOLEAN /\ haunted \in BOOLEAN
              /\ entangled \subseteq Message /\ socket \in [Socket -> {"none", "open", "lost", "closed"}]
            BY DEF ChatInit
        <2> QED
            BY <2>2, <2>3, <2>4 DEF ChatTypeOK
    <1>3. \A m \in Message : /\ message[m].pc = "none" /\ ~ message[m].answered /\ message[m].ungrounded = "no"
                             /\ message[m].looked = 0
        BY <1>1 DEF NoMessage
    <1>4. \A s \in Socket : ~ chatAgent[s].fetching /\ ~ AtWork(s)
        BY <1>1, <1>3 DEF NewAgent, AtWork
    <1>5. MessagesAreAt /\ TurnIsAlone /\ NoUngroundedAnswer /\ LookupsBounded
        BY <1>3, <1>4, ChatTypes DEF MessagesAreAt, Delivered, TurnIsAlone, Turning, NoUngroundedAnswer, LookupsBounded
    <1>6. AgentsKnow
        BY <1>3, <1>4 DEF AgentsKnow, Heard
    <1> QED
        BY <1>2, <1>5, <1>6 DEF ChatInv

\* An agent's turn is aborted: nothing else changes.
LEMMA Aborted ==
    ASSUME ChatTypeOK, NEW s \in Socket
    PROVE  /\ Abort(s) \in [Message -> Turned]
           /\ \A m \in Message :
                /\ Abort(s)[m].pc = message[m].pc /\ Abort(s)[m].at = message[m].at
                /\ Abort(s)[m].kind = message[m].kind /\ Abort(s)[m].fresh = message[m].fresh
                /\ Abort(s)[m].looked = message[m].looked /\ Abort(s)[m].answered = message[m].answered
                /\ Abort(s)[m].ungrounded = message[m].ungrounded
    <1>1. ASSUME NEW m \in Message
          PROVE  /\ Abort(s)[m] \in Turned /\ Abort(s)[m].pc = message[m].pc /\ Abort(s)[m].at = message[m].at
                 /\ Abort(s)[m].kind = message[m].kind /\ Abort(s)[m].fresh = message[m].fresh
                 /\ Abort(s)[m].looked = message[m].looked /\ Abort(s)[m].answered = message[m].answered
                 /\ Abort(s)[m].ungrounded = message[m].ungrounded
        <2>1. message[m] \in Turned
            BY DEF ChatTypeOK
        <2> DEFINE x == [message[m] EXCEPT !.aborted = TRUE]
        <2>2. /\ x \in Turned /\ x.pc = message[m].pc /\ x.at = message[m].at
              /\ x.kind = message[m].kind /\ x.fresh = message[m].fresh
              /\ x.looked = message[m].looked /\ x.answered = message[m].answered
              /\ x.ungrounded = message[m].ungrounded
            BY <2>1 DEF Turned
        <2>3. Abort(s)[m] \in {x, message[m]}
            BY DEF Abort
        <2> HIDE DEF x
        <2> QED
            BY <2>1, <2>2, <2>3
    <1>2. Abort(s) = [m \in Message |-> Abort(s)[m]]
        BY DEF Abort
    <1> QED
        BY <1>1, <1>2

\* What happens beside the turns: each message stays where it is or ends
\* silently, a new one arrives, and only a connection makes an agent.
LEMMA AroundChat ==
    ASSUME ChatInv, ChatTypeOK', UNCHANGED entangled, haunted => haunted',
           \A m \in Message :
             \/ /\ message'[m].pc \in {message[m].pc, "done"} /\ message'[m].at = message[m].at
                /\ message[m].pc = "none" => message'[m].pc = "none"
                /\ message'[m].kind = message[m].kind /\ message'[m].fresh = message[m].fresh
                /\ message'[m].looked = message[m].looked /\ message'[m].answered = message[m].answered
                /\ message'[m].ungrounded = message[m].ungrounded
             \/ /\ message[m].pc = "none" /\ message'[m].pc = "store"
                /\ message'[m].at \in Socket /\ socket[message'[m].at] = "open"
                /\ message'[m].fresh /\ message'[m].looked = 0
                /\ ~ message'[m].answered /\ message'[m].ungrounded = "no",
           \A s \in Socket :
             /\ socket[s] # "none" => socket'[s] # "none"
             /\ chatAgent'[s] = chatAgent[s] \/ (~ chatAgent'[s].fetching /\ \A m \in Message : message'[m].at = s => ~ Turning(m)'),
           \A s \in Socket : chatAgent[s].fetching =>
             ~ chatAgent'[s].fetching
               \/ \A m \in Message : message[m].pc = "lookup" /\ message[m].at = s => message'[m].pc = "lookup",
           ~ haunted' =>
             /\ saved' = saved
             /\ \A r, s \in Socket : AtWork(r)' /\ AtWork(s)' => r = s
             /\ \A s \in Socket : AtWork(s)' =>
                  \/ AtWork(s) /\ chatAgent'[s] = chatAgent[s]
                  \/ saved.history \subseteq chatAgent'[s].history
    PROVE  ChatInv'
    <1>1. \A m \in Message :
            /\ message'[m].answered = message[m].answered \/ ~ message'[m].answered
            /\ Turning(m)' => Turning(m) /\ message'[m].pc = message[m].pc /\ message'[m].at = message[m].at
            /\ Delivered(m) => message'[m].at = message[m].at
        BY DEF Turning, Delivered
    <1>2. Heard' \subseteq Heard
        BY <1>1 DEF Heard, Turning
    <1>3. MessagesAreAt'
        <2>1. ASSUME NEW m \in Message
              PROVE  /\ Delivered(m)' => message'[m].at \in Socket /\ socket'[message'[m].at] # "none"
                     /\ message'[m].pc = "store" => message'[m].looked = 0 /\ message'[m].fresh
                     /\ message'[m].pc \in {"none", "store"} => message'[m].ungrounded = "no" /\ ~ message'[m].answered
            BY DEF ChatInv, MessagesAreAt, Delivered
        <2>2. ASSUME NEW s \in Socket, chatAgent'[s].fetching
              PROVE  \E m \in Message : message'[m].at = s /\ message'[m].pc = "lookup"
            <3>1. PICK m \in Message : message[m].at = s /\ message[m].pc = "lookup"
                BY <2>2 DEF ChatInv, MessagesAreAt
            <3>2. message'[m].pc = "lookup" /\ message'[m].at = s
                BY <1>1, <2>2, <3>1 DEF Delivered
            <3> QED
                BY <3>2
        <2> QED
            BY <2>1, <2>2 DEF MessagesAreAt
    <1>4. TurnIsAlone'
        <2> SUFFICES ASSUME NEW m \in Message \ entangled, Turning(m)'
                     PROVE  /\ TurnsAt(message[m].at)' = {m}
                            /\ message'[m].looked = chatAgent'[message'[m].at].lookups
                            /\ chatAgent'[message'[m].at].forced => message'[m].looked > 0
                            /\ ~ message'[m].fresh => message'[m].looked > 0
                            /\ ~ chatAgent'[message'[m].at].forced =>
                                 chatAgent'[message'[m].at].lookups <= MAX_LOOKUPS_PER_MESSAGE
            BY DEF TurnIsAlone
        <2>1. /\ Turning(m) /\ message'[m].at = message[m].at /\ message[m].at \in Socket
              /\ message'[m].looked = message[m].looked /\ message'[m].fresh = message[m].fresh
            BY <1>1 DEF ChatInv, MessagesAreAt, Delivered, Turning
        <2>2. chatAgent'[message[m].at] = chatAgent[message[m].at]
            BY <2>1
        <2>3. TurnsAt(message[m].at)' = {m}
            BY <1>1, <2>1 DEF ChatInv, TurnIsAlone, TurnsAt
        <2> QED
            BY <2>1, <2>2, <2>3 DEF ChatInv, TurnIsAlone
    <1>5. NoUngroundedAnswer' /\ LookupsBounded'
        BY ChatTypes DEF ChatInv, NoUngroundedAnswer, LookupsBounded
    <1>6. AgentsKnow'
        BY <1>2 DEF ChatInv, AgentsKnow
    <1> QED
        BY <1>3, <1>4, <1>5, <1>6 DEF ChatInv

\* The session's run, its sockets, the cache and the process.
LEMMA ChatSurroundings ==
    ASSUME ChatInv,
           \/ RegisterChat \/ CompleteChatRun \/ ExpireState
           \/ \E s \in Socket : ConnectWidget(s) \/ DisconnectWidget(s) \/ \E m \in Message : WriteMessage(s, m)
    PROVE  ChatInv'
    <1>0. /\ ChatTypeOK /\ socket \in [Socket -> {"none", "open", "lost", "closed"}]
          /\ chatAgent \in [Socket -> ChatAgent] /\ message \in [Message -> Turned] /\ saved \in State
        BY DEF ChatInv, ChatTypeOK
    <1>1. CASE RegisterChat \/ CompleteChatRun \/ ExpireState
        <2>1. /\ UNCHANGED <<socket, chatAgent, message, entangled>> /\ (haunted => haunted')
              /\ ~ haunted' => saved' = saved
            BY <1>1 DEF RegisterChat, CompleteChatRun, ExpireState
        <2>2. ChatTypeOK'
            BY <1>0, <1>1, ChatTypes DEF ChatTypeOK, RegisterChat, CompleteChatRun, ExpireState
        <2>3. \A s \in Socket : AtWork(s)' <=> AtWork(s)
            BY <2>1 DEF AtWork
        <2>4. ~ haunted' => \A r, s \in Socket : AtWork(r) /\ AtWork(s) => r = s
            BY <2>1 DEF ChatInv, AgentsKnow
        <2> QED
            BY <2>1, <2>2, <2>3, <2>4, AroundChat
    <1>2. ASSUME NEW s \in Socket, ConnectWidget(s) PROVE ChatInv'
        <2>1. PICK phase \in {"open", "lost"} : socket' = [socket EXCEPT ![s] = phase]
            BY <1>2 DEF ConnectWidget
        <2>2. /\ socket[s] = "none" /\ chatAgent' = [chatAgent EXCEPT ![s] = NewAgent(saved)]
              /\ haunted' = (haunted \/ \E r \in Socket \ {s} : AtWork(r))
              /\ UNCHANGED <<chatRun, saved, message, completions, entangled, chatCrashes>>
            BY <1>2 DEF ConnectWidget
        <2>3. NewAgent(saved) \in ChatAgent /\ ~ NewAgent(saved).fetching /\ NewAgent(saved).history = saved.history
            BY <1>0, ChatTypes DEF NewAgent
        <2>4. ChatTypeOK'
            BY <1>0, <2>1, <2>2, <2>3 DEF ChatTypeOK
        <2>5. \A m \in Message : message[m].at = s => ~ Delivered(m)
            BY <2>2 DEF ChatInv, MessagesAreAt
        <2>6. chatAgent'[s] = NewAgent(saved) /\ \A r \in Socket : r # s => chatAgent'[r] = chatAgent[r]
            BY <1>0, <2>2
        <2>7. \A r \in Socket : /\ r # s => (AtWork(r)' <=> AtWork(r))
                                /\ socket[r] # "none" => socket'[r] # "none"
            BY <1>0, <2>1, <2>2 DEF AtWork
        <2>8. haunted' \in BOOLEAN /\ (haunted => haunted') /\ (~ haunted' => \A r \in Socket \ {s} : ~ AtWork(r))
            BY <2>2, <1>0 DEF ChatTypeOK
        <2> QED
            BY <2>2, <2>3, <2>4, <2>5, <2>6, <2>7, <2>8, AroundChat DEF Delivered, Turning
    <1>3. ASSUME NEW s \in Socket, DisconnectWidget(s) PROVE ChatInv'
        <2>1. /\ socket' = [socket EXCEPT ![s] = "closed"] /\ message' = Abort(s) /\ completions' = TRUE
              /\ UNCHANGED <<chatRun, saved, chatAgent, entangled, haunted, chatCrashes>>
            BY <1>3 DEF DisconnectWidget
        <2>2. ChatTypeOK'
            BY <1>0, <2>1, Aborted DEF ChatTypeOK
        <2>3. \A m \in Message :
                /\ message'[m].pc = message[m].pc /\ message'[m].at = message[m].at
                /\ message'[m].kind = message[m].kind /\ message'[m].fresh = message[m].fresh
                /\ message'[m].looked = message[m].looked /\ message'[m].answered = message[m].answered
                /\ message'[m].ungrounded = message[m].ungrounded
            BY <1>0, <2>1, Aborted
        <2>4. \A r \in Socket : (socket[r] # "none" => socket'[r] # "none") /\ (AtWork(r)' => AtWork(r))
            BY <1>0, <2>1, <2>3 DEF AtWork
        <2>5. ~ haunted => \A r, q \in Socket : AtWork(r)' /\ AtWork(q)' => r = q
            BY <2>4 DEF ChatInv, AgentsKnow
        <2> QED
            BY <2>1, <2>2, <2>3, <2>4, <2>5, AroundChat
    <1>4. ASSUME NEW s \in Socket, NEW k \in Message, WriteMessage(s, k) PROVE ChatInv'
        <2>1. PICK kind \in Kind :
                message' = [Abort(s) EXCEPT ![k] = [NoMessage EXCEPT !.at = s, !.kind = kind, !.pc = "store"]]
            BY <1>4 DEF WriteMessage
        <2>2. /\ socket[s] = "open" /\ message[k].pc = "none"
              /\ UNCHANGED <<chatRun, saved, socket, chatAgent, completions, entangled, haunted, chatCrashes>>
            BY <1>4 DEF WriteMessage, sessionVars
        <2> DEFINE x == [NoMessage EXCEPT !.at = s, !.kind = kind, !.pc = "store"]
        <2>3. /\ x \in Turned /\ x.at = s /\ x.pc = "store" /\ x.fresh /\ x.looked = 0 /\ ~ x.answered /\ x.ungrounded = "no"
            BY ChatTypes DEF NoMessage, Turned
        <2> HIDE DEF x
        <2>4. message' = [Abort(s) EXCEPT ![k] = x]
            BY <2>1 DEF x
        <2>5. message' \in [Message -> Turned] /\ message'[k] = x /\ \A m \in Message : m # k => message'[m] = Abort(s)[m]
            BY <1>0, <2>3, <2>4, Aborted
        <2>6. ChatTypeOK'
            BY <1>0, <2>2, <2>5 DEF ChatTypeOK
        <2>7. \A m \in Message : m # k =>
                /\ message'[m].pc = message[m].pc /\ message'[m].at = message[m].at
                /\ message'[m].kind = message[m].kind /\ message'[m].fresh = message[m].fresh
                /\ message'[m].looked = message[m].looked /\ message'[m].answered = message[m].answered
                /\ message'[m].ungrounded = message[m].ungrounded
            BY <1>0, <2>5, Aborted
        <2>8. \A r \in Socket : AtWork(r)' => AtWork(r)
            BY <2>2, <2>3, <2>5, <2>7 DEF AtWork
        <2>9. ~ haunted => \A r, q \in Socket : AtWork(r)' /\ AtWork(q)' => r = q
            BY <2>8 DEF ChatInv, AgentsKnow
        <2> QED
            BY <2>2, <2>3, <2>5, <2>6, <2>7, <2>8, <2>9, AroundChat
    <1> QED
        BY <1>1, <1>2, <1>3, <1>4

LEMMA CrashOfChat == ChatInv /\ CrashWidget => ChatInv'
    <1> SUFFICES ASSUME ChatInv, CrashWidget PROVE ChatInv'
        OBVIOUS
    <1>0. ChatTypeOK /\ message \in [Message -> Turned] /\ chatCrashes \in 0..MaxChatCrashes
        BY DEF ChatInv, ChatTypeOK
    <1>1. /\ chatCrashes < MaxChatCrashes /\ chatCrashes' = chatCrashes + 1
          /\ socket' = [s \in Socket |-> IF socket[s] = "none" THEN "none" ELSE "closed"]
          /\ message' = [m \in Message |->
               IF message[m].pc = "none" THEN message[m] ELSE [message[m] EXCEPT !.pc = "done"]]
          /\ chatAgent' = [s \in Socket |-> NewAgent(EmptyState)]
          /\ UNCHANGED <<chatRun, saved, completions, entangled, haunted>>
        BY DEF CrashWidget
    <1>2. \A m \in Message :
            /\ message'[m] \in Turned /\ message'[m].pc \in {message[m].pc, "done"}
            /\ message'[m].pc \in {"none", "done"} /\ (message[m].pc = "none" => message'[m].pc = "none")
            /\ message'[m].kind = message[m].kind /\ message'[m].fresh = message[m].fresh
            /\ message'[m].looked = message[m].looked /\ message'[m].answered = message[m].answered
            /\ message'[m].ungrounded = message[m].ungrounded /\ message'[m].at = message[m].at
        <2> SUFFICES ASSUME NEW m \in Message
                     PROVE  /\ message'[m] \in Turned /\ message'[m].pc \in {message[m].pc, "done"}
                            /\ message'[m].pc \in {"none", "done"} /\ (message[m].pc = "none" => message'[m].pc = "none")
                            /\ message'[m].kind = message[m].kind /\ message'[m].fresh = message[m].fresh
                            /\ message'[m].looked = message[m].looked /\ message'[m].answered = message[m].answered
                            /\ message'[m].ungrounded = message[m].ungrounded /\ message'[m].at = message[m].at
            OBVIOUS
        <2>1. CASE message[m].pc = "none"
            BY <1>0, <1>1, <2>1
        <2>2. CASE message[m].pc # "none"
            <3>1. message'[m] = [message[m] EXCEPT !.pc = "done"] /\ message[m] \in Turned
                BY <1>0, <1>1, <2>2
            <3> QED
                BY <2>2, <3>1 DEF Turned
        <2> QED
            BY <2>1, <2>2
    <1>3. ~ NewAgent(EmptyState).fetching /\ NewAgent(EmptyState) \in ChatAgent
        BY ChatTypes DEF NewAgent
    <1>4. ChatTypeOK'
        <2>1. message' \in [Message -> Turned]
            BY <1>1, <1>2
        <2>2. chatAgent' \in [Socket -> ChatAgent]
            BY <1>1, <1>3
        <2> QED
            BY <1>0, <1>1, <2>1, <2>2, ChatTypes DEF ChatTypeOK
    <1>5. \A s \in Socket : ~ chatAgent'[s].fetching /\ ~ AtWork(s)' /\ (socket[s] # "none" => socket'[s] # "none")
        BY <1>1, <1>2, <1>3 DEF AtWork
    <1>6. \A m \in Message : ~ Turning(m)'
        BY <1>2 DEF Turning
    <1> QED
        BY <1>1, <1>2, <1>4, <1>5, <1>6, AroundChat

\* Turns that share an agent are all entangled.
LEMMA Company ==
    ASSUME ChatInv, NEW m \in Message, Turning(m)
    PROVE  \/ TurnsAt(message[m].at) = {m}
           \/ TurnsAt(message[m].at) \cup {m} \subseteq entangled
    <1>1. m \in TurnsAt(message[m].at)
        BY DEF TurnsAt
    <1>2. \A k \in TurnsAt(message[m].at) : k \notin entangled => TurnsAt(message[m].at) = {k}
        BY DEF ChatInv, TurnIsAlone, TurnsAt
    <1> QED
        BY <1>1, <1>2

\* The turn of m goes on, and its agent with it.
LEMMA TurnGoesOn ==
    ASSUME ChatInv, NEW m \in Message, Delivered(m), NEW t \in Turned, NEW a \in ChatAgent, Put(m, t, a),
           t.at = message[m].at, t.kind = message[m].kind, t.pc \in {"plan", "lookup", "done"},
           UNCHANGED sessionVars, entangled \subseteq entangled', entangled' \subseteq Message,
           TurnsAt(message[m].at) \subseteq {m} \/ TurnsAt(message[m].at) \cup {m} \subseteq entangled',
           chatAgent[message[m].at].history \subseteq a.history, m \in a.history \/ Turning(m),
           a.fetching => t.pc = "lookup" \/ (chatAgent[message[m].at].fetching /\ message[m].pc # "lookup"),
           m \notin entangled' =>
             /\ t.ungrounded = "answer" /\ "substantive" \in t.kind => t.looked > 0
             /\ t.looked <= MAX_LOOKUPS_PER_MESSAGE + 1
             /\ t.pc # "done" => /\ t.looked = a.lookups
                                 /\ a.forced => t.looked > 0
                                 /\ ~ t.fresh => t.looked > 0
                                 /\ ~ a.forced => a.lookups <= MAX_LOOKUPS_PER_MESSAGE
    PROVE  ChatInv'
    <1>0. /\ ChatTypeOK /\ message \in [Message -> Turned] /\ chatAgent \in [Socket -> ChatAgent]
          /\ message[m].at \in Socket /\ socket[message[m].at] # "none"
        BY DEF ChatInv, ChatTypeOK, MessagesAreAt
    <1>1. PICK s \in Socket : s = message[m].at
        BY <1>0
    <1>2. /\ message'[m] = t /\ \A k \in Message : k # m => message'[k] = message[k]
          /\ chatAgent'[s] = a /\ \A r \in Socket : r # s => chatAgent'[r] = chatAgent[r]
          /\ saved' = StateOf(a) /\ haunted' = (haunted \/ \E r \in Socket \ {s} : AtWork(r))
          /\ UNCHANGED <<chatRun, socket, completions, chatCrashes>>
        BY <1>0, <1>1 DEF Put, sessionVars
    <1>3. ChatTypeOK'
        <2>1. message' \in [Message -> Turned] /\ chatAgent' \in [Socket -> ChatAgent] /\ saved' \in State
            BY <1>0, <1>1, ChatTypes DEF Put
        <2>2. haunted' \in BOOLEAN
            BY <1>0, <1>2 DEF ChatTypeOK
        <2> QED
            BY <1>0, <1>2, <2>1, <2>2 DEF ChatTypeOK
    <1>4. MessagesAreAt'
        <2>1. ASSUME NEW k \in Message
              PROVE  /\ Delivered(k)' => message'[k].at \in Socket /\ socket[message'[k].at] # "none"
                     /\ message'[k].pc = "store" => message'[k].looked = 0 /\ message'[k].fresh
                     /\ message'[k].pc \in {"none", "store"} => message'[k].ungrounded = "no" /\ ~ message'[k].answered
            BY <1>0, <1>2 DEF ChatInv, MessagesAreAt, Delivered
        <2>2. ASSUME NEW r \in Socket, chatAgent'[r].fetching
              PROVE  \E k \in Message : message'[k].at = r /\ message'[k].pc = "lookup"
            <3>1. CASE r = s /\ t.pc = "lookup"
                BY <1>1, <1>2, <3>1
            <3>2. CASE r # s \/ t.pc # "lookup"
                <4>1. chatAgent[r].fetching /\ (r = s => message[m].pc # "lookup")
                    BY <1>1, <1>2, <2>2, <3>2
                <4>2. PICK k \in Message : message[k].at = r /\ message[k].pc = "lookup"
                    BY <4>1 DEF ChatInv, MessagesAreAt
                <4>3. k # m
                    BY <1>1, <4>1, <4>2
                <4> QED
                    BY <1>2, <4>2, <4>3
            <3> QED
                BY <3>1, <3>2
        <2> QED
            BY <1>2, <2>1, <2>2 DEF MessagesAreAt
    <1>5. \A k \in Message : k # m /\ k \notin entangled' /\ Turning(k) => message[k].at # s
        BY <1>1 DEF TurnsAt
    <1>6. TurnIsAlone'
        <2> SUFFICES ASSUME NEW k \in Message \ entangled', Turning(k)'
                     PROVE  /\ TurnsAt(message[k].at)' = {k}
                            /\ message'[k].looked = chatAgent'[message'[k].at].lookups
                            /\ chatAgent'[message'[k].at].forced => message'[k].looked > 0
                            /\ ~ message'[k].fresh => message'[k].looked > 0
                            /\ ~ chatAgent'[message'[k].at].forced =>
                                 chatAgent'[message'[k].at].lookups <= MAX_LOOKUPS_PER_MESSAGE
            BY DEF TurnIsAlone
        <2>1. CASE k = m
            <3>1. TurnsAt(message[k].at)' = {k}
                <4>1. \A q \in Message : Turning(q) /\ message[q].at = s => q = m
                    BY <1>1, <2>1 DEF TurnsAt
                <4> QED
                    BY <1>1, <1>2, <2>1, <4>1 DEF TurnsAt, Turning
            <3>2. t.pc # "done"
                BY <1>2, <2>1 DEF Turning
            <3> QED
                BY <1>1, <1>2, <2>1, <3>1, <3>2
        <2>2. CASE k # m
            <3>1. /\ Turning(k) /\ message'[k] = message[k] /\ message[k].at # s
                  /\ message[k].at \in Socket /\ k \notin entangled
                BY <1>2, <1>5, <2>2 DEF Turning, ChatInv, MessagesAreAt, Delivered
            <3>2. TurnsAt(message[k].at)' = {k}
                BY <1>1, <1>2, <3>1 DEF ChatInv, TurnIsAlone, TurnsAt, Turning
            <3> QED
                BY <1>2, <3>1, <3>2 DEF ChatInv, TurnIsAlone
        <2> QED
            BY <2>1, <2>2
    <1>7. NoUngroundedAnswer' /\ LookupsBounded'
        BY <1>2 DEF ChatInv, NoUngroundedAnswer, LookupsBounded
    <1>8. AgentsKnow'
        <2> SUFFICES ASSUME ~ haunted'
                     PROVE  /\ Heard' \subseteq saved'.history
                            /\ \A r, q \in Socket : AtWork(r)' /\ AtWork(q)' => r = q
                            /\ \A r \in Socket : AtWork(r)' => Heard' \subseteq chatAgent'[r].history
            BY DEF AgentsKnow
        <2>1. ~ haunted /\ AtWork(s) /\ \A r \in Socket : AtWork(r) => r = s
            BY <1>1, <1>2 DEF AtWork, Delivered
        <2>2. \A r \in Socket : AtWork(r)' => AtWork(r)
            BY <1>0, <1>2 DEF AtWork, Delivered
        <2>3. Heard \subseteq chatAgent[s].history
            BY <2>1 DEF ChatInv, AgentsKnow
        <2>4. Heard' \subseteq Heard \cup {m}
            BY <1>2 DEF Heard
        <2>5. m \in a.history
            BY <1>1, <2>3 DEF Heard, Turning
        <2>6. Heard' \subseteq a.history
            BY <1>1, <2>3, <2>4, <2>5
        <2> QED
            BY <1>2, <2>1, <2>2, <2>6 DEF StateOf
    <1> QED
        BY <1>3, <1>4, <1>6, <1>7, <1>8 DEF ChatInv

\* The turn says something and is over.
LEMMA TurnSays ==
    ASSUME ChatInv, NEW m \in Message, Planning(m), NEW link \in BOOLEAN, NEW ungrounded \in {"no", "answer", "unchecked"},
           Say(m, link, ungrounded), UNCHANGED <<entangled, sessionVars>>,
           m \notin entangled /\ ungrounded = "answer" /\ "substantive" \in message[m].kind => message[m].looked > 0
    PROVE  ChatInv'
    <1>0. /\ ChatTypeOK /\ message[m] \in Turned /\ Delivered(m) /\ Turning(m)
          /\ message[m].at \in Socket /\ chatAgent[message[m].at] \in ChatAgent
        BY DEF ChatInv, ChatTypeOK, MessagesAreAt, Delivered, Planning, Turning
    <1> DEFINE a0 == chatAgent[message[m].at]
               t  == [message[m] EXCEPT !.pc = "done", !.answered = ~message[m].aborted, !.ungrounded = ungrounded]
               a  == Over(m, Linked(a0, link /\ ~message[m].aborted))
    <1>1. Put(m, t, a)
        BY DEF Say
    <1>2. /\ t \in Turned /\ t.pc = "done" /\ t.at = message[m].at /\ t.kind = message[m].kind
          /\ t.looked = message[m].looked /\ t.ungrounded = ungrounded
        BY <1>0 DEF Turned
    <1>3. a \in ChatAgent /\ a.history = a0.history /\ a.fetching = a0.fetching
        BY <1>0 DEF ChatAgent, Over, Linked
    <1> HIDE DEF t, a
    <1>4. m \notin entangled => message[m].looked <= MAX_LOOKUPS_PER_MESSAGE + 1
        BY DEF ChatInv, LookupsBounded
    <1>5. message[m].pc # "lookup" /\ entangled' = entangled /\ UNCHANGED sessionVars /\ entangled \subseteq Message
        BY <1>0 DEF Planning, ChatTypeOK
    <1> QED
        BY <1>0, <1>1, <1>2, <1>3, <1>4, <1>5, Company, TurnGoesOn

\* The turn looks something up, which is counted.
LEMMA TurnLooks ==
    ASSUME ChatInv, NEW m \in Message, Planning(m), NEW a0 \in ChatAgent,
           Lookup(m, a0), UNCHANGED <<entangled, sessionVars>>,
           a0.history = chatAgent[message[m].at].history, a0.lookups = chatAgent[message[m].at].lookups,
           a0.forced \/ a0.lookups < MAX_LOOKUPS_PER_MESSAGE,
           m \notin entangled => a0.lookups <= MAX_LOOKUPS_PER_MESSAGE
    PROVE  ChatInv'
    <1>0. /\ ChatTypeOK /\ message[m] \in Turned /\ Delivered(m) /\ Turning(m)
          /\ message[m].at \in Socket /\ MAX_LOOKUPS_PER_MESSAGE \in Nat
        BY ChatTypes DEF ChatInv, ChatTypeOK, MessagesAreAt, Delivered, Planning, Turning
    <1> DEFINE n == IF message[m].looked < MAX_LOOKUPS_PER_MESSAGE + 2 THEN message[m].looked + 1 ELSE message[m].looked
               l == IF a0.lookups <= MAX_LOOKUPS_PER_MESSAGE THEN a0.lookups + 1 ELSE a0.lookups
               t == [message[m] EXCEPT !.pc = "lookup", !.fresh = FALSE, !.looked = n]
               a == [a0 EXCEPT !.lookups = l, !.fetching = TRUE]
    <1>1. Put(m, t, a)
        BY DEF Lookup
    <1>2. n \in 0..(MAX_LOOKUPS_PER_MESSAGE + 2) /\ l \in 0..(MAX_LOOKUPS_PER_MESSAGE + 1)
        BY <1>0 DEF Turned, ChatAgent
    <1>3. m \notin entangled => n = l /\ n > 0 /\ l <= MAX_LOOKUPS_PER_MESSAGE + 1 /\ (~ a0.forced => l <= MAX_LOOKUPS_PER_MESSAGE)
        <2>1. m \notin entangled => message[m].looked = a0.lookups
            BY <1>0 DEF ChatInv, TurnIsAlone
        <2>2. a0.lookups \in Nat
            BY DEF ChatAgent
        <2> QED
            BY <1>0, <2>1, <2>2
    <1> HIDE DEF n, l
    <1>4. /\ t \in Turned /\ t.pc = "lookup" /\ t.at = message[m].at /\ t.kind = message[m].kind
          /\ t.looked = n
        BY <1>0, <1>2 DEF Turned
    <1>5. a \in ChatAgent /\ a.history = a0.history /\ a.lookups = l /\ a.forced = a0.forced
        BY <1>0, <1>2 DEF ChatAgent
    <1> HIDE DEF t, a
    <1>6. entangled' = entangled /\ UNCHANGED sessionVars /\ entangled \subseteq Message
        BY <1>0 DEF ChatTypeOK
    <1> QED
        BY <1>0, <1>1, <1>3, <1>4, <1>5, <1>6, Company, TurnGoesOn

LEMMA MessageSteps ==
    ASSUME ChatInv, NEW m \in Message, MessageStep(m)
    PROVE  ChatInv'
    <1>0. /\ ChatTypeOK /\ message[m] \in Turned /\ Delivered(m) /\ MAX_LOOKUPS_PER_MESSAGE \in Nat
          /\ message[m].at \in Socket /\ chatAgent[message[m].at] \in ChatAgent
        BY ChatTypes DEF ChatInv, ChatTypeOK, MessagesAreAt, Delivered, MessageStep, StartTurn, GroundingLookup,
              BeforeYouGo, LookupPlan, AnswerPlan, UncheckedPlan, ChatLookupDone, Planning
    <1>1. CASE StartTurn(m)
        <2>0. PICK a0 \in ChatAgent : a0 = chatAgent[message[m].at]
            BY <1>0
        <2> DEFINE known == a0.history \cup {m}
                   t     == [message[m] EXCEPT !.pc = "plan"]
                   a     == [a0 EXCEPT !.controller = m, !.last = m, !.forced = FALSE, !.lookups = 0,
                                       !.history = known]
        <2>1. /\ Put(m, t, a) /\ UNCHANGED sessionVars /\ message[m].pc = "store"
              /\ entangled' = IF TurnsAt(message[m].at) = {} THEN entangled
                                                            ELSE entangled \cup TurnsAt(message[m].at) \cup {m}
            BY <1>1, <2>0 DEF StartTurn
        <2>2. /\ t \in Turned /\ t.pc = "plan" /\ t.at = message[m].at /\ t.kind = message[m].kind
              /\ t.looked = message[m].looked /\ t.fresh = message[m].fresh /\ t.ungrounded = message[m].ungrounded
            BY <1>0 DEF Turned
        <2>3. known \subseteq Message /\ a0.history \subseteq known /\ m \in known
            BY <1>0 DEF ChatAgent
        <2> HIDE DEF known
        <2>4. /\ a \in ChatAgent /\ a.history = known /\ a.fetching = a0.fetching
              /\ a.lookups = 0 /\ ~ a.forced
            <3>1. /\ a0.history \in SUBSET Message /\ known \in SUBSET Message /\ 0 \in 0..(MAX_LOOKUPS_PER_MESSAGE + 1)
                  /\ m \in Message \cup {0}
                BY <1>0, <2>3
            <3>2. a \in ChatAgent
                BY <3>1 DEF ChatAgent
            <3>3. a.history = known /\ a.fetching = a0.fetching /\ a.lookups = 0 /\ ~ a.forced
                BY <2>0 DEF ChatAgent
            <3> QED
                BY <3>2, <3>3
        <2> HIDE DEF t, a
        <2>5. message[m].looked = 0 /\ message[m].fresh /\ message[m].ungrounded = "no"
            BY <2>1 DEF ChatInv, MessagesAreAt
        <2>6. TurnsAt(message[m].at) \subseteq Message /\ entangled \subseteq Message
            BY <1>0 DEF TurnsAt, ChatTypeOK
        <2>7. /\ entangled \subseteq entangled' /\ entangled' \subseteq Message
              /\ TurnsAt(message[m].at) \subseteq {m} \/ TurnsAt(message[m].at) \cup {m} \subseteq entangled'
            BY <2>1, <2>6
        <2>8. t.looked <= MAX_LOOKUPS_PER_MESSAGE + 1 /\ a.lookups <= MAX_LOOKUPS_PER_MESSAGE /\ t.looked = a.lookups
            BY <1>0, <2>2, <2>4, <2>5
        <2> QED
            BY <1>0, <2>0, <2>1, <2>2, <2>3, <2>4, <2>5, <2>7, <2>8, TurnGoesOn
    <1>2. CASE GroundingLookup(m)
        <2> DEFINE a0 == [chatAgent[message[m].at] EXCEPT !.forced = TRUE]
        <2>1. Planning(m) /\ MustGround(m) /\ Lookup(m, a0) /\ UNCHANGED <<entangled, sessionVars>>
            BY <1>2 DEF GroundingLookup
        <2>2. /\ a0 \in ChatAgent /\ a0.history = chatAgent[message[m].at].history /\ a0.forced
              /\ a0.lookups = chatAgent[message[m].at].lookups
            BY <1>0 DEF ChatAgent
        <2> HIDE DEF a0
        <2>3. m \notin entangled => a0.lookups <= MAX_LOOKUPS_PER_MESSAGE
            BY <2>1, <2>2 DEF ChatInv, TurnIsAlone, MustGround, Turning, Planning
        <2> QED
            BY <2>1, <2>2, <2>3, TurnLooks
    <1>3. CASE BeforeYouGo(m)
        BY <1>3, TurnSays DEF BeforeYouGo
    <1>4. CASE UncheckedPlan(m)
        <2> DEFINE how == Worded(m, "unchecked")
        <2>1. how \in {"no", "answer", "unchecked"} /\ how # "answer"
            BY DEF Worded
        <2>2. Planning(m) /\ Say(m, FALSE, how) /\ UNCHANGED <<entangled, sessionVars>>
            BY <1>4 DEF UncheckedPlan
        <2> HIDE DEF how
        <2> QED
            BY <2>1, <2>2, TurnSays
    <1>5. CASE LookupPlan(m)
        <2>1. CASE chatAgent[message[m].at].lookups >= MAX_LOOKUPS_PER_MESSAGE
            BY <1>5, <2>1, TurnSays DEF LookupPlan
        <2>2. CASE ~ (chatAgent[message[m].at].lookups >= MAX_LOOKUPS_PER_MESSAGE)
            <3>1. chatAgent[message[m].at].lookups \in Nat
                BY <1>0 DEF ChatAgent
            <3>2. chatAgent[message[m].at].lookups < MAX_LOOKUPS_PER_MESSAGE
                BY <1>0, <2>2, <3>1
            <3>3. Planning(m) /\ Lookup(m, chatAgent[message[m].at]) /\ UNCHANGED <<entangled, sessionVars>>
                BY <1>5, <2>2 DEF LookupPlan
            <3> QED
                BY <1>0, <3>1, <3>2, <3>3, TurnLooks
        <2> QED
            BY <2>1, <2>2
    <1>6. CASE AnswerPlan(m)
        <2>1. PICK link \in BOOLEAN : Say(m, link, Worded(m, "answer"))
            BY <1>6 DEF AnswerPlan
        <2>2. Planning(m) /\ ~ MustGround(m) /\ UNCHANGED <<entangled, sessionVars>>
            BY <1>6 DEF AnswerPlan
        <2>3. ASSUME m \notin entangled, ~ chatAgent[message[m].at].kb, "substantive" \in message[m].kind
              PROVE  message[m].looked > 0
            <3>1. ~ chatAgent[message[m].at].fetching
                <4> SUFFICES ASSUME chatAgent[message[m].at].fetching PROVE FALSE
                    OBVIOUS
                <4>1. PICK k \in Message : message[k].at = message[m].at /\ message[k].pc = "lookup"
                    BY <1>0 DEF ChatInv, MessagesAreAt
                <4>2. k \in TurnsAt(message[m].at) /\ k # m
                    BY <2>2, <4>1 DEF TurnsAt, Turning, Planning
                <4>3. TurnsAt(message[m].at) = {m}
                    BY <2>2, <2>3 DEF ChatInv, TurnIsAlone, Turning, Planning
                <4> QED
                    BY <4>2, <4>3
            <3>2. chatAgent[message[m].at].forced \/ ~ message[m].fresh
                BY <2>2, <2>3, <3>1 DEF MustGround
            <3> QED
                BY <2>2, <2>3, <3>2 DEF ChatInv, TurnIsAlone, Turning, Planning
        <2> DEFINE how == Worded(m, "answer")
        <2>4. how \in {"no", "answer", "unchecked"} /\ (how = "answer" => ~ chatAgent[message[m].at].kb)
            BY DEF Worded
        <2>5. m \notin entangled /\ how = "answer" /\ "substantive" \in message[m].kind => message[m].looked > 0
            BY <2>3, <2>4
        <2>6. Say(m, link, how)
            BY <2>1
        <2> HIDE DEF how
        <2> QED
            BY <2>2, <2>4, <2>5, <2>6, TurnSays
    <1>7. CASE ChatLookupDone(m)
        <2>1. PICK found \in BOOLEAN :
                LET a == [chatAgent[message[m].at] EXCEPT !.kb = @ \/ found, !.fetching = FALSE]
                IN IF message[m].aborted
                     THEN Put(m, [message[m] EXCEPT !.pc = "done"], Over(m, a))
                     ELSE Put(m, [message[m] EXCEPT !.pc = "plan"], a)
            BY <1>7 DEF ChatLookupDone
        <2> DEFINE a == [chatAgent[message[m].at] EXCEPT !.kb = @ \/ found, !.fetching = FALSE]
        <2>2. /\ message[m].pc = "lookup" /\ Turning(m) /\ UNCHANGED sessionVars
              /\ entangled' = entangled /\ entangled \subseteq Message
            BY <1>0, <1>7 DEF ChatLookupDone, Turning, ChatTypeOK
        <2>3. /\ a \in ChatAgent /\ ~ a.fetching /\ a.history = chatAgent[message[m].at].history
              /\ a.lookups = chatAgent[message[m].at].lookups /\ a.forced = chatAgent[message[m].at].forced
            BY <1>0 DEF ChatAgent
        <2>4. Over(m, a) \in ChatAgent /\ ~ Over(m, a).fetching /\ Over(m, a).history = a.history
            <3>1. \A b \in ChatAgent :
                    /\ Over(m, b) \in ChatAgent /\ Over(m, b).fetching = b.fetching
                    /\ Over(m, b).history = b.history
                BY DEF Over, ChatAgent
            <3> QED
                BY <2>3, <3>1
        <2>5. ASSUME m \notin entangled
              PROVE  /\ message[m].ungrounded = "answer" /\ "substantive" \in message[m].kind => message[m].looked > 0
                     /\ message[m].looked <= MAX_LOOKUPS_PER_MESSAGE + 1
                     /\ message[m].looked = chatAgent[message[m].at].lookups
                     /\ chatAgent[message[m].at].forced => message[m].looked > 0
                     /\ ~ message[m].fresh => message[m].looked > 0
                     /\ ~ chatAgent[message[m].at].forced =>
                          chatAgent[message[m].at].lookups <= MAX_LOOKUPS_PER_MESSAGE
            BY <2>2, <2>5 DEF ChatInv, NoUngroundedAnswer, LookupsBounded, TurnIsAlone
        <2>6. ASSUME NEW pc \in {"plan", "done"}
              PROVE  LET t == [message[m] EXCEPT !.pc = pc] IN
                     /\ t \in Turned /\ t.pc = pc /\ t.at = message[m].at /\ t.kind = message[m].kind
                     /\ t.looked = message[m].looked /\ t.fresh = message[m].fresh
                     /\ t.ungrounded = message[m].ungrounded
            BY <1>0 DEF Turned
        <2>7. CASE message[m].aborted
            <3> DEFINE t == [message[m] EXCEPT !.pc = "done"]
            <3>1. Put(m, t, Over(m, a))
                BY <2>1, <2>7
            <3>2. /\ t \in Turned /\ t.pc = "done" /\ t.at = message[m].at /\ t.kind = message[m].kind
                  /\ t.looked = message[m].looked /\ t.ungrounded = message[m].ungrounded
                BY <2>6
            <3> HIDE DEF t, a
            <3> QED
                BY <1>0, <2>2, <2>3, <2>4, <2>5, <3>1, <3>2, Company, TurnGoesOn
        <2>8. CASE ~ message[m].aborted
            <3> DEFINE t == [message[m] EXCEPT !.pc = "plan"]
            <3>1. Put(m, t, a)
                BY <2>1, <2>8
            <3>2. /\ t \in Turned /\ t.pc = "plan" /\ t.at = message[m].at /\ t.kind = message[m].kind
                  /\ t.looked = message[m].looked /\ t.fresh = message[m].fresh
                  /\ t.ungrounded = message[m].ungrounded
                BY <2>6
            <3> HIDE DEF t, a
            <3> QED
                BY <1>0, <2>2, <2>3, <2>5, <3>1, <3>2, Company, TurnGoesOn
        <2> QED
            BY <2>7, <2>8
    <1> QED
        BY <1>1, <1>2, <1>3, <1>4, <1>5, <1>6, <1>7 DEF MessageStep

LEMMA ChatStep == ChatInv /\ [ChatNext]_chatVars => ChatInv'
    <1> SUFFICES ASSUME ChatInv, [ChatNext]_chatVars PROVE ChatInv'
        OBVIOUS
    <1>1. CASE UNCHANGED chatVars
        BY <1>1 DEF chatVars, ChatInv, ChatTypeOK, MessagesAreAt, TurnIsAlone, NoUngroundedAnswer, LookupsBounded,
                    AgentsKnow, Heard, Delivered, Turning, TurnsAt, AtWork
    <1> QED
        BY <1>1, ChatSurroundings, CrashOfChat, MessageSteps DEF ChatNext

\* A substantive question is looked up before it is answered from an empty
\* knowledge base, a message costs a bounded number of lookups, and what was
\* said is in the state that the next agent loads; unless turns or sockets
\* overlap or the cache drops the state (ChatWidgetGateway, BaseChatLlmAgent).
THEOREM SessionsAreSound == ChatSpec => []SessionIsSound
    <1>1. ChatInv => SessionIsSound
        BY DEF ChatInv, SessionIsSound, AgentsKnow, ChatHistoryKept, Heard
    <1> QED
        BY <1>1, InitChat, ChatStep, PTL DEF ChatSpec

-----------------------------------------------------------------------------
(* PhoneCall *)

TurnsInOrder == \A p, q \in Prompt : q < p /\ turn[p].pc # "none" => turn[q].pc # "none"

\* Nothing is said before the socket is open.
SilentBefore ==
    call.phase \notin {"open", "closed"} =>
      /\ \A p \in Prompt : turn[p].pc = "none"
      /\ \A i \in ActionId : deeds[i] = 0

ActionsMade ==
    /\ agent.current <= agent.made
    /\ \A i \in ActionId : i > agent.made => deeds[i] = 0 /\ agent.instance[i].info = {} /\ told[i] = {}
    /\ \A p \in Prompt : Performing(p) => turn[p].acting \in ActionId /\ turn[p].acting <= agent.made

SomePerforms == \E p \in Prompt : Performing(p)
CallIsOver == call.phase = "closed" /\ \A p \in Prompt : ~ Live(p)

\* An action that has been performed is current only while it is performed.
PerformedIsLeft ==
    \A i \in ActionId \ crossed :
      deeds[i] > 0 /\ agent.current = i => SomePerforms \/ CallIsOver

\* While an action is performed, the newest one does not wait for information.
NobodyIsAsked ==
    agent.made \in ActionId \ crossed /\ SomePerforms => agent.instance[agent.made].state # "asking"

\* The copy that will be written back is up to date.
HeldIsAll ==
    \A p \in Prompt : Performing(p) /\ turn[p].acting \notin crossed =>
      turn[p].held = agent.instance[turn[p].acting].info

ActionsInv ==
    /\ SilentBefore /\ ActionsMade /\ PerformedOnce /\ PerformedIsLeft /\ AskedIsRemembered
    /\ NobodyIsAsked /\ HeldIsAll /\ InformationKept

CallInv == CallTypeOK /\ TurnsInOrder /\ ControllerIsNewest /\ ActionsInv

LEMMA CallTypes ==
    /\ MaxPrompts \in Nat /\ MaxActions \in Nat /\ MaxCallCrashes \in Nat
    /\ Prompt \subseteq Nat /\ ActionId \subseteq Nat /\ Nobody \notin Prompt /\ NoAction \notin ActionId
    /\ \A name \in ActionName \cup {SomeName} : NewInstance(name) \in Instance
    BY CallAssumption DEF CallAssumption, Prompt, ActionId, Nobody, NoAction, NewInstance, Instance, ActionState

LEMMA InitCall == CallInit => CallInv
    <1> SUFFICES ASSUME CallInit PROVE CallInv
        OBVIOUS
    <1>1. PICK type \in AgentType :
            agent = [type |-> type, state |-> "idle", current |-> NoAction, made |-> 0,
                     instance |-> [i \in ActionId |-> NewInstance(SomeName)]]
        BY DEF CallInit
    <1>2. agent \in Agent
        <2>1. [i \in ActionId |-> NewInstance(SomeName)] \in [ActionId -> Instance]
            BY CallTypes
        <2>2. 0 \in 0..MaxActions
            BY CallTypes
        <2> QED
            BY <1>1, <2>1, <2>2 DEF Agent, ActionState
    <1>3. turn = [p \in Prompt |-> SilentTurn] /\ SilentTurn \in Turn
        BY DEF CallInit, SilentTurn, Turn, Step
    <1>4. CallTypeOK
        <2>1. /\ turn \in [Prompt -> Turn] /\ deeds \in [ActionId -> Nat] /\ callCrashes \in 0..MaxCallCrashes
              /\ told \in [ActionId -> SUBSET Info]
            BY <1>3, CallTypes DEF CallInit
        <2> QED
            BY <1>2, <2>1 DEF CallInit, CallTypeOK, Phase
    <1>5. \A p \in Prompt : turn[p].pc = "none" /\ ~ Live(p) /\ ~ Performing(p)
        BY <1>3 DEF SilentTurn, Live, Performing
    <1>6. \A i \in ActionId : deeds[i] = 0 /\ agent.instance[i].info = {} /\ told[i] = {} /\ agent.instance[i].state = "idle"
        BY <1>1 DEF CallInit, NewInstance
    <1>7. TurnsInOrder /\ ControllerIsNewest
        BY <1>5, CallTypes DEF CallInit, TurnsInOrder, ControllerIsNewest
    <1>8. ActionsInv
        <2>0. agent.current = 0 /\ agent.made = 0
            BY <1>1 DEF NoAction
        <2>1. InformationKept
            BY <1>6 DEF InformationKept
        <2>2. ActionsMade
            BY <2>0, <1>5, <1>6 DEF ActionsMade
        <2>3. SilentBefore /\ PerformedOnce /\ HeldIsAll
            BY <1>5, <1>6 DEF SilentBefore, PerformedOnce, HeldIsAll
        <2>4. PerformedIsLeft /\ NobodyIsAsked /\ AskedIsRemembered
            BY <1>5, <1>6 DEF PerformedIsLeft, NobodyIsAsked, AskedIsRemembered, SomePerforms
        <2> QED
            BY <2>1, <2>2, <2>3, <2>4 DEF ActionsInv
    <1> QED
        BY <1>4, <1>7, <1>8 DEF CallInv

\* A turn moves on: turns stay in order, and the controller with the newest.
LEMMA TurnMoves ==
    ASSUME CallInv, NEW p \in Prompt, Live(p), NEW x \in Turn, x.pc # "none",
           turn' = [turn EXCEPT ![p] = x],
           controller' = IF x.pc = "done" THEN ReleaseController(p) ELSE controller
    PROVE  TurnsInOrder' /\ ControllerIsNewest' /\ controller' \in Prompt \cup {Nobody}
    <1>0. turn \in [Prompt -> Turn] /\ controller \in Prompt \cup {Nobody} /\ Nobody \notin Prompt
        BY CallTypes DEF CallInv, CallTypeOK
    <1>1. turn'[p] = x /\ \A q \in Prompt : q # p => turn'[q] = turn[q]
        BY <1>0
    <1>2. /\ \A q \in Prompt : turn'[q].pc # "none" <=> turn[q].pc # "none"
          /\ \A q \in Prompt : q # p => (Live(q)' <=> Live(q))
          /\ Live(p)' <=> x.pc # "done"
        BY <1>1 DEF Live
    <1>3. TurnsInOrder'
        BY <1>2 DEF CallInv, TurnsInOrder
    <1>4. controller' \in Prompt \cup {Nobody} /\ controller' \in {controller, Nobody}
        BY <1>0 DEF ReleaseController
    <1>5. ControllerIsNewest'
        <2> SUFFICES ASSUME NEW q \in Prompt
                     PROVE  /\ controller' = q => Live(q)'
                            /\ Live(q)' /\ controller' # q => \E k \in (q + 1)..MaxPrompts : turn'[k].pc # "none"
            BY DEF ControllerIsNewest
        <2>1. controller' = q => Live(q)'
            BY <1>0, <1>2, <1>4 DEF CallInv, ControllerIsNewest, ReleaseController
        <2>2. ASSUME Live(q)', controller' # q PROVE \E k \in (q + 1)..MaxPrompts : turn'[k].pc # "none"
            <3>1. Live(q) /\ controller # q
                BY <1>2, <2>2 DEF ReleaseController
            <3>2. PICK k \in (q + 1)..MaxPrompts : turn[k].pc # "none"
                BY <3>1 DEF CallInv, ControllerIsNewest
            <3>3. k \in Prompt
                BY <3>2, CallTypes DEF Prompt
            <3> QED
                BY <1>2, <3>2, <3>3
        <2> QED
            BY <2>1, <2>2
    <1> QED
        BY <1>3, <1>4, <1>5

\* Steps that have nothing to do with external actions.
LEMMA ActionsStay ==
    ASSUME CallInv, UNCHANGED <<agent, deeds, crossed, told>>,
           \A p \in Prompt :
             /\ turn[p].pc = "perform" \/ turn'[p].pc = "perform" =>
                  \/ turn'[p].pc = turn[p].pc /\ turn'[p].acting = turn[p].acting /\ turn'[p].held = turn[p].held
                  \/ CallIsOver' /\ turn'[p].pc # "perform"
             /\ turn[p].pc # "none" => turn'[p].pc # "none",
           call'.phase \notin {"open", "closed"} =>
             call.phase \notin {"open", "closed"} /\ \A p \in Prompt : turn'[p].pc = "none",
           CallIsOver => CallIsOver'
    PROVE  ActionsInv'
    <1>1. \A p \in Prompt : Performing(p)' => /\ Performing(p) /\ turn'[p].acting = turn[p].acting
                                              /\ turn'[p].held = turn[p].held
        BY DEF Performing
    <1>2. SomePerforms => SomePerforms' \/ CallIsOver'
        BY DEF SomePerforms, Performing
    <1>3. SomePerforms' => SomePerforms
        BY <1>1 DEF SomePerforms
    <1>4. SilentBefore' /\ PerformedOnce' /\ AskedIsRemembered' /\ InformationKept'
        BY DEF CallInv, ActionsInv, SilentBefore, PerformedOnce, AskedIsRemembered, InformationKept
    <1>5. ActionsMade'
        BY <1>1 DEF CallInv, ActionsInv, ActionsMade
    <1>6. PerformedIsLeft' /\ NobodyIsAsked'
        BY <1>2, <1>3 DEF CallInv, ActionsInv, PerformedIsLeft, NobodyIsAsked
    <1>7. HeldIsAll'
        BY <1>1 DEF CallInv, ActionsInv, HeldIsAll
    <1> QED
        BY <1>4, <1>5, <1>6, <1>7 DEF ActionsInv

\* The socket, the run and the process.
LEMMA CallSurroundings ==
    ASSUME CallInv,
           \/ CreateCallRun \/ CacheContext \/ OpenSocket \/ AttachListeners \/ HangUpEarly
           \/ HangUp \/ HandleCompleteRun
    PROVE  CallInv'
    <1>0. CallTypeOK /\ call \in [phase : Phase, heard : BOOLEAN]
        BY DEF CallInv, CallTypeOK
    <1>1. UNCHANGED <<agent, controller, turn, deeds, orders, crossed, told, callCrashes>>
        BY DEF CreateCallRun, CacheContext, OpenSocket, AttachListeners, HangUpEarly, HangUp, HandleCompleteRun, agentVars
    <1>2. /\ call' \in [phase : Phase, heard : BOOLEAN]
          /\ call'.phase \notin {"open", "closed"} => call.phase \notin {"open", "closed"}
          /\ call.phase = "closed" => call'.phase = "closed"
        <2>1. CASE CreateCallRun
            BY <1>0, <2>1 DEF CreateCallRun, Phase
        <2>2. CASE CacheContext
            BY <1>0, <2>2 DEF CacheContext, Phase
        <2>3. CASE OpenSocket
            BY <1>0, <2>3 DEF OpenSocket, Phase
        <2>4. CASE AttachListeners
            <3>1. CASE call' = [phase |-> "open", heard |-> TRUE]
                BY <1>0, <2>4, <3>1 DEF AttachListeners, Phase
            <3>2. CASE call' = [call EXCEPT !.phase = "closed"]
                BY <1>0, <2>4, <3>2 DEF AttachListeners, Phase
            <3> QED
                BY <2>4, <3>1, <3>2 DEF AttachListeners
        <2>5. CASE HangUpEarly
            BY <1>0, <2>5 DEF HangUpEarly, Phase
        <2>6. CASE HangUp
            BY <1>0, <2>6 DEF HangUp, Close, Phase
        <2>7. CASE HandleCompleteRun
            BY <1>0, <2>7 DEF HandleCompleteRun
        <2> QED
            BY <2>1, <2>2, <2>3, <2>4, <2>5, <2>6, <2>7
    <1>3. callRun' \in {"none", "pending", "completed"} /\ hangups' \in BOOLEAN
        BY <1>0 DEF CreateCallRun, CacheContext, OpenSocket, AttachListeners, HangUpEarly, HangUp, HandleCompleteRun, Close,
                    CallTypeOK
    <1>4. CallTypeOK'
        BY <1>0, <1>1, <1>2, <1>3 DEF CallTypeOK
    <1>5. TurnsInOrder' /\ ControllerIsNewest'
        BY <1>1 DEF CallInv, TurnsInOrder, ControllerIsNewest, Live
    <1>6. CallIsOver => CallIsOver'
        BY <1>1, <1>2 DEF CallIsOver, Live
    <1>7. ActionsInv'
        BY <1>1, <1>2, <1>6, ActionsStay DEF CallInv, ActionsInv, SilentBefore
    <1> QED
        BY <1>4, <1>5, <1>7 DEF CallInv

LEMMA CrashOfCall == CallInv /\ CrashCall => CallInv'
    <1> SUFFICES ASSUME CallInv, CrashCall PROVE CallInv'
        OBVIOUS
    <1>0. /\ CallTypeOK /\ call \in [phase : Phase, heard : BOOLEAN] /\ turn \in [Prompt -> Turn]
          /\ callCrashes \in 0..MaxCallCrashes
        BY DEF CallInv, CallTypeOK
    <1>1. /\ callCrashes < MaxCallCrashes /\ callCrashes' = callCrashes + 1
          /\ call' = IF call.phase = "ringing" THEN call
                     ELSE [phase |-> "closed", heard |-> call.phase = "closed" /\ call.heard]
          /\ turn' = [p \in Prompt |-> IF Live(p) THEN [turn[p] EXCEPT !.pc = "done"] ELSE turn[p]]
          /\ controller' = Nobody
          /\ UNCHANGED <<callRun, hangups, agent, deeds, orders, crossed, told>>
        BY DEF CrashCall
    <1>2. \A p \in Prompt : /\ turn'[p] \in Turn /\ turn'[p].pc = IF Live(p) THEN "done" ELSE turn[p].pc
                            /\ ~ Live(p)'
        BY <1>0, <1>1 DEF Turn, Step, Live
    <1>3. CallTypeOK'
        <2>1. turn' \in [Prompt -> Turn]
            BY <1>1, <1>2
        <2>2. call' \in [phase : Phase, heard : BOOLEAN]
            BY <1>0, <1>1 DEF Phase
        <2> QED
            BY <1>0, <1>1, <2>1, <2>2, CallTypes DEF CallTypeOK
    <1>4. TurnsInOrder'
        BY <1>2 DEF CallInv, TurnsInOrder, Live
    <1>5. ControllerIsNewest'
        BY <1>1, <1>2, CallTypes DEF ControllerIsNewest
    <1>6. CASE call.phase = "ringing"
        <2>1. \A p \in Prompt : turn[p].pc = "none" /\ turn'[p].pc = "none"
            BY <1>2, <1>6 DEF CallInv, ActionsInv, SilentBefore, Live
        <2>2. ActionsInv'
            BY <1>1, <1>6, <2>1, ActionsStay DEF CallIsOver
        <2> QED
            BY <1>3, <1>4, <1>5, <2>2 DEF CallInv
    <1>7. CASE call.phase # "ringing"
        <2>1. CallIsOver'
            BY <1>1, <1>2, <1>7 DEF CallIsOver
        <2>2. \A p \in Prompt : turn'[p].pc # "perform" /\ (turn[p].pc # "none" => turn'[p].pc # "none")
            BY <1>2 DEF Live
        <2>3. call'.phase = "closed"
            BY <1>1, <1>7
        <2>4. ActionsInv'
            BY <1>1, <2>1, <2>2, <2>3, ActionsStay
        <2> QED
            BY <1>3, <1>4, <1>5, <2>4 DEF CallInv
    <1> QED
        BY <1>6, <1>7

\* A prompt starts a turn, or an interrupt marks one.
LEMMA CallerSpeaks ==
    ASSUME CallInv, Interrupt \/ \E p \in Prompt : HearPrompt(p)
    PROVE  CallInv'
    <1>0. /\ CallTypeOK /\ turn \in [Prompt -> Turn] /\ Prompt \subseteq Nat /\ call.phase = "open"
          /\ UNCHANGED <<call, hangups, agent, deeds, orders, crossed, told, callRun, callCrashes>>
        BY CallTypes DEF CallInv, CallTypeOK, Interrupt, HearPrompt, socketVars
    <1>1. ASSUME NEW p \in Prompt, HearPrompt(p) PROVE CallInv'
        <2>1. /\ turn[p].pc = "none" /\ \A q \in 1..(p - 1) : turn[q].pc # "none"
              /\ turn' = [turn EXCEPT ![p].pc = "plan"] /\ controller' = p
            BY <1>1 DEF HearPrompt
        <2>2. turn' \in [Prompt -> Turn]
            BY <1>0, <2>1 DEF Turn, Step
        <2>3. turn'[p].pc = "plan" /\ \A q \in Prompt : q # p => turn'[q] = turn[q]
            BY <1>0, <2>1 DEF Turn
        <2>4. CallTypeOK'
            BY <1>0, <2>1, <2>2 DEF CallTypeOK
        <2>5. \A q \in Prompt : q < p => turn[q].pc # "none"
            BY <1>0, <2>1 DEF Prompt
        <2>6. \A q \in Prompt : p < q => turn[q].pc = "none"
            BY <2>1 DEF CallInv, TurnsInOrder
        <2>7. TurnsInOrder'
            BY <1>0, <2>1, <2>3, <2>5, <2>6 DEF CallInv, TurnsInOrder
        <2>8. ControllerIsNewest'
            <3> SUFFICES ASSUME NEW q \in Prompt, Live(q)', q # p
                         PROVE  \E k \in (q + 1)..MaxPrompts : turn'[k].pc # "none"
                BY <2>1, <2>3 DEF ControllerIsNewest, Live
            <3>1. turn[q].pc # "none"
                BY <2>3 DEF Live
            <3>2. q < p
                BY <1>0, <2>6, <3>1
            <3>3. p \in (q + 1)..MaxPrompts
                BY <1>0, <3>2, CallTypes DEF Prompt
            <3> QED
                BY <2>3, <3>3
        <2>9. ActionsInv'
            BY <1>0, <2>1, <2>3, ActionsStay DEF CallIsOver
        <2> QED
            BY <2>4, <2>7, <2>8, <2>9 DEF CallInv
    <1>2. CASE Interrupt
        <2>1. /\ controller \in Prompt /\ turn' = [turn EXCEPT ![controller].aborted = TRUE] /\ controller' = controller
            BY <1>0, <1>2 DEF Interrupt, CallTypeOK
        <2>2. /\ turn' \in [Prompt -> Turn]
              /\ \A q \in Prompt : /\ turn'[q].pc = turn[q].pc /\ turn'[q].acting = turn[q].acting
                                   /\ turn'[q].held = turn[q].held
            BY <1>0, <2>1 DEF Turn
        <2>3. CallTypeOK'
            BY <1>0, <2>1, <2>2 DEF CallTypeOK
        <2>4. TurnsInOrder'
            BY <2>2 DEF CallInv, TurnsInOrder
        <2>5. ControllerIsNewest'
            <3>1. \A q \in Prompt : \A k \in (q + 1)..MaxPrompts : k \in Prompt
                BY <1>0, CallTypes DEF Prompt
            <3> QED
                BY <2>1, <2>2, <3>1 DEF CallInv, ControllerIsNewest, Live
        <2>6. ActionsInv'
            BY <1>0, <2>2, ActionsStay DEF CallIsOver
        <2> QED
            BY <2>3, <2>4, <2>5, <2>6 DEF CallInv
    <1> QED
        BY <1>1, <1>2

\* A turn that is not performing an action ends, waits or plans again.
LEMMA QuietTurn ==
    ASSUME CallInv, NEW p \in Prompt, Live(p), ~ Performing(p),
           NEW x \in Turn, x.pc \notin {"none", "perform"},
           turn' = [turn EXCEPT ![p] = x],
           controller' = IF x.pc = "done" THEN ReleaseController(p) ELSE controller,
           UNCHANGED <<agent, deeds, crossed, told, callRun, callCrashes>>,
           orders' \subseteq Prompt, hangups' \in BOOLEAN,
           call' = call \/ (call.phase = "open" /\ call' = [call EXCEPT !.phase = "closed"])
    PROVE  CallInv'
    <1>0. /\ CallTypeOK /\ call \in [phase : Phase, heard : BOOLEAN] /\ turn \in [Prompt -> Turn]
          /\ turn[p].pc # "none" /\ turn[p].pc # "perform"
        BY DEF CallInv, CallTypeOK, Live, Performing
    <1>1. TurnsInOrder' /\ ControllerIsNewest' /\ controller' \in Prompt \cup {Nobody}
        BY TurnMoves
    <1>2. call' \in [phase : Phase, heard : BOOLEAN] /\ (call'.phase = call.phase \/ call'.phase = "closed")
        BY <1>0 DEF Phase
    <1>3. turn'[p] = x /\ \A q \in Prompt : q # p => turn'[q] = turn[q]
        BY <1>0
    <1>4. CallTypeOK'
        <2>1. turn' \in [Prompt -> Turn]
            BY <1>0
        <2> QED
            BY <1>0, <1>1, <1>2, <2>1 DEF CallTypeOK
    <1>5. call.phase \in {"open", "closed"} /\ ~ CallIsOver
        BY <1>0 DEF CallInv, ActionsInv, SilentBefore, CallIsOver
    <1>6. ActionsInv'
        BY <1>0, <1>2, <1>3, <1>5, ActionsStay
    <1> QED
        BY <1>1, <1>4, <1>6 DEF CallInv

LEMMA QuietSteps ==
    ASSUME CallInv, NEW p \in Prompt,
           \/ PlanNothing(p) \/ PlanOrder(p) \/ PlanFarewell(p) \/ Farewell(p) \/ PlanLookup(p) \/ LookupDone(p)
    PROVE  CallInv'
    <1>0. /\ CallTypeOK /\ turn \in [Prompt -> Turn] /\ turn[p] \in Turn /\ orders \subseteq Prompt /\ hangups \in BOOLEAN
          /\ UNCHANGED <<agent, deeds, crossed, told, callRun, callCrashes>>
        BY DEF CallInv, CallTypeOK, PlanNothing, PlanOrder, PlanFarewell, Farewell, PlanLookup, LookupDone, socketVars
    <1>1. turn[p].pc \in {"plan", "farewell", "lookup"}
        BY DEF PlanNothing, PlanOrder, PlanFarewell, Farewell, PlanLookup, LookupDone, Planned
    <1>2. Live(p) /\ ~ Performing(p)
        BY <1>1 DEF Live, Performing
    <1>3. /\ orders' \subseteq Prompt /\ hangups' \in BOOLEAN
          /\ call' = call \/ (call.phase = "open" /\ call' = [call EXCEPT !.phase = "closed"])
        BY <1>0 DEF PlanNothing, PlanOrder, PlanFarewell, Farewell, PlanLookup, LookupDone, Close
    <1>4. CASE EndTurn(p)
        <2> DEFINE x == [turn[p] EXCEPT !.pc = "done"]
        <2>1. x \in Turn /\ x.pc = "done"
            BY <1>0 DEF Turn, Step
        <2>2. turn' = [turn EXCEPT ![p] = x] /\ controller' = ReleaseController(p)
            BY <1>0, <1>4 DEF EndTurn
        <2> HIDE DEF x
        <2> QED
            BY <1>0, <1>2, <1>3, <2>1, <2>2, QuietTurn
    <1>5. CASE /\ controller' = controller
               /\ \E s \in {"farewell", "lookup"} : turn' = [turn EXCEPT ![p].pc = s]
        <2>1. PICK s \in {"farewell", "lookup"} : turn' = [turn EXCEPT ![p].pc = s]
            BY <1>5
        <2> DEFINE x == [turn[p] EXCEPT !.pc = s]
        <2>2. x \in Turn /\ x.pc = s
            BY <1>0 DEF Turn, Step
        <2>3. turn' = [turn EXCEPT ![p] = x] /\ controller' = controller
            BY <1>0, <1>5, <2>1
        <2> HIDE DEF x
        <2> QED
            BY <1>0, <1>2, <1>3, <2>2, <2>3, QuietTurn
    <1>6. CASE controller' = controller /\ turn' = [turn EXCEPT ![p].pc = "plan", ![p].depth = 1]
        <2> DEFINE x == [turn[p] EXCEPT !.pc = "plan", !.depth = 1]
        <2>1. x \in Turn /\ x.pc = "plan"
            <3>1. 1 \in 0..1
                OBVIOUS
            <3>2. x.pc = "plan"
                BY <1>0 DEF Turn
            <3> QED
                BY <1>0, <3>1, <3>2 DEF Turn, Step
        <2>2. turn' = [turn EXCEPT ![p] = x] /\ controller' = controller
            BY <1>0, <1>6
        <2> HIDE DEF x
        <2> QED
            BY <1>0, <1>2, <1>3, <2>1, <2>2, QuietTurn
    <1> QED
        BY <1>4, <1>5, <1>6 DEF PlanNothing, PlanOrder, PlanFarewell, Farewell, PlanLookup, LookupDone

\* What the action is left with, info, is what has been told for it, if it was.
Heeded(i, info) ==
    /\ told' \in [ActionId -> SUBSET Info]
    /\ \A j \in ActionId \ {i} : told'[j] = told[j]
    /\ agent.instance[i].info = told[i] => info = told'[i]

\* A planning turn takes up the current action, or a new one, and performs it
\* (x.pc = "perform") or ends: a is what it makes of the action.
TakesUp(p, i, a, x) ==
    /\ turn[p].pc = "plan" /\ Touch(p, i) /\ (i = agent.current \/ i = agent.made + 1)
    /\ Heeded(i, a.info)
    /\ a.state = "asking" =>
         agent'.state = "asking" \/ (agent'.state = agent.state /\ a.state = agent.instance[i].state)
    /\ (a.state = "asking" /\ i = agent.made + 1) => agent'.state = "asking"
    /\ agent' \in Agent /\ agent'.current = i /\ agent'.made = (IF i > agent.made THEN i ELSE agent.made)
    /\ agent'.instance = [agent.instance EXCEPT ![i] = a]
    /\ x.pc \in {"perform", "done"}
    /\ x.pc = "perform" => x.acting = i /\ x.held = a.info /\ a.state # "asking"
    /\ turn' = [turn EXCEPT ![p] = x]
    /\ controller' = IF x.pc = "done" THEN ReleaseController(p) ELSE controller
    /\ deeds' = IF x.pc = "perform" THEN [deeds EXCEPT ![i] = @ + 1] ELSE deeds
    /\ UNCHANGED <<call, hangups, orders, callRun, callCrashes>>

LEMMA ActionTouched ==
    \A p \in Prompt, i \in ActionId, a \in Instance, x \in Turn :
      CallInv /\ TakesUp(p, i, a, x) => CallInv'
    <1> SUFFICES ASSUME NEW p \in Prompt, NEW i \in ActionId, NEW a \in Instance, NEW x \in Turn,
                        CallInv, TakesUp(p, i, a, x)
                 PROVE  CallInv'
        OBVIOUS
    <1>0. /\ CallTypeOK /\ turn \in [Prompt -> Turn] /\ agent \in Agent /\ deeds \in [ActionId -> Nat]
          /\ crossed \subseteq ActionId /\ ActionId \subseteq Nat /\ agent.made \in Nat
          /\ agent.current \in Nat /\ agent.instance \in [ActionId -> Instance]
        <2>1. CallTypeOK
            BY DEF CallInv
        <2>2. agent \in Agent
            BY <2>1 DEF CallTypeOK
        <2>3. agent.current \in ActionId \cup {NoAction} /\ agent.made \in 0..MaxActions
              /\ agent.instance \in [ActionId -> Instance]
            BY <2>2 DEF Agent
        <2>4. /\ \A n \in 0..MaxActions : n \in Nat
              /\ \A n \in ActionId \cup {NoAction} : n \in Nat
            BY CallTypes DEF NoAction
        <2> QED
            BY <2>1, <2>2, <2>3, <2>4, CallTypes DEF CallTypeOK
    <1> USE DEF TakesUp
    <1>1. Live(p) /\ ~ Performing(p) /\ ~ CallIsOver
        BY DEF Live, Performing, CallIsOver
    <1>2. TurnsInOrder' /\ ControllerIsNewest' /\ controller' \in Prompt \cup {Nobody}
        BY <1>1, TurnMoves
    <1>3. turn'[p] = x /\ \A q \in Prompt : q # p => turn'[q] = turn[q]
        BY <1>0
    <1>4. agent'.instance[i] = a /\ \A j \in ActionId : j # i => agent'.instance[j] = agent.instance[j]
        BY <1>0
    <1>5. crossed' = (IF SomePerforms THEN crossed \cup {i} ELSE crossed)
        BY <1>1 DEF Touch, AnotherPerforms, SomePerforms
    <1>6. /\ deeds' \in [ActionId -> Nat]
          /\ \A j \in ActionId : j # i => deeds'[j] = deeds[j]
          /\ deeds'[i] = IF x.pc = "perform" THEN deeds[i] + 1 ELSE deeds[i]
        BY <1>0
    <1>7. CallTypeOK'
        <2>1. turn' \in [Prompt -> Turn] /\ crossed' \subseteq ActionId
            BY <1>0, <1>5
        <2> QED
            BY <1>0, <1>2, <1>6, <2>1 DEF CallTypeOK, Heeded
    <1>8. /\ agent'.made \in Nat /\ i <= agent'.made /\ agent.made <= agent'.made
          /\ agent'.made = i \/ (agent'.made = agent.made /\ i = agent.current /\ i <= agent.made)
        BY <1>0 DEF CallInv, ActionsInv, ActionsMade
    <1>9. /\ \A q \in Prompt : Performing(q)' <=> (Performing(q) /\ q # p) \/ (q = p /\ x.pc = "perform")
          /\ SomePerforms' <=> SomePerforms \/ x.pc = "perform"
        BY <1>1, <1>3 DEF Performing, SomePerforms
    <1>10. i \notin crossed' => ~ SomePerforms /\ deeds[i] = 0
        BY <1>0, <1>1, <1>5 DEF CallInv, ActionsInv, ActionsMade, PerformedIsLeft
    <1>11. SilentBefore'
        BY <1>0 DEF CallInv, ActionsInv, SilentBefore
    <1>12. ActionsMade'
        <2>1. \A j \in ActionId : j > agent'.made => deeds'[j] = 0 /\ agent'.instance[j].info = {} /\ told'[j] = {}
            BY <1>0, <1>4, <1>6, <1>8 DEF CallInv, ActionsInv, ActionsMade, Heeded
        <2>2. \A q \in Prompt : Performing(q)' => turn'[q].acting \in ActionId /\ turn'[q].acting <= agent'.made
            BY <1>0, <1>3, <1>8, <1>9 DEF CallInv, ActionsInv, ActionsMade
        <2> QED
            BY <1>8, <2>1, <2>2 DEF ActionsMade
    <1>13. PerformedOnce'
        BY <1>0, <1>5, <1>6, <1>10 DEF CallInv, ActionsInv, PerformedOnce
    <1>14. PerformedIsLeft'
        BY <1>0, <1>5, <1>6, <1>9, <1>10 DEF PerformedIsLeft
    <1>15. AskedIsRemembered'
        <2> SUFFICES ASSUME NEW j \in ActionId, j \notin crossed', j = agent'.made,
                            agent'.instance[j].state = "asking"
                     PROVE  agent'.state = "asking" /\ agent'.current = j
            BY DEF AskedIsRemembered
        <2>1. j \notin crossed
            BY <1>5
        <2>2. CASE j = i
            <3>1. CASE agent'.state = "asking"
                BY <2>2, <3>1
            <3>2. CASE agent'.state # "asking"
                <4>1. agent'.state = agent.state /\ agent.instance[i].state = "asking" /\ i # agent.made + 1
                    BY <1>4, <2>2, <3>2
                <4>2. i = agent.made
                    <5>1. i = agent.current /\ agent.current <= agent.made
                        BY <4>1 DEF CallInv, ActionsInv, ActionsMade
                    <5> QED
                        BY <1>0, <2>2, <5>1
                <4> QED
                    BY <2>1, <2>2, <3>2, <4>1, <4>2 DEF CallInv, ActionsInv, AskedIsRemembered
            <3> QED
                BY <3>1, <3>2
        <2>3. CASE j # i
            <3>1. j = agent.made /\ agent.instance[j].state = "asking" /\ i = agent.current
                BY <1>4, <1>8, <2>3
            <3>2. agent.current = j
                BY <2>1, <3>1 DEF CallInv, ActionsInv, AskedIsRemembered
            <3> QED
                BY <2>3, <3>1, <3>2
        <2> QED
            BY <2>2, <2>3
    <1>16. NobodyIsAsked'
        <2> SUFFICES ASSUME agent'.made \in ActionId, agent'.made \notin crossed', SomePerforms',
                            agent'.instance[agent'.made].state = "asking"
                     PROVE  FALSE
            BY DEF NobodyIsAsked
        <2>1. agent'.made \notin crossed
            BY <1>5
        <2>2. CASE agent'.made = i
            <3>1. x.pc = "perform"
                BY <1>9, <1>10, <2>2
            <3> QED
                BY <1>4, <2>2, <3>1
        <2>3. CASE agent'.made # i
            <3>1. agent'.made = agent.made /\ i = agent.current /\ agent.instance[agent.made].state = "asking"
                BY <1>4, <1>8, <2>3
            <3>2. agent.current = agent.made
                BY <2>1, <3>1 DEF CallInv, ActionsInv, AskedIsRemembered
            <3> QED
                BY <2>3, <3>1, <3>2
        <2> QED
            BY <2>2, <2>3
    <1>17. HeldIsAll'
        <2> SUFFICES ASSUME NEW q \in Prompt, Performing(q)', turn'[q].acting \notin crossed'
                     PROVE  turn'[q].held = agent'.instance[turn'[q].acting].info
            BY DEF HeldIsAll
        <2>1. CASE q = p
            BY <1>3, <1>4, <1>9, <2>1
        <2>2. CASE q # p
            <3>1. Performing(q) /\ turn'[q] = turn[q] /\ i \in crossed'
                BY <1>3, <1>5, <1>9, <2>2 DEF SomePerforms
            <3>2. turn[q].acting \in ActionId /\ turn[q].acting # i /\ turn[q].acting \notin crossed
                BY <1>5, <3>1 DEF CallInv, ActionsInv, ActionsMade
            <3>3. turn[q].held = agent.instance[turn[q].acting].info
                BY <3>1, <3>2 DEF CallInv, ActionsInv, HeldIsAll
            <3> QED
                BY <1>4, <3>1, <3>2, <3>3
        <2> QED
            BY <2>1, <2>2
    <1>18. InformationKept'
        BY <1>0, <1>4, <1>5 DEF CallInv, ActionsInv, InformationKept, Heeded
    <1> QED
        BY <1>2, <1>7, <1>11, <1>12, <1>13, <1>14, <1>15, <1>16, <1>17, <1>18 DEF CallInv, ActionsInv

\* The action is performed, with what has been collected.
LEMMA StartedAction ==
    ASSUME CallInv, NEW p \in Prompt, turn[p].pc = "plan",
           NEW i \in ActionId, i = agent.current \/ i = agent.made + 1, Touch(p, i),
           NEW inst \in Instance, Heeded(i, inst.info),
           StartAction(p, i, inst), UNCHANGED <<call, hangups, orders, callRun, callCrashes>>
    PROVE  CallInv'
    <1>0. /\ agent \in Agent /\ turn \in [Prompt -> Turn] /\ turn[p] \in Turn /\ deeds \in [ActionId -> Nat]
          /\ agent.instance \in [ActionId -> Instance] /\ inst.info \subseteq Info /\ agent.made \in 0..MaxActions
        BY DEF CallInv, CallTypeOK, Agent, Instance
    <1> DEFINE a == [inst EXCEPT !.state = "performing"]
               x == [turn[p] EXCEPT !.pc = "perform", !.acting = i, !.held = inst.info]
               made == IF i > agent.made THEN i ELSE agent.made
    <1>1. a \in Instance /\ a.info = inst.info /\ a.state = "performing"
        BY DEF Instance, ActionState
    <1>2. x \in Turn /\ x.pc = "perform" /\ x.acting = i /\ x.held = inst.info
        BY <1>0 DEF Turn, Step
    <1>3. turn' = [turn EXCEPT ![p] = x] /\ controller' = controller /\ deeds' = [deeds EXCEPT ![i] = @ + 1]
        BY <1>0 DEF StartAction
    <1>4. made \in 0..MaxActions
        BY <1>0, CallTypes DEF ActionId
    <1>5. agent' = [agent EXCEPT !.state = "performing", !.current = i, !.made = made, !.instance[i] = a]
        BY DEF StartAction
    <1> HIDE DEF a, x, made
    <1>6. [agent.instance EXCEPT ![i] = a] \in [ActionId -> Instance]
        BY <1>0, <1>1
    <1>7. /\ agent' \in Agent /\ agent'.state = "performing" /\ agent'.current = i /\ agent'.made = made
          /\ agent'.instance = [agent.instance EXCEPT ![i] = a]
        BY <1>0, <1>4, <1>5, <1>6 DEF Agent, ActionState
    <1>8. agent'.made = (IF i > agent.made THEN i ELSE agent.made)
        BY <1>7 DEF made
    <1>9. TakesUp(p, i, a, x)
        BY <1>1, <1>2, <1>3, <1>7, <1>8 DEF TakesUp
    <1> QED
        BY <1>1, <1>2, <1>9, ActionTouched

\* What a plan extracted is added to the action as it is told.
LEMMA ToldIsHeeded ==
    ASSUME CallInv, NEW i \in ActionId, NEW known \in Instance, known.info = agent.instance[i].info,
           NEW y \in Extract
    PROVE  /\ Collected(known, y) \in Instance
           /\ Collected(known, y).state = known.state
           /\ Tell(i, y) => Heeded(i, Collected(known, y).info)
    <1>1. told \in [ActionId -> SUBSET Info] /\ y.said \subseteq Info /\ y.blank \subseteq Info
        BY DEF CallInv, CallTypeOK, Extract
    <1>2. /\ Collected(known, y) \in Instance
          /\ Collected(known, y).state = known.state
          /\ Collected(known, y).info = (known.info \ y.blank) \cup y.said
        BY <1>1 DEF Collected, Instance
    <1>3. ASSUME Tell(i, y) PROVE Heeded(i, (known.info \ y.blank) \cup y.said)
        <2>1. /\ told' \in [ActionId -> SUBSET Info]
              /\ told'[i] = (told[i] \ y.blank) \cup y.said
              /\ \A j \in ActionId \ {i} : told'[j] = told[j]
            BY <1>1, <1>3 DEF Tell
        <2> QED
            BY <2>1 DEF Heeded
    <1> QED
        BY <1>2, <1>3

LEMMA CollectStep == \A p \in Prompt : CallInv /\ PlanCollect(p) => CallInv'
    <1> SUFFICES ASSUME NEW p \in Prompt, CallInv, PlanCollect(p) PROVE CallInv'
        OBVIOUS
    <1> DEFINE i == agent.current
    <1>0. /\ agent \in Agent /\ turn \in [Prompt -> Turn] /\ turn[p] \in Turn /\ turn[p].pc = "plan"
          /\ agent.current \in ActionId /\ agent.state = "asking" /\ agent.made \in 0..MaxActions
          /\ agent.current <= agent.made /\ ActionId \subseteq Nat
          /\ agent.instance \in [ActionId -> Instance] /\ agent.instance[i] \in Instance
          /\ UNCHANGED <<call, hangups, orders, callRun, callCrashes>>
        BY CallTypes DEF CallInv, ActionsInv, ActionsMade, CallTypeOK, PlanCollect, Planned, Agent, socketVars
    <1>1. PICK y \in Extract :
            LET inst == Collected(agent.instance[i], y)
            IN  /\ Touch(p, i)
                /\ Tell(i, y)
                /\ IF Sufficient(inst.name, inst.info)
                     THEN StartAction(p, i, inst)
                     ELSE /\ agent' = [agent EXCEPT !.instance[i] = inst]
                          /\ EndTurn(p)
                          /\ UNCHANGED deeds
        BY DEF PlanCollect
    <1> DEFINE inst == Collected(agent.instance[i], y)
    <1>2. inst \in Instance /\ inst.state = agent.instance[i].state /\ Heeded(i, inst.info)
        BY <1>0, <1>1, ToldIsHeeded
    <1> HIDE DEF inst
    <1>3. CASE StartAction(p, i, inst)
        BY <1>0, <1>1, <1>2, <1>3, StartedAction
    <1>4. CASE agent' = [agent EXCEPT !.instance[i] = inst] /\ EndTurn(p) /\ UNCHANGED deeds
        <2> DEFINE x == [turn[p] EXCEPT !.pc = "done"]
        <2>1. x \in Turn /\ x.pc = "done" /\ turn' = [turn EXCEPT ![p] = x] /\ controller' = ReleaseController(p)
            BY <1>0, <1>4 DEF Turn, Step, EndTurn
        <2>2. [agent.instance EXCEPT ![i] = inst] \in [ActionId -> Instance]
            BY <1>0, <1>2
        <2>3. /\ agent' \in Agent /\ agent'.state = "asking" /\ agent'.current = i
              /\ agent'.made = (IF i > agent.made THEN i ELSE agent.made)
              /\ agent'.instance = [agent.instance EXCEPT ![i] = inst]
            BY <1>0, <1>4, <2>2 DEF Agent
        <2>4. i # agent.made + 1
            BY <1>0
        <2> HIDE DEF x
        <2>5. TakesUp(p, i, inst, x)
            BY <1>0, <1>1, <1>2, <1>4, <2>1, <2>3, <2>4 DEF TakesUp
        <2> QED
            BY <1>0, <1>2, <2>1, <2>5, ActionTouched
    <1> QED
        BY <1>1, <1>3, <1>4 DEF inst

\* The agent goes on with action i, which is a now, in state s.
GoesOn(i, a, s) ==
    agent' = [agent EXCEPT !.state = s, !.current = i, !.made = IF i > @ THEN i ELSE @, !.instance[i] = a]

\* A planned action that is not performed becomes the current one.
LEMMA KeptAction ==
    ASSUME CallInv, NEW p \in Prompt, turn[p].pc = "plan",
           NEW i \in ActionId, i = agent.current \/ i = agent.made + 1, Touch(p, i),
           NEW kept \in Instance, Heeded(i, kept.info),
           NEW s \in ActionState, kept.state = "asking" => s = "asking" \/ (s = agent.state /\ kept.state = agent.instance[i].state),
           kept.state = "asking" /\ i = agent.made + 1 => s = "asking",
           GoesOn(i, kept, s), EndTurn(p), UNCHANGED deeds, UNCHANGED <<call, hangups, orders, callRun, callCrashes>>
    PROVE  CallInv'
    <1>0. /\ agent \in Agent /\ turn \in [Prompt -> Turn] /\ turn[p] \in Turn
          /\ agent.instance \in [ActionId -> Instance] /\ agent.made \in 0..MaxActions
        BY DEF CallInv, CallTypeOK, Agent
    <1> DEFINE x == [turn[p] EXCEPT !.pc = "done"]
               made == IF i > agent.made THEN i ELSE agent.made
    <1>1. x \in Turn /\ x.pc = "done" /\ turn' = [turn EXCEPT ![p] = x] /\ controller' = ReleaseController(p)
        BY <1>0 DEF Turn, Step, EndTurn
    <1>2. made \in 0..MaxActions
        BY <1>0, CallTypes DEF ActionId
    <1>3. agent' = [agent EXCEPT !.state = s, !.current = i, !.made = made, !.instance[i] = kept]
        BY DEF GoesOn
    <1> HIDE DEF x, made
    <1>4. [agent.instance EXCEPT ![i] = kept] \in [ActionId -> Instance]
        BY <1>0
    <1>5. /\ agent' \in Agent /\ agent'.state = s /\ agent'.current = i /\ agent'.made = made
          /\ agent'.instance = [agent.instance EXCEPT ![i] = kept]
        BY <1>0, <1>2, <1>3, <1>4 DEF Agent
    <1>6. agent'.made = (IF i > agent.made THEN i ELSE agent.made)
        BY <1>5 DEF made
    <1>7. /\ kept.state = "asking" =>
               agent'.state = "asking" \/ (agent'.state = agent.state /\ kept.state = agent.instance[i].state)
          /\ kept.state = "asking" /\ i = agent.made + 1 => agent'.state = "asking"
        BY <1>5
    <1>8. TakesUp(p, i, kept, x)
        BY <1>1, <1>5, <1>6, <1>7 DEF TakesUp
    <1> QED
        BY <1>1, <1>8, ActionTouched

LEMMA ActionStep == \A p \in Prompt : CallInv /\ PlanAction(p) => CallInv'
    <1> SUFFICES ASSUME NEW p \in Prompt, CallInv, PlanAction(p) PROVE CallInv'
        OBVIOUS
    <1>0. /\ turn[p].pc = "plan" /\ agent.state \in ActionState /\ agent.made \in Nat /\ agent.current \in Nat
          /\ agent.current <= agent.made /\ ActionId \subseteq Nat
          /\ agent.current \in ActionId \cup {NoAction}
          /\ agent.instance \in [ActionId -> Instance]
          /\ UNCHANGED <<call, hangups, orders, callRun, callCrashes>>
        BY CallTypes DEF CallInv, ActionsInv, ActionsMade, CallTypeOK, PlanAction, Planned, Agent, socketVars, NoAction
    <1>1. PICK name \in ActionName, continues \in BOOLEAN, y \in Extract :
          \E i \in Resolved(name, continues) :
            LET known == IF i > agent.made THEN NewInstance(name) ELSE agent.instance[i]
                inst  == Collected(known, y)
                Keep(a, s) == agent' = [agent EXCEPT !.state = s, !.current = i,
                                           !.made = IF i > @ THEN i ELSE @, !.instance[i] = a]
            IN  /\ Touch(p, i)
                /\ CASE turn[p].aborted ->
                          Keep(known, agent.state) /\ EndTurn(p) /\ UNCHANGED <<deeds, told>>
                     [] ~turn[p].aborted /\ Sufficient(name, inst.info) ->
                          StartAction(p, i, inst) /\ Tell(i, y)
                     [] OTHER ->
                          /\ Keep([inst EXCEPT !.state = "asking"], "asking")
                          /\ Tell(i, y)
                          /\ EndTurn(p)
                          /\ UNCHANGED deeds
        BY DEF PlanAction
    <1>2. PICK i \in Resolved(name, continues) :
            LET known == IF i > agent.made THEN NewInstance(name) ELSE agent.instance[i]
                inst  == Collected(known, y)
                Keep(a, s) == agent' = [agent EXCEPT !.state = s, !.current = i,
                                           !.made = IF i > @ THEN i ELSE @, !.instance[i] = a]
            IN  /\ Touch(p, i)
                /\ CASE turn[p].aborted ->
                          Keep(known, agent.state) /\ EndTurn(p) /\ UNCHANGED <<deeds, told>>
                     [] ~turn[p].aborted /\ Sufficient(name, inst.info) ->
                          StartAction(p, i, inst) /\ Tell(i, y)
                     [] OTHER ->
                          /\ Keep([inst EXCEPT !.state = "asking"], "asking")
                          /\ Tell(i, y)
                          /\ EndTurn(p)
                          /\ UNCHANGED deeds
        BY <1>1
    <1> DEFINE known == IF i > agent.made THEN NewInstance(name) ELSE agent.instance[i]
               inst  == Collected(known, y)
               asked == [inst EXCEPT !.state = "asking"]
    <1>3. i \in ActionId /\ (i = agent.current \/ i = agent.made + 1)
        BY <1>0 DEF Resolved
    <1>4. /\ known \in Instance /\ (i <= agent.made => known = agent.instance[i])
          /\ i = agent.made + 1 => known.state = "idle"
        BY <1>0, <1>3, CallTypes DEF NewInstance
    <1>5. Touch(p, i)
        BY <1>2
    <1>6. \/ GoesOn(i, known, agent.state) /\ EndTurn(p) /\ UNCHANGED <<deeds, told>>
          \/ StartAction(p, i, inst) /\ Tell(i, y)
          \/ GoesOn(i, asked, "asking") /\ EndTurn(p) /\ UNCHANGED deeds /\ Tell(i, y)
        BY <1>2 DEF GoesOn
    <1>7. known.info = agent.instance[i].info
        BY <1>0, <1>3 DEF NewInstance, CallInv, ActionsInv, ActionsMade
    <1> HIDE DEF known
    <1>8. /\ inst \in Instance /\ asked \in Instance /\ asked.info = inst.info
          /\ Tell(i, y) => Heeded(i, inst.info)
        <2>1. inst \in Instance /\ (Tell(i, y) => Heeded(i, inst.info))
            BY <1>3, <1>4, <1>7, ToldIsHeeded
        <2> HIDE DEF inst
        <2> QED
            BY <2>1 DEF Instance, ActionState
    <1> HIDE DEF inst, asked
    <1>9. CASE StartAction(p, i, inst) /\ Tell(i, y)
        BY <1>0, <1>3, <1>5, <1>8, <1>9, StartedAction
    <1>10. CASE GoesOn(i, known, agent.state) /\ EndTurn(p) /\ UNCHANGED <<deeds, told>>
        <2>1. /\ known.state = "asking" =>
                   agent.state = "asking" \/ (agent.state = agent.state /\ known.state = agent.instance[i].state)
              /\ known.state = "asking" /\ i = agent.made + 1 => agent.state = "asking"
            BY <1>0, <1>3, <1>4
        <2>2. Heeded(i, known.info)
            BY <1>7, <1>10 DEF Heeded, CallInv, CallTypeOK
        <2> QED
            BY <1>0, <1>3, <1>4, <1>5, <1>10, <2>1, <2>2, KeptAction
    <1>11. CASE GoesOn(i, asked, "asking") /\ EndTurn(p) /\ UNCHANGED deeds /\ Tell(i, y)
        <2>1. "asking" \in ActionState
            BY DEF ActionState
        <2>2. Heeded(i, asked.info)
            BY <1>8, <1>11
        <2> QED
            BY <1>0, <1>3, <1>5, <1>8, <1>11, <2>1, <2>2, KeptAction
    <1> QED
        BY <1>6, <1>9, <1>10, <1>11

\* performAction returns: the action is written back and left.
LEMMA DoneStep == \A p \in Prompt : CallInv /\ ActionDone(p) => CallInv'
    <1> SUFFICES ASSUME NEW p \in Prompt, CallInv, ActionDone(p) PROVE CallInv'
        OBVIOUS
    <1> DEFINE i == turn[p].acting
    <1>0. /\ CallTypeOK /\ agent \in Agent /\ turn \in [Prompt -> Turn] /\ turn[p] \in Turn /\ turn[p].pc = "perform"
          /\ i \in ActionId /\ i <= agent.made /\ ActionId \subseteq Nat /\ NoAction \notin ActionId
          /\ agent.instance \in [ActionId -> Instance] /\ agent.instance[i] \in Instance
          /\ turn[p].held \subseteq Info /\ agent.made \in 0..MaxActions
          /\ UNCHANGED <<call, hangups, controller, deeds, orders, crossed, told, callRun, callCrashes>>
        BY CallTypes DEF CallInv, ActionsInv, ActionsMade, CallTypeOK, ActionDone, Performing, Agent, Turn, socketVars
    <1> DEFINE a == [agent.instance[i] EXCEPT !.state = "idle", !.info = turn[p].held]
               x == [turn[p] EXCEPT !.pc = "plan", !.depth = 0, !.acting = NoAction, !.held = {}]
    <1>1. a \in Instance /\ a.state = "idle" /\ a.info = turn[p].held
        BY <1>0 DEF Instance, ActionState
    <1>2. x \in Turn /\ x.pc = "plan"
        <2>1. 0 \in 0..1
            OBVIOUS
        <2> QED
            BY <1>0, <2>1 DEF Turn, Step
    <1>3. turn' = [turn EXCEPT ![p] = x]
        BY <1>0 DEF ActionDone
    <1>4. agent' = [agent EXCEPT !.state = "idle", !.current = NoAction, !.instance[i] = a]
        BY <1>0 DEF ActionDone
    <1> HIDE DEF a, x
    <1>5. [agent.instance EXCEPT ![i] = a] \in [ActionId -> Instance]
        BY <1>0, <1>1
    <1>6. /\ agent' \in Agent /\ agent'.state = "idle" /\ agent'.current = NoAction /\ agent'.made = agent.made
          /\ agent'.instance = [agent.instance EXCEPT ![i] = a]
        BY <1>0, <1>4, <1>5 DEF Agent, ActionState
    <1>7. agent'.instance[i] = a /\ \A j \in ActionId : j # i => agent'.instance[j] = agent.instance[j]
        BY <1>0, <1>6
    <1>8. Live(p) /\ Performing(p) /\ SomePerforms /\ ~ CallIsOver
        BY <1>0 DEF Live, Performing, SomePerforms, CallIsOver
    <1>9. TurnsInOrder' /\ ControllerIsNewest' /\ controller' \in Prompt \cup {Nobody}
        BY <1>0, <1>2, <1>3, <1>8, TurnMoves
    <1>10. turn'[p] = x /\ \A q \in Prompt : q # p => turn'[q] = turn[q]
        BY <1>0, <1>3
    <1>11. CallTypeOK'
        <2>1. turn' \in [Prompt -> Turn]
            BY <1>0, <1>2, <1>3
        <2> QED
            BY <1>0, <1>6, <1>9, <2>1 DEF CallTypeOK
    <1>12. \A q \in Prompt : Performing(q)' => Performing(q) /\ turn'[q] = turn[q]
        BY <1>2, <1>10 DEF Performing
    <1>13. SilentBefore' /\ PerformedOnce' /\ PerformedIsLeft'
        <2>1. SilentBefore'
            BY <1>0 DEF CallInv, ActionsInv, SilentBefore
        <2>2. PerformedOnce' /\ PerformedIsLeft'
            BY <1>0, <1>6 DEF CallInv, ActionsInv, PerformedOnce, PerformedIsLeft
        <2> QED
            BY <2>1, <2>2
    <1>14. ActionsMade'
        <2>1. \A j \in ActionId : j > agent'.made => deeds'[j] = 0 /\ agent'.instance[j].info = {} /\ told'[j] = {}
            BY <1>0, <1>6, <1>7 DEF CallInv, ActionsInv, ActionsMade
        <2>2. \A q \in Prompt : Performing(q)' => turn'[q].acting \in ActionId /\ turn'[q].acting <= agent'.made
            BY <1>6, <1>12 DEF CallInv, ActionsInv, ActionsMade
        <2> QED
            BY <1>0, <1>6, <2>1, <2>2 DEF ActionsMade, NoAction
    <1>15. AskedIsRemembered' /\ NobodyIsAsked'
        <2>1. \A j \in ActionId \ crossed : j = agent.made => agent'.instance[j].state # "asking"
            BY <1>1, <1>7, <1>8 DEF CallInv, ActionsInv, NobodyIsAsked
        <2> QED
            BY <1>0, <1>6, <2>1 DEF AskedIsRemembered, NobodyIsAsked
    <1>16. HeldIsAll'
        <2> SUFFICES ASSUME NEW q \in Prompt, Performing(q)', turn'[q].acting \notin crossed'
                     PROVE  turn'[q].held = agent'.instance[turn'[q].acting].info
            BY DEF HeldIsAll
        <2>1. Performing(q) /\ turn'[q] = turn[q] /\ turn[q].acting \in ActionId
            BY <1>12 DEF CallInv, ActionsInv, ActionsMade
        <2>2. turn[q].held = agent.instance[turn[q].acting].info
            BY <1>0, <2>1 DEF CallInv, ActionsInv, HeldIsAll
        <2>3. CASE turn[q].acting = i
            <3>1. turn[p].held = agent.instance[i].info
                BY <1>0, <1>8, <2>1, <2>3 DEF CallInv, ActionsInv, HeldIsAll
            <3> QED
                BY <1>1, <1>7, <2>1, <2>2, <2>3, <3>1
        <2>4. CASE turn[q].acting # i
            BY <1>7, <2>1, <2>2, <2>4
        <2> QED
            BY <2>3, <2>4
    <1>17. InformationKept'
        <2>1. i \notin crossed => turn[p].held = agent.instance[i].info
            BY <1>8 DEF CallInv, ActionsInv, HeldIsAll
        <2> QED
            BY <1>0, <1>1, <1>7, <2>1 DEF CallInv, ActionsInv, InformationKept
    <1> QED
        BY <1>9, <1>11, <1>13, <1>14, <1>15, <1>16, <1>17 DEF CallInv, ActionsInv

LEMMA CallStep == CallInv /\ [CallNext]_callVars => CallInv'
    <1> SUFFICES ASSUME CallInv, [CallNext]_callVars PROVE CallInv'
        OBVIOUS
    <1>1. CASE UNCHANGED callVars
        <2>1. CallTypeOK' /\ TurnsInOrder'
            BY <1>1 DEF CallInv, CallTypeOK, TurnsInOrder, callVars
        <2>2. ControllerIsNewest'
            BY <1>1 DEF CallInv, ControllerIsNewest, Live, callVars
        <2>3. ActionsInv'
            BY <1>1, ActionsStay DEF callVars, CallInv, ActionsInv, SilentBefore, CallIsOver, Live
        <2> QED
            BY <2>1, <2>2, <2>3 DEF CallInv
    <1>2. ASSUME NEW p \in Prompt, TurnStep(p) PROVE CallInv'
        BY <1>2, QuietSteps, CollectStep, ActionStep, DoneStep DEF TurnStep
    <1> QED
        BY <1>1, <1>2, CallSurroundings, CrashOfCall, CallerSpeaks DEF CallNext

LEMMA CallIsKept == CallSpec => []CallInv
    <1> QED
        BY InitCall, CallStep, PTL DEF CallSpec

\* Turns of one phone call that overlap neither abort, repeat nor forget what
\* is another turn's, for any number of prompts, actions and pieces of
\* information (TwilioMediaGateway does not wait for a turn; LlmAgent's fields
\* and currentAbort are shared).
THEOREM TurnsAreKept == CallSpec => []TurnsAreSound
    <1>1. CallInv => TurnsAreSound
        BY DEF CallInv, ActionsInv, TurnsAreSound
    <1> QED
        BY <1>1, CallIsKept, PTL

\* An action is asked about and performed with what plans extracted for it since
\* it was made and left standing, though performAction writes back a copy taken
\* before it was awaited, unless another turn took up an action meanwhile; for
\* any number of prompts, actions and pieces of information.
THEOREM WordsAreKept == CallSpec => []InformationKept
    <1>1. CallInv => InformationKept
        BY DEF CallInv, ActionsInv
    <1> QED
        BY <1>1, CallIsKept, PTL
=============================================================================
