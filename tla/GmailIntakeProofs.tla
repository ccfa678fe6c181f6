------------------------- MODULE GmailIntakeProofs -------------------------
(***************************************************************************)
(* Proofs about GmailIntake: its types, that the cursor of a connector     *)
(* never runs ahead of the mail that is accounted for, that no mail slips  *)
(* through, and that it is stored once.                                    *)
(***************************************************************************)
EXTENDS GmailIntake, FiniteSetTheorems, TLAPS

\* The history id of the next message is one more than the number of messages
\* in the mailbox, and there is room for it.
LEMMA NextId ==
  ASSUME TypeOK
  PROVE  /\ Cardinality(Mail) \in Nat
         /\ Cardinality(Inbox) \in Nat
         /\ \A m \in Mail : arrived[m] = 0 =>
              /\ Cardinality(Inbox) + 1 <= Cardinality(Mail)
              /\ Cardinality(Inbox \cup {m}) = Cardinality(Inbox) + 1
  <1>1. Inbox \subseteq Mail
    BY DEF Inbox
  <1>2. IsFiniteSet(Mail) /\ IsFiniteSet(Inbox)
    BY <1>1, FS_Subset, IntakeAssumption DEF IntakeAssumption
  <1>3. Cardinality(Mail) \in Nat /\ Cardinality(Inbox) \in Nat
    BY <1>2, FS_CardinalityType
  <1>4. ASSUME NEW m \in Mail, arrived[m] = 0
        PROVE  /\ Cardinality(Inbox) + 1 <= Cardinality(Mail)
               /\ Cardinality(Inbox \cup {m}) = Cardinality(Inbox) + 1
    <2>1. m \notin Inbox
      BY <1>4 DEF Inbox
    <2>2. Cardinality(Inbox \cup {m}) = Cardinality(Inbox) + 1
      BY <2>1, <1>2, FS_AddElement
    <2>3. Inbox \cup {m} \subseteq Mail
      BY <1>1
    <2>4. Cardinality(Inbox \cup {m}) <= Cardinality(Mail)
      BY <2>3, <1>2, FS_Subset
    <2> QED
      BY <2>2, <2>4
  <1> QED
    BY <1>3, <1>4

\* The initial records have their types.
LEMMA InitialRecords ==
  Idle \in Job /\ NoErrand \in Errand /\ NewConnector \in Connector
  <1>1. Cardinality(Mail) \in Nat
    BY IntakeAssumption, FS_CardinalityType DEF IntakeAssumption
  <1>2. MaxErrands \in Nat
    BY IntakeAssumption DEF IntakeAssumption
  <1>3. NewConnector \in Connector
    BY <1>1, <1>2 DEF NewConnector, Connector, HistoryId, Consent
  <1> QED
    BY <1>1, <1>3 DEF Idle, Job, Pc, HistoryId, NoErrand, Errand

\* Every action keeps the state within its types.
LEMMA TypeStep == TypeOK /\ [Next]_vars => TypeOK'
  <1> SUFFICES ASSUME TypeOK, [Next]_vars PROVE TypeOK'
    OBVIOUS
  <1> USE IntakeAssumption DEF IntakeAssumption
  <1>0. Cardinality(Mail) \in Nat /\ Cardinality(Inbox) \in Nat
    BY NextId
  <1>1. ASSUME NEW m \in Mail, Arrive(m) PROVE TypeOK'
    <2>0. arrived[m] = 0
      BY <1>1 DEF Arrive
    <2>01. Cardinality(Inbox) + 1 <= Cardinality(Mail)
      BY <2>0, NextId
    <2>1. Cardinality(Inbox) + 1 \in HistoryId
      BY <1>0, <2>01 DEF HistoryId
    <2> QED
      BY <2>1, <1>1 DEF Arrive, TypeOK, tables, faults, history
  <1>2. ASSUME NEW p \in HistoryId, Duplicate(p) PROVE TypeOK'
    BY <1>2 DEF Duplicate, TypeOK, gmail, tables, history
  <1>3. CASE Revoke
    BY <1>3 DEF Revoke, TypeOK, tables, faults, history, Consent
  <1>4. CASE Expire
    BY <1>4 DEF Expire, TypeOK, gmail, history, Connector
  <1>5. CASE Crash
    <2>1. lost' \subseteq Mail
      BY <1>5 DEF Crash, TypeOK, Charge, Job, Inbox
    <2>2. pushes' \subseteq HistoryId
      BY <1>5 DEF Crash, TypeOK, Job
    <2>3. /\ job' \in [Handler -> Job]
          /\ errand' \in [Clerk -> Errand]
      BY <1>5, InitialRecords DEF Crash
    <2>4. \A h \in Handler : job'[h].pc = "idle"
      BY <1>5 DEF Crash, Idle
    <2> QED
      BY <2>1, <2>2, <2>3, <2>4, <1>5 DEF Crash, TypeOK, gmail, tables
  <1>6. ASSUME NEW k \in Clerk, StartErrand(k) PROVE TypeOK'
    <2>1. errand' \in [Clerk -> Errand] /\ grant' \in Consent
      BY <1>6 DEF StartErrand, TypeOK, Errand, Connector, Consent
    <2> QED
      BY <2>1, <1>6 DEF StartErrand, TypeOK, tables, history
  <1>7. ASSUME NEW k \in Clerk, FinishErrand(k) PROVE TypeOK'
    <2>1. connector' \in Connector
      BY <1>7 DEF FinishErrand, Renewed, TypeOK, Errand, Connector
    <2>2. errand' \in [Clerk -> Errand]
      BY <1>7, InitialRecords DEF FinishErrand, TypeOK
    <2> QED
      BY <2>1, <2>2, <1>7 DEF FinishErrand, TypeOK, gmail, faults, history
  <1>8. ASSUME NEW h \in Handler, NEW p \in HistoryId, Deliver(h, p) PROVE TypeOK'
    <2>1. [Idle EXCEPT !.pc = "read", !.push = p] \in Job
      BY InitialRecords DEF Job, Pc
    <2>2. job' \in [Handler -> Job]
      BY <2>1, <1>8 DEF Deliver, TypeOK
    <2>3. \A g \in Handler : job'[g].pc \in {"save", "publish"} => job'[g].mail # None
      BY <1>8 DEF Deliver, TypeOK, Idle
    <2> QED
      BY <2>2, <2>3, <1>8 DEF Deliver, TypeOK, gmail, tables, faults, history
  <1>9. ASSUME NEW h \in Handler, HandlerStep(h) PROVE TypeOK'
    <2>1. CASE ReadConnector(h)
      <3>1. job' \in [Handler -> Job]
        BY <2>1 DEF ReadConnector, TypeOK, Job, Pc, Goto
      <3>2. \A g \in Handler : job'[g].pc \in {"save", "publish"} => job'[g].mail # None
        BY <2>1, IntakeAssumption DEF ReadConnector, TypeOK, Job, Goto, IntakeAssumption
      <3>3. unheeded' \subseteq Mail
        BY <2>1 DEF ReadConnector, TypeOK, Announced, Inbox
      <3> QED
        BY <3>1, <3>2, <3>3, <2>1 DEF ReadConnector, TypeOK, gmail, tables, faults
    <2>2. CASE RenewToken(h)
      <3>1. job' \in [Handler -> Job]
        BY <2>2 DEF RenewToken, TypeOK, Job, Pc, Renewed, Connector
      <3>2. \A g \in Handler : job'[g].pc \in {"save", "publish"} => job'[g].mail # None
        BY <2>2, IntakeAssumption DEF RenewToken, TypeOK, Job, Renewed, Connector, IntakeAssumption
      <3>3. connector' \in Connector
        BY <2>2 DEF RenewToken, Renewed, TypeOK, Job, Connector
      <3> QED
        BY <3>1, <3>2, <3>3, <2>2 DEF RenewToken, TypeOK, gmail, faults, history
    <2>3. CASE Deactivate(h)
      <3>1. job' \in [Handler -> Job]
        BY <2>3 DEF Deactivate, TypeOK, Job, Pc, Goto
      <3>2. \A g \in Handler : job'[g].pc \in {"save", "publish"} => job'[g].mail # None
        BY <2>3, IntakeAssumption DEF Deactivate, TypeOK, Job, Goto, IntakeAssumption
      <3>3. connector' \in Connector /\ unheeded' \subseteq Mail
        BY <2>3 DEF Deactivate, TypeOK, Job, Connector, Announced, Inbox
      <3> QED
        BY <3>1, <3>2, <3>3, <2>3 DEF Deactivate, TypeOK, gmail, faults
    <2>4. CASE AdvanceCursor(h)
      <3>1. job' \in [Handler -> Job]
        BY <2>4 DEF AdvanceCursor, TypeOK, Job, Pc, Goto
      <3>2. \A g \in Handler : job'[g].pc \in {"save", "publish"} => job'[g].mail # None
        BY <2>4, IntakeAssumption DEF AdvanceCursor, TypeOK, Job, Goto, IntakeAssumption
      <3>3. connector' \in Connector
        BY <2>4 DEF AdvanceCursor, Renewed, TypeOK, Job, Connector
      <3> QED
        BY <3>1, <3>2, <3>3, <2>4 DEF AdvanceCursor, TypeOK, gmail, faults, history
    <2>5. CASE ListMail(h)
      <3>1. job' \in [Handler -> Job]
        BY <2>5 DEF ListMail, TypeOK, Job, Pc, Goto, GiveUp, Listed, Inbox
      <3>2. \A g \in Handler : job'[g].pc \in {"save", "publish"} => job'[g].mail # None
        BY <2>5, IntakeAssumption DEF ListMail, TypeOK, Job, Goto, GiveUp, Listed, Inbox, IntakeAssumption
      <3>3. lost' \subseteq Mail /\ unlisted' \subseteq Mail
        BY <2>5 DEF ListMail, GiveUp, TypeOK, Unlisted, Inbox, Job
      <3>4. contested' \subseteq Mail
        BY <2>5 DEF ListMail, TypeOK, Listed, Inbox
      <3>5. UNCHANGED <<gmail, pushes, tables, queued, errand, faults, unheeded>>
        BY <2>5 DEF ListMail
      <3> QED
        BY <3>1, <3>2, <3>3, <3>4, <3>5 DEF TypeOK, gmail, tables, faults
    <2>6. CASE CheckMail(h)
      <3>1. job' \in [Handler -> Job]
        BY <2>6 DEF CheckMail, TypeOK, Job, Pc, Goto, GiveUp
      <3>2. \A g \in Handler : job'[g].pc \in {"save", "publish"} => job'[g].mail # None
        BY <2>6, IntakeAssumption DEF CheckMail, TypeOK, Job, Goto, GiveUp, IntakeAssumption
      <3>3. lost' \subseteq Mail /\ unlisted' \subseteq Mail
        BY <2>6 DEF CheckMail, GiveUp, TypeOK, Unlisted, Inbox, Job
      <3> QED
        BY <3>1, <3>2, <3>3, <2>6 DEF CheckMail, TypeOK, gmail, tables, faults
    <2>7. CASE SaveMail(h)
      <3>1. job' \in [Handler -> Job]
        BY <2>7 DEF SaveMail, TypeOK, Job, Pc, Goto
      <3>2. \A g \in Handler : job'[g].pc \in {"save", "publish"} => job'[g].mail # None
        BY <2>7, IntakeAssumption DEF SaveMail, TypeOK, Job, Goto, IntakeAssumption
      <3>3. job[h].mail \in Mail
        BY <2>7 DEF SaveMail, TypeOK, Job
      <3>4. stored' \in [Mail -> Nat]
        BY <3>3, <2>7 DEF SaveMail, TypeOK
      <3> QED
        BY <3>1, <3>2, <3>4, <2>7 DEF SaveMail, TypeOK, gmail, faults, history
    <2>8. CASE PublishMail(h)
      <3>1. job' \in [Handler -> Job]
        BY <2>8 DEF PublishMail, TypeOK, Job, Pc
      <3>2. \A g \in Handler : job'[g].pc \in {"save", "publish"} => job'[g].mail # None
        BY <2>8, IntakeAssumption DEF PublishMail, TypeOK, Job, IntakeAssumption
      <3>3. job[h].mail \in Mail
        BY <2>8 DEF PublishMail, TypeOK, Job
      <3>4. queued' \in [Mail -> Nat]
        BY <3>3, <2>8 DEF PublishMail, TypeOK
      <3> QED
        BY <3>1, <3>2, <3>4, <2>8 DEF PublishMail, TypeOK, gmail, tables, faults, history
    <2>9. CASE Ack(h)
      <3>1. job' \in [Handler -> Job]
        BY <2>9, InitialRecords DEF Ack, TypeOK
      <3>2. \A g \in Handler : job'[g].pc \in {"save", "publish"} => job'[g].mail # None
        BY <2>9 DEF Ack, TypeOK, Idle
      <3> QED
        BY <3>1, <3>2, <2>9 DEF Ack, TypeOK, gmail, tables, faults, history
    <2> QED
      BY <1>9, <2>1, <2>2, <2>3, <2>4, <2>5, <2>6, <2>7, <2>8, <2>9 DEF HandlerStep
  <1>10. CASE UNCHANGED vars
    BY <1>10 DEF vars, gmail, tables, faults, history, TypeOK
  <1> QED
    BY <1>1, <1>2, <1>3, <1>4, <1>5, <1>6, <1>7, <1>8, <1>9, <1>10 DEF Next

LEMMA InitTypes == Init => TypeOK
  <1> SUFFICES ASSUME Init PROVE TypeOK
    OBVIOUS
  <1>1. Cardinality(Mail) \in Nat /\ 0 \in HistoryId /\ MaxErrands \in Nat
    BY IntakeAssumption, FS_CardinalityType DEF IntakeAssumption, HistoryId
  <1>2. grant \in Consent
    BY <1>1 DEF Init, Consent
  <1>3. /\ arrived \in [Mail -> HistoryId]
        /\ stored \in [Mail -> Nat] /\ queued \in [Mail -> Nat]
    BY <1>1 DEF Init
  <1>4. /\ job \in [Handler -> Job] /\ errand \in [Clerk -> Errand]
        /\ connector \in Connector
        /\ \A h \in Handler : job[h].pc \in {"save", "publish"} => job[h].mail # None
    BY InitialRecords DEF Init, Idle
  <1>5. /\ expiries \in 0 .. MaxExpiries /\ duplicates \in 0 .. MaxDuplicates
        /\ crashes \in 0 .. MaxCrashes /\ errands \in 0 .. MaxErrands
    BY IntakeAssumption DEF Init, IntakeAssumption
  <1> QED
    BY <1>2, <1>3, <1>4, <1>5 DEF Init, TypeOK

\* Every reachable state of the intake has the types declared for it: history
\* ids stay within the mailbox, and a handler that is to save or to queue a
\* message has one.
THEOREM TypeCorrect == Spec => []TypeOK
  BY InitTypes, TypeStep, PTL DEF Spec

-----------------------------------------------------------------------------
(* The cursor covers the mail.  The rows handlers and clerks have read are   *)
(* saved later as they are, so that their cursors must be covered as well;   *)
(* and no announcement tells of a history id the mailbox has not reached.    *)

Reached(c) == c <= Cardinality(Inbox)

CursorsReached ==
  /\ Reached(connector.cursor)
  /\ \A m \in Inbox : Reached(arrived[m])
  /\ \A p \in pushes : Reached(p)
  /\ \A h \in Handler : Reached(job[h].push) /\ Reached(job[h].snap.cursor)
  /\ \A k \in Clerk : Reached(errand[k].snap.cursor)

CursorsCovered ==
  /\ Covered(connector.cursor)
  /\ \A h \in Handler :
       job[h].pc \in {"renew", "deactivate", "advance"} => Covered(job[h].snap.cursor)
  /\ \A k \in Clerk : errand[k].pc # "idle" => Covered(errand[k].snap.cursor)

CursorInv == TypeOK /\ CursorsReached /\ CursorsCovered

\* The mailbox only grows, and a new message lies above every id reached.
LEMMA InboxGrows ==
  ASSUME TypeOK, [Next]_vars
  PROVE  /\ Cardinality(Inbox) \in Nat /\ Cardinality(Inbox)' \in Nat
         /\ Cardinality(Inbox) <= Cardinality(Inbox)'
         /\ \A m \in Inbox : m \in Inbox' /\ arrived'[m] = arrived[m]
         /\ \A m \in Inbox' \ Inbox : /\ arrived'[m] = Cardinality(Inbox) + 1
                                    /\ Cardinality(Inbox)' = Cardinality(Inbox) + 1
  <1>1. Cardinality(Inbox) \in Nat
    BY NextId
  <1>2. CASE \E m \in Mail : Arrive(m)
    <2>1. PICK m \in Mail : Arrive(m)
      BY <1>2
    <2>2. arrived[m] = 0 /\ arrived' = [arrived EXCEPT ![m] = Cardinality(Inbox) + 1]
      BY <2>1 DEF Arrive
    <2>3. arrived \in [Mail -> HistoryId]
      BY DEF TypeOK
    <2>4. Inbox' = Inbox \cup {m}
      BY <2>2, <2>3, <1>1 DEF Inbox
    <2>5. Cardinality(Inbox)' = Cardinality(Inbox) + 1
      BY <2>2, <2>4, NextId
    <2>6. \A x \in Inbox : x \in Inbox' /\ arrived'[x] = arrived[x]
      BY <2>2, <2>3, <2>4 DEF Inbox
    <2>7. arrived'[m] = Cardinality(Inbox) + 1
      BY <2>2, <2>3
    <2>8. \A x \in Inbox' \ Inbox : /\ arrived'[x] = Cardinality(Inbox) + 1
                                    /\ Cardinality(Inbox)' = Cardinality(Inbox) + 1
      BY <2>4, <2>5, <2>7
    <2>9. Cardinality(Inbox)' \in Nat /\ Cardinality(Inbox) <= Cardinality(Inbox)'
      BY <2>5, <1>1
    <2> QED
      BY <2>6, <2>8, <2>9, <1>1
  <1>3. CASE arrived' = arrived
    <2>1. Inbox' = Inbox
      BY <1>3 DEF Inbox
    <2> QED
      BY <1>1, <1>3, <2>1
  <1>4. (\E m \in Mail : Arrive(m)) \/ arrived' = arrived
    BY DEF Next, Duplicate, Revoke, Expire, Crash, StartErrand, FinishErrand, Deliver,
           HandlerStep, ReadConnector, RenewToken, Deactivate, AdvanceCursor, ListMail,
           CheckMail, SaveMail, PublishMail, Ack, vars, gmail
  <1> QED
    BY <1>2, <1>3, <1>4

\* What is accounted for stays so: a message leaves a handler's charge only by
\* being stored or by being lost.
LEMMA AccountedStep ==
  ASSUME TypeOK, [Next]_vars, NEW m \in Inbox \ Own, Accounted(m)
  PROVE  Accounted(m)'
  <1> USE DEF Accounted
  <1>0. m \in Mail /\ m \in Inbox /\ m \in Inbox' /\ arrived'[m] = arrived[m]
    BY InboxGrows DEF Inbox
  <1>1. CASE job' = job /\ stored' = stored /\ lost' = lost /\ unlisted' = unlisted
    <2>1. \A h \in Handler : m \in Charge(h) => m \in Charge(h)'
      BY <1>0, <1>1 DEF Charge
    <2> QED
      BY <1>1, <2>1
  <1>2. CASE Crash
    BY <1>2 DEF Crash, tables
  <1>3. ASSUME NEW g \in Handler, NEW p \in HistoryId, Deliver(g, p) PROVE Accounted(m)'
    <2>1. \A h \in Handler : m \in Charge(h) => m \in Charge(h)'
      BY <1>0, <1>3 DEF Deliver, Charge, TypeOK
    <2> QED
      BY <2>1, <1>3 DEF Deliver, tables, history
  <1>4. ASSUME NEW g \in Handler, HandlerStep(g) PROVE Accounted(m)'
    <2>01. \A h \in Handler \ {g} : job'[h] = job[h]
      BY <1>4 DEF HandlerStep, ReadConnector, RenewToken, Deactivate, AdvanceCursor,
             ListMail, CheckMail, SaveMail, PublishMail, Ack, Goto, GiveUp, TypeOK
    <2>02. stored' = stored \/ stored' = [stored EXCEPT ![job[g].mail] = @ + 1]
      BY <1>4 DEF HandlerStep, ReadConnector, RenewToken, Deactivate, AdvanceCursor,
             ListMail, CheckMail, SaveMail, PublishMail, Ack, tables
    <2>03. \A x \in Mail : stored[x] > 0 => stored'[x] > 0
      BY <2>02 DEF TypeOK
    <2>04. lost \subseteq lost' /\ unlisted \subseteq unlisted'
      BY <1>4 DEF HandlerStep, ReadConnector, RenewToken, Deactivate, AdvanceCursor,
             ListMail, CheckMail, SaveMail, PublishMail, Ack, GiveUp, history
    <2>0. /\ \A h \in Handler \ {g} : job'[h] = job[h]
          /\ \A x \in Mail : stored[x] > 0 => stored'[x] > 0
          /\ lost \subseteq lost' /\ unlisted \subseteq unlisted'
      BY <2>01, <2>03, <2>04
    <2>1. \A h \in Handler \ {g} : m \in Charge(h) => m \in Charge(h)'
      BY <1>0, <2>0 DEF Charge
    <2>2. m \in Charge(g) => Accounted(m)'
      <3> SUFFICES ASSUME m \in Charge(g) PROVE Accounted(m)'
        OBVIOUS
      <3>1. job[g].pc \in {"list", "next", "save", "publish"}
        BY DEF Charge
      <3>2. CASE ListMail(g)
        <4> DEFINE c == job[g].snap.cursor
        <4>1. job[g].pc = "list" /\ arrived[m] > c
          BY <3>2 DEF ListMail, Charge
        <4>2. CASE m \in lost'
          BY <4>2
        <4>3. CASE m \in Unlisted(c) /\ unlisted' = unlisted \cup Unlisted(c)
          BY <4>3
        <4>4. CASE /\ m \in Listed(c)
                   /\ job' = [job EXCEPT ![g].todo = Listed(c), ![g].pc = "next"]
          BY <4>4 DEF Charge, TypeOK
        <4>5. c \in Nat /\ arrived[m] \in Nat /\ PageSize \in Nat /\ FirstSync \in Nat
              /\ Cardinality(Inbox) \in Nat
          BY <1>0, NextId, IntakeAssumption
             DEF TypeOK, Job, Connector, HistoryId, IntakeAssumption
        <4>6. m \in Listed(c) \cup Unlisted(c)
          BY <1>0, <4>1, <4>5 DEF Listed, Unlisted
        <4>7. m \in {x \in Inbox : arrived[x] > c}
          BY <1>0, <4>1
        <4> HIDE DEF c
        <4> QED
          BY <3>2, <4>2, <4>3, <4>4, <4>6, <4>7 DEF ListMail, GiveUp, c
      <3>3. CASE CheckMail(g)
        <4>1. job[g].pc = "next" /\ m \in job[g].todo
          BY <3>3 DEF CheckMail, Charge
        <4>2. CASE lost' = lost \cup job[g].todo
          BY <4>1, <4>2
        <4>3. ASSUME NEW x \in job[g].todo, Known(x) \/ x \in Own,
                     job' = [job EXCEPT ![g].todo = @ \ {x}]
              PROVE  Accounted(m)'
          <5>1. CASE x = m
            BY <1>0, <2>0, <4>3, <5>1 DEF Known
          <5>2. CASE x # m
            BY <4>1, <4>3, <5>2 DEF Charge, TypeOK
          <5> QED
            BY <5>1, <5>2
        <4>4. ASSUME NEW x \in job[g].todo,
                     job' = [job EXCEPT ![g].todo = @ \ {x}, ![g].mail = x, ![g].pc = "save"]
              PROVE  Accounted(m)'
          BY <4>1, <4>4 DEF Charge, TypeOK
        <4> QED
          BY <3>3, <4>2, <4>3, <4>4 DEF CheckMail, GiveUp
      <3>4. CASE SaveMail(g)
        BY <3>4, <1>0 DEF SaveMail, Goto, Charge, TypeOK
      <3>5. CASE PublishMail(g)
        BY <3>5, <1>0 DEF PublishMail, Charge, TypeOK
      <3>6. CASE Ack(g)
        BY <3>6, <3>1 DEF Ack, Charge
      <3> QED
        BY <1>4, <3>1, <3>2, <3>3, <3>4, <3>5, <3>6
           DEF HandlerStep, ReadConnector, RenewToken, Deactivate, AdvanceCursor
    <2> QED
      BY <2>0, <2>1, <2>2, <1>0
  <1> QED
    BY <1>1, <1>2, <1>3, <1>4 DEF Next, Arrive, Duplicate, Revoke, Expire, StartErrand,
       FinishErrand, vars, tables, history

\* A cursor that the mailbox has reached and that covers the mail goes on doing
\* so: mail that arrives later lies above it.
LEMMA CursorStep ==
  ASSUME TypeOK, [Next]_vars
  PROVE  \A c \in HistoryId :
           /\ Reached(c) => c <= Cardinality(Inbox)'
           /\ Reached(c) /\ Covered(c) =>
                \A m \in Inbox' \ Own : arrived'[m] <= c => Accounted(m)'
  <1> SUFFICES ASSUME NEW c \in HistoryId, Reached(c)
               PROVE  /\ c <= Cardinality(Inbox)'
                      /\ Covered(c) =>
                           \A m \in Inbox' \ Own : arrived'[m] <= c => Accounted(m)'
    OBVIOUS
  <1>0. c \in Nat
    BY NextId DEF HistoryId
  <1>1. c <= Cardinality(Inbox)'
    BY <1>0, InboxGrows DEF Reached
  <1>2. ASSUME Covered(c), NEW m \in Inbox' \ Own, arrived'[m] <= c PROVE Accounted(m)'
    <2>1. m \in Inbox
      BY <1>0, <1>2, InboxGrows DEF Reached
    <2>2. Accounted(m)
      BY <1>2, <2>1, InboxGrows DEF Covered
    <2> QED
      BY <2>1, <2>2, AccountedStep
  <1> QED
    BY <1>1, <1>2

\* Where the rows and announcements of the next state come from: a row saved is
\* one that was read, except that AdvanceCursor puts in the id announced.
Held(h) == job[h].pc \in {"renew", "deactivate", "advance"}

RowSaved ==
  \/ connector'.cursor = connector.cursor
  \/ \E h \in Handler : Held(h) /\ connector'.cursor = job[h].snap.cursor
  \/ \E h \in Handler : AdvanceCursor(h)
  \/ \E k \in Clerk : errand[k].pc # "idle" /\ connector'.cursor = errand[k].snap.cursor

RowRead(h) ==
  \/ job'[h].snap.cursor = connector.cursor
  \/ job'[h].snap.cursor = job[h].snap.cursor /\ (Held(h)' => Held(h))
  \/ job'[h].snap.cursor = 0 /\ ~ Held(h)'

ErrandRead(k) ==
  \/ errand'[k].snap.cursor = connector.cursor
  \/ errand'[k] = errand[k]
  \/ errand'[k].snap.cursor = 0 /\ errand'[k].pc = "idle"

LEMMA Sources ==
  ASSUME TypeOK, [Next]_vars
  PROVE  /\ RowSaved
         /\ \A h \in Handler : RowRead(h) /\ job'[h].push \in {0, job[h].push} \cup pushes
         /\ \A k \in Clerk : ErrandRead(k)
         /\ pushes' \subseteq pushes \cup {job[h].push : h \in Handler}
                             \cup {arrived'[m] : m \in Inbox'}
  <1> DEFINE
    Jobs == \A h \in Handler : RowRead(h) /\ job'[h].push \in {0, job[h].push} \cup pushes
    Errands == \A k \in Clerk : ErrandRead(k)
    Pushes == pushes' \subseteq pushes \cup {job[h].push : h \in Handler}
                                 \cup {arrived'[m] : m \in Inbox'}
  <1> SUFFICES RowSaved /\ Jobs /\ Errands /\ Pushes
    OBVIOUS
  <1>1. job' = job => Jobs
    BY DEF RowRead, Held
  <1>2. errand' = errand => Errands
    BY DEF ErrandRead
  <1>3. ASSUME NEW m \in Mail, Arrive(m) PROVE RowSaved /\ Jobs /\ Errands /\ Pushes
    <2>1. m \in Inbox' /\ arrived'[m] = Cardinality(Inbox) + 1
      BY <1>3, NextId DEF Arrive, Inbox, TypeOK
    <2>2. Pushes
      BY <1>3, <2>1 DEF Arrive
    <2> QED
      BY <1>1, <1>2, <1>3, <2>2 DEF Arrive, RowSaved, tables
  <1>4. ASSUME NEW p \in HistoryId, Duplicate(p) PROVE RowSaved /\ Jobs /\ Errands /\ Pushes
    <2>1. Pushes
      BY <1>4, InboxGrows DEF Duplicate, Inbox, TypeOK, gmail, HistoryId
    <2> QED
      BY <1>1, <1>2, <1>4, <2>1 DEF Duplicate, RowSaved, tables
  <1>5. CASE Revoke \/ Expire
    BY <1>1, <1>2, <1>5 DEF Revoke, Expire, RowSaved, TypeOK, Connector, tables
  <1>6. CASE Crash
    <2>1. Jobs /\ Errands
      BY <1>6 DEF Crash, RowRead, ErrandRead, Held, Idle, NoErrand, NewConnector
    <2>2. Pushes
      BY <1>6 DEF Crash
    <2> QED
      BY <1>6, <2>1, <2>2 DEF Crash, RowSaved, tables
  <1>7. ASSUME NEW k \in Clerk, StartErrand(k) PROVE RowSaved /\ Jobs /\ Errands /\ Pushes
    <2>1. Errands
      BY <1>7 DEF StartErrand, ErrandRead, TypeOK, Connector
    <2> QED
      BY <1>1, <1>7, <2>1 DEF StartErrand, RowSaved, tables
  <1>8. ASSUME NEW k \in Clerk, FinishErrand(k) PROVE RowSaved /\ Jobs /\ Errands /\ Pushes
    <2>1. Errands
      BY <1>8 DEF FinishErrand, ErrandRead, TypeOK, NoErrand, NewConnector
    <2>2. RowSaved
      BY <1>8 DEF FinishErrand, Renewed, RowSaved, TypeOK, Errand, Connector
    <2> QED
      BY <1>1, <1>8, <2>1, <2>2 DEF FinishErrand
  <1>9. ASSUME NEW h \in Handler, NEW p \in HistoryId, Deliver(h, p)
        PROVE  RowSaved /\ Jobs /\ Errands /\ Pushes
    <2>1. Jobs
      BY <1>9 DEF Deliver, RowRead, Held, TypeOK, Idle, NewConnector
    <2> QED
      BY <1>2, <1>9, <2>1 DEF Deliver, RowSaved, tables
  <1>10. ASSUME NEW h \in Handler, HandlerStep(h)
         PROVE  RowSaved /\ Jobs /\ Errands /\ Pushes
    <2>1. Errands /\ Pushes
      BY <1>2, <1>10 DEF HandlerStep, ReadConnector, RenewToken, Deactivate, AdvanceCursor,
         ListMail, CheckMail, SaveMail, PublishMail, Ack
    <2>2. RowSaved
      <3>1. CASE RenewToken(h)
        BY <3>1 DEF RenewToken, Renewed, RowSaved, Held, TypeOK, Job, Connector
      <3>2. CASE Deactivate(h)
        BY <3>2 DEF Deactivate, RowSaved, Held, TypeOK, Job, Connector
      <3>3. CASE AdvanceCursor(h)
        BY <3>3 DEF RowSaved
      <3>4. CASE connector' = connector
        BY <3>4 DEF RowSaved
      <3> QED
        BY <1>10, <3>1, <3>2, <3>3, <3>4 DEF HandlerStep, ReadConnector, ListMail, CheckMail,
           SaveMail, PublishMail, Ack, tables
    <2>3. Jobs
      <3>0. \A g \in Handler \ {h} : job'[g] = job[g]
        BY <1>10 DEF HandlerStep, ReadConnector, RenewToken, Deactivate, AdvanceCursor,
           ListMail, CheckMail, SaveMail, PublishMail, Ack, Goto, GiveUp, TypeOK
      <3>1. CASE ReadConnector(h)
        <4>1. \/ job'[h].snap = connector
              \/ job'[h].snap = job[h].snap /\ job'[h].pc = "done"
          BY <3>1 DEF ReadConnector, Goto, TypeOK, Job
        <4>2. job'[h].push = job[h].push
          BY <3>1 DEF ReadConnector, Goto, TypeOK, Job
        <4> QED
          BY <3>0, <4>1, <4>2 DEF RowRead, Held
      <3>2. CASE RenewToken(h)
        BY <3>2 DEF RenewToken, Renewed, RowRead, Held, TypeOK, Job, Connector
      <3>3. CASE Deactivate(h) \/ AdvanceCursor(h)
        <4>1. job'[h].snap = job[h].snap /\ job'[h].push = job[h].push /\ ~ Held(h)'
          BY <3>3 DEF Deactivate, AdvanceCursor, Goto, TypeOK, Job, Held
        <4> QED
          BY <3>0, <4>1 DEF RowRead, Held
      <3>4. CASE ListMail(h) \/ CheckMail(h)
        <4>0. job[h] \in Job
          BY DEF TypeOK
        <4>1. CASE ListMail(h)
          BY <4>0, <4>1, <3>0 DEF ListMail, GiveUp, Goto, TypeOK, Job, RowRead, Held
        <4>2. ASSUME NEW x \in Mail, NEW y \in {job[h].pc, "save"}, job[h].pc = "next",
                     job' = [job EXCEPT ![h].todo = @ \ {x}, ![h].mail = x, ![h].pc = y]
              PROVE  Jobs
          BY <4>0, <4>2, <3>0 DEF TypeOK, Job, RowRead, Held
        <4>3. CASE \E x \in Mail : job' = [job EXCEPT ![h].todo = @ \ {x}]
          BY <4>0, <4>3, <3>0 DEF TypeOK, Job, RowRead, Held
        <4>4. CASE Goto(h, "done")
          BY <4>0, <4>4, <3>0 DEF Goto, TypeOK, Job, RowRead, Held
        <4>5. job[h].todo \subseteq Mail
          BY <4>0 DEF Job
        <4> HIDE DEF Jobs
        <4> QED
          BY <3>4, <4>1, <4>2, <4>3, <4>4, <4>5 DEF CheckMail, GiveUp
      <3>5. CASE SaveMail(h) \/ PublishMail(h)
        <4>1. job'[h].snap = job[h].snap /\ job'[h].push = job[h].push /\ ~ Held(h)'
          BY <3>5 DEF SaveMail, PublishMail, Goto, TypeOK, Job, Held
        <4> QED
          BY <3>0, <4>1 DEF RowRead, Held
      <3>6. CASE Ack(h)
        BY <3>6 DEF Ack, RowRead, Held, TypeOK, Idle, NewConnector
      <3> QED
        BY <1>10, <3>1, <3>2, <3>3, <3>4, <3>5, <3>6 DEF HandlerStep
    <2> QED
      BY <2>1, <2>2, <2>3
  <1>11. CASE UNCHANGED vars
    BY <1>1, <1>2, <1>11 DEF vars, tables, RowSaved
  <1> HIDE DEF Jobs, Errands, Pushes
  <1> QED
    BY <1>3, <1>4, <1>5, <1>6, <1>7, <1>8, <1>9, <1>10, <1>11 DEF Next

LEMMA CursorInvStep == CursorInv /\ [Next]_vars => CursorInv'
  <1> SUFFICES ASSUME CursorInv, [Next]_vars PROVE CursorInv'
    OBVIOUS
  <1> USE DEF CursorInv
  <1>1. TypeOK /\ TypeOK'
    BY TypeStep
  <1>2. \A c \in HistoryId : Reached(c) => c <= Cardinality(Inbox)'
    BY <1>1, CursorStep
  <1>3. \A c \in HistoryId : Reached(c) /\ Covered(c) =>
          \A m \in Inbox' \ Own : arrived'[m] <= c => Accounted(m)'
    BY <1>1, CursorStep
  <1>4. /\ connector.cursor \in HistoryId /\ connector'.cursor \in HistoryId
        /\ \A h \in Handler : job[h].push \in HistoryId /\ job[h].snap.cursor \in HistoryId
        /\ \A k \in Clerk : errand[k].snap.cursor \in HistoryId
        /\ \A p \in pushes : p \in HistoryId
        /\ 0 \in HistoryId
    BY <1>1, NextId DEF TypeOK, Connector, Job, Errand, HistoryId
  <1>5. CursorsReached'
    <2>0. Cardinality(Inbox)' \in Nat /\ 0 <= Cardinality(Inbox)'
      BY <1>1, InboxGrows
    <2>6. \A m \in Inbox' : arrived'[m] <= Cardinality(Inbox)'
      <3>1. \A m \in Inbox : arrived[m] \in Nat /\ arrived[m] <= Cardinality(Inbox)
        BY <1>1, NextId DEF CursorsReached, Reached, TypeOK, HistoryId, Inbox
      <3> QED
        BY <1>1, <3>1, InboxGrows
    <2>1. \A p \in pushes' : p <= Cardinality(Inbox)'
      <3>1. \A p \in pushes \cup {job[h].push : h \in Handler} : p <= Cardinality(Inbox)'
        BY <1>2, <1>4 DEF CursorsReached
      <3> QED
        BY <1>1, <2>6, <3>1, Sources
    <2>2. \A h \in Handler : job'[h].push <= Cardinality(Inbox)'
      BY <1>1, <1>2, <1>4, <2>0, Sources DEF CursorsReached
    <2>3. \A h \in Handler : job'[h].snap.cursor <= Cardinality(Inbox)'
      BY <1>1, <1>2, <1>4, <2>0, Sources DEF CursorsReached, RowRead
    <2>4. \A k \in Clerk : errand'[k].snap.cursor <= Cardinality(Inbox)'
      BY <1>1, <1>2, <1>4, <2>0, Sources DEF CursorsReached, ErrandRead
    <2>5. connector'.cursor <= Cardinality(Inbox)'
      <3>1. CASE \E h \in Handler : AdvanceCursor(h)
        BY <1>2, <1>4, <3>1 DEF AdvanceCursor, CursorsReached, TypeOK, Job, Connector
      <3> QED
        BY <1>1, <1>2, <1>4, <3>1, Sources DEF CursorsReached, RowSaved
    <2> QED
      BY <2>1, <2>2, <2>3, <2>4, <2>5, <2>6 DEF CursorsReached, Reached
  <1>6. CursorsCovered'
    <2> DEFINE Holds(c) == \A m \in Inbox' \ Own : arrived'[m] <= c => Accounted(m)'
    <2>0. \A c \in HistoryId : Reached(c) /\ Covered(c) => Holds(c)
      BY <1>3
    <2> HIDE DEF Holds
    <2>1. \A h \in Handler : Held(h)' => Holds(job'[h].snap.cursor)
      BY <1>1, <1>4, <2>0, Sources DEF CursorsReached, CursorsCovered, RowRead, Held
    <2>2. \A k \in Clerk : errand'[k].pc # "idle" => Holds(errand'[k].snap.cursor)
      BY <1>1, <1>4, <2>0, Sources DEF CursorsReached, CursorsCovered, ErrandRead
    <2>3. Holds(connector'.cursor)
      <3>1. ASSUME NEW h \in Handler, AdvanceCursor(h) PROVE Holds(connector'.cursor)
        <4>1. /\ Held(h) /\ connector'.cursor = job[h].push
              /\ job'[h].pc = "list" /\ job'[h].snap = job[h].snap /\ arrived' = arrived
          BY <3>1 DEF AdvanceCursor, Held, Goto, TypeOK, Job, Connector, gmail
        <4>2. Holds(job[h].snap.cursor)
          BY <1>4, <2>0, <4>1 DEF CursorsReached, CursorsCovered, Held
        <4>3. \A m \in Inbox' : arrived'[m] > job[h].snap.cursor => Accounted(m)'
          BY <4>1 DEF Accounted, Charge, Inbox
        <4>4. \A m \in Inbox' : arrived'[m] \in Nat /\ job[h].snap.cursor \in Nat
          BY <1>1, <1>4, NextId DEF TypeOK, HistoryId, Inbox
        <4> QED
          BY <4>2, <4>3, <4>4 DEF Holds
      <3> QED
        BY <1>1, <1>4, <2>0, <3>1, Sources DEF CursorsReached, CursorsCovered, RowSaved, Held
    <2> QED
      BY <2>1, <2>2, <2>3 DEF CursorsCovered, Covered, Held, Holds
  <1> QED
    BY <1>1, <1>5, <1>6

\* At first the mailbox is empty.
LEMMA InitCursor == Init => CursorInv
  <1> SUFFICES ASSUME Init PROVE CursorInv
    OBVIOUS
  <1>1. TypeOK
    BY InitTypes
  <1>2. Inbox = {}
    BY DEF Init, Inbox
  <1>3. CursorsReached
    BY <1>1, <1>2, FS_EmptySet DEF Init, CursorsReached, Reached, Idle, NoErrand,
                                   NewConnector
  <1>4. CursorsCovered
    BY <1>2 DEF CursorsCovered, Covered
  <1> QED
    BY <1>1, <1>3, <1>4 DEF CursorInv

\* The cursor of a connector never runs ahead of the mail that is stored, in a
\* handler's charge or known to be lost, for any mailbox, any number of
\* concurrent announcements and any interleaving with the other code that
\* saves the connector.
THEOREM CursorCorrect == Spec => []CursorCoversMail
  <1>1. Init => CursorInv
    BY InitCursor
  <1>2. CursorInv => CursorCoversMail
    BY DEF CursorInv, CursorsCovered, CursorCoversMail
  <1> QED
    BY <1>1, <1>2, CursorInvStep, PTL DEF Spec

-----------------------------------------------------------------------------
(* No mail slips through: an announcement leads to a listing, which starts at *)
(* a cursor that covers the mail before it.                                  *)

Early(h) == job[h].pc \in {"read", "renew", "deactivate", "advance"}

\* A message is accounted for, or somebody is still to be told of it.
InSight(m) ==
  \/ Accounted(m)
  \/ \E p \in pushes : arrived[m] <= p
  \/ \E h \in Handler : Early(h) /\ arrived[m] <= job[h].push
  \/ m \in unheeded

\* A handler that is told of a message lists it, finds the connector inactive,
\* or was told after a cursor had already covered it.
LEMMA EarlyStep ==
  ASSUME CursorInv, [Next]_vars, NEW m \in Inbox \ Own, NEW h \in Handler,
         Early(h), arrived[m] <= job[h].push, HandlerStep(h)
  PROVE  InSight(m)'
  <1> USE DEF CursorInv
  <1>0. /\ m \in Mail /\ m \in Inbox /\ m \in Inbox' /\ arrived'[m] = arrived[m]
        /\ job[h] \in Job
    BY InboxGrows DEF Inbox, TypeOK
  <1>1. CASE ReadConnector(h)
    <2>1. CASE job' = [job EXCEPT ![h].snap = connector,
                                  ![h].pc = IF connector.token = "expiring"
                                            THEN "renew" ELSE "advance"]
      <3>1. job'[h].push = job[h].push /\ job'[h].pc \in {"renew", "advance"}
        BY <1>0, <2>1 DEF TypeOK, Job
      <3> QED
        BY <1>0, <3>1 DEF InSight, Early
    <2>2. CASE unheeded' = unheeded \cup Announced(job[h].push)
      BY <1>0, <2>2 DEF Announced, InSight
    <2> QED
      BY <1>1, <2>1, <2>2 DEF ReadConnector
  <1>2. CASE RenewToken(h)
    <2>1. job'[h].push = job[h].push /\ job'[h].pc \in {"advance", "deactivate"}
      BY <1>0, <1>2 DEF RenewToken, TypeOK, Job
    <2> QED
      BY <1>0, <2>1 DEF InSight, Early
  <1>3. CASE Deactivate(h)
    BY <1>0, <1>3 DEF Deactivate, Announced, InSight
  <1>4. CASE AdvanceCursor(h)
    <2>1. job'[h].pc = "list" /\ job'[h].snap = job[h].snap
      BY <1>0, <1>4 DEF AdvanceCursor, Goto, TypeOK, Job
    <2>2. CASE arrived[m] <= job[h].snap.cursor
      <3>1. Accounted(m)
        BY <1>4, <2>2 DEF AdvanceCursor, CursorsCovered, Covered
      <3> QED
        BY <3>1, AccountedStep DEF InSight
    <2>3. CASE arrived[m] > job[h].snap.cursor
      BY <1>0, <2>1, <2>3 DEF InSight, Accounted, Charge
    <2>4. arrived[m] \in Nat /\ job[h].snap.cursor \in Nat
      BY <1>0, NextId DEF TypeOK, Job, Connector, HistoryId
    <2> QED
      BY <2>2, <2>3, <2>4
  <1> QED
    BY <1>1, <1>2, <1>3, <1>4 DEF HandlerStep, Early, ListMail, CheckMail, SaveMail, PublishMail, Ack

\* Every action keeps the mail in sight.
LEMMA InSightStep ==
  ASSUME CursorInv, [Next]_vars, \A m \in Inbox \ Own : InSight(m)
  PROVE  \A m \in Inbox' \ Own : InSight(m)'
  <1> SUFFICES ASSUME NEW m \in Inbox' \ Own PROVE InSight(m)'
    OBVIOUS
  <1>0. TypeOK /\ TypeOK'
    BY TypeStep DEF CursorInv
  <1>1. ASSUME NEW x \in Mail, Arrive(x), m \notin Inbox PROVE InSight(m)'
    <2>1. /\ arrived'[m] = Cardinality(Inbox) + 1 /\ Cardinality(Inbox) \in Nat
          /\ pushes' = pushes \cup {Cardinality(Inbox) + 1}
      BY <1>0, <1>1, InboxGrows DEF Arrive
    <2> QED
      BY <2>1 DEF InSight
  <1>2. CASE m \in Inbox
    <2>0. /\ InSight(m) /\ m \in Inbox \ Own /\ m \in Mail /\ arrived'[m] = arrived[m]
      BY <1>0, <1>2, InboxGrows DEF Inbox
    <2>1. CASE Accounted(m)
      BY <1>0, <2>0, <2>1, AccountedStep DEF InSight
    <2>2. CASE m \in unheeded
      <3>1. unheeded \subseteq unheeded'
        BY DEF Next, Arrive, Duplicate, Revoke, Expire, Crash, StartErrand, FinishErrand,
               Deliver, HandlerStep, ReadConnector, RenewToken, Deactivate, AdvanceCursor,
               ListMail, CheckMail, SaveMail, PublishMail, Ack, vars, history
      <3> QED
        BY <2>2, <3>1 DEF InSight
    <2>3. ASSUME NEW p \in pushes, arrived[m] <= p PROVE InSight(m)'
      <3>1. CASE p \in pushes'
        BY <2>0, <2>3, <3>1 DEF InSight
      <3>2. ASSUME NEW g \in Handler, NEW q \in HistoryId, Deliver(g, q), q = p
            PROVE  InSight(m)'
        <4>1. job'[g].pc = "read" /\ job'[g].push = p
          BY <1>0, <3>2 DEF Deliver, TypeOK, Idle
        <4> QED
          BY <2>0, <2>3, <4>1 DEF InSight, Early
      <3>3. p \in pushes' \/ \E g \in Handler, q \in HistoryId : Deliver(g, q) /\ q = p
        BY DEF Next, Arrive, Duplicate, Revoke, Expire, Crash, StartErrand, FinishErrand,
               Deliver, HandlerStep, ReadConnector, RenewToken, Deactivate, AdvanceCursor,
               ListMail, CheckMail, SaveMail, PublishMail, Ack, vars
      <3> QED
        BY <3>1, <3>2, <3>3
    <2>4. ASSUME NEW h \in Handler, Early(h), arrived[m] <= job[h].push PROVE InSight(m)'
      <3>1. CASE job'[h] = job[h]
        BY <2>0, <2>4, <3>1 DEF InSight, Early
      <3>2. CASE Crash
        <4>1. job[h].push \in pushes'
          BY <2>4, <3>2 DEF Crash, Early
        <4> QED
          BY <2>0, <2>4, <4>1 DEF InSight
      <3>3. CASE HandlerStep(h)
        BY <2>0, <2>4, <3>3, EarlyStep
      <3>4. ASSUME NEW g \in Handler, g # h, HandlerStep(g) PROVE job'[h] = job[h]
        BY <1>0, <3>4 DEF HandlerStep, ReadConnector, RenewToken, Deactivate, AdvanceCursor,
           ListMail, CheckMail, SaveMail, PublishMail, Ack, Goto, GiveUp, TypeOK
      <3>5. ASSUME NEW g \in Handler, NEW q \in HistoryId, Deliver(g, q) PROVE job'[h] = job[h]
        BY <1>0, <2>4, <3>5 DEF Deliver, Early, TypeOK
      <3> QED
        BY <3>1, <3>2, <3>3, <3>4, <3>5
           DEF Next, Arrive, Duplicate, Revoke, Expire, StartErrand, FinishErrand, vars
    <2> QED
      BY <2>0, <2>1, <2>2, <2>3, <2>4 DEF InSight
  <1>3. m \in Inbox \/ \E x \in Mail : Arrive(x)
    BY DEF Inbox, Next, Duplicate, Revoke, Expire, Crash, StartErrand, FinishErrand, Deliver,
           HandlerStep, ReadConnector, RenewToken, Deactivate, AdvanceCursor, ListMail,
           CheckMail, SaveMail, PublishMail, Ack, vars, gmail
  <1> QED
    BY <1>1, <1>2, <1>3

\* However announcements are delayed, reordered, repeated and handled at once,
\* every message in the mailbox is stored, in somebody's charge, still to be
\* told of, or known to be lost.
THEOREM NothingSlipsThrough == Spec => []NoMailSlipsThrough
  <1> DEFINE Inv == CursorInv /\ \A m \in Inbox \ Own : InSight(m)
  <1>1. Init => Inv
    BY InitCursor DEF Init, Inbox
  <1>2. Inv /\ [Next]_vars => Inv'
    BY CursorInvStep, InSightStep
  <1>3. Inv => NoMailSlipsThrough
    BY DEF InSight, Accounted, NoMailSlipsThrough, Announced, Early
  <1> QED
    BY <1>1, <1>2, <1>3, PTL DEF Spec

-----------------------------------------------------------------------------
(* Mail is stored once: outside of a contest one handler at most has listed a *)
(* message, and what it is about to store or to queue is not so yet.          *)

Has(h, m) == m \in job[h].todo \/ (job[h].pc = "save" /\ job[h].mail = m)
Publishes(h, m) == job[h].pc = "publish" /\ job[h].mail = m

Once(m) ==
  /\ stored[m] <= 1 /\ queued[m] <= stored[m]
  /\ \A g, h \in Handler : Has(g, m) /\ Has(h, m) => g = h
  /\ \A h \in Handler : job[h].pc = "save" /\ job[h].mail = m => stored[m] = 0 /\ m \notin job[h].todo
  /\ \A h \in Handler : Publishes(h, m) => stored[m] = 1 /\ queued[m] = 0
  /\ \A g, h \in Handler : Publishes(g, m) /\ Publishes(h, m) => g = h

\* Where nothing is stored, queued, listed or about to be published.
LEMMA OnceKept ==
  ASSUME NEW m \in Mail, Once(m), stored'[m] = stored[m], queued'[m] = queued[m],
         \A h \in Handler : Has(h, m)' => Has(h, m),
         \A h \in Handler : job'[h].pc = "save" /\ job'[h].mail = m =>
                              stored[m] = 0 /\ m \notin job'[h].todo,
         \A h \in Handler : Publishes(h, m)' => Publishes(h, m)
  PROVE  Once(m)'
  BY DEF Once

\* Every step of a handler stores and queues a message at most once, unless it
\* contests the message.
LEMMA OnceHandler ==
  ASSUME TypeOK, NEW g \in Handler, HandlerStep(g), NEW m \in Mail \ contested', Once(m)
  PROVE  Once(m)'
  <1>0. /\ job[g] \in Job /\ m \in Mail
        /\ stored[m] \in Nat /\ queued[m] \in Nat
    BY DEF TypeOK
  <1>1. \A h \in Handler \ {g} : job'[h] = job[h]
    BY DEF HandlerStep, ReadConnector, RenewToken, Deactivate, AdvanceCursor,
       ListMail, CheckMail, SaveMail, PublishMail, Ack, Goto, GiveUp, TypeOK
  <1>2. ASSUME stored' = stored, queued' = queued, job'[g].pc \notin {"save", "publish"},
               job'[g].todo \subseteq job[g].todo
        PROVE  Once(m)'
    <2>1. \A h \in Handler : Has(h, m)' => Has(h, m)
      BY <1>1, <1>2 DEF Has
    <2>2. \A h \in Handler : job'[h].pc = "save" /\ job'[h].mail = m =>
                               stored[m] = 0 /\ m \notin job'[h].todo
      BY <1>1, <1>2 DEF Once
    <2>3. \A h \in Handler : Publishes(h, m)' => Publishes(h, m)
      BY <1>1, <1>2 DEF Publishes
    <2> QED
      BY <1>2, <2>1, <2>2, <2>3, OnceKept
  <1>3. CASE ReadConnector(g) \/ RenewToken(g) \/ Deactivate(g) \/ AdvanceCursor(g)
    <2>1. stored' = stored /\ queued' = queued
      BY <1>3 DEF ReadConnector, RenewToken, Deactivate, AdvanceCursor, tables
    <2>2. job'[g].pc \notin {"save", "publish"} /\ job'[g].todo = job[g].todo
      BY <1>0, <1>3 DEF ReadConnector, RenewToken, Deactivate, AdvanceCursor, Goto, TypeOK, Job
    <2> QED
      BY <1>2, <2>1, <2>2
  <1>4. CASE ListMail(g)
    <2>1. stored' = stored /\ queued' = queued
      BY <1>4 DEF ListMail, tables
    <2>2. CASE GiveUp(g, {x \in Inbox : arrived[x] > job[g].snap.cursor})
      <3>1. job'[g].pc = "done" /\ job'[g].todo = job[g].todo
        BY <1>0, <2>2 DEF GiveUp, Goto, TypeOK, Job
      <3> QED
        BY <1>2, <2>1, <3>1
    <2>3. ASSUME job' = [job EXCEPT ![g].todo = Listed(job[g].snap.cursor), ![g].pc = "next"],
                 contested' = contested \cup (Listed(job[g].snap.cursor) \cap InOtherHands(g))
          PROVE  Once(m)'
      <3>1. job'[g].pc = "next" /\ job'[g].todo = Listed(job[g].snap.cursor)
        BY <1>0, <2>3 DEF TypeOK, Job
      <3>2. m \in Listed(job[g].snap.cursor) => \A h \in Handler \ {g} : ~ Has(h, m)
        BY <2>3 DEF InOtherHands, Has
      <3>3. \A h \in Handler \ {g} : Has(h, m)' <=> Has(h, m)
        BY <1>1 DEF Has
      <3>4. Has(g, m)' <=> m \in Listed(job[g].snap.cursor)
        BY <3>1 DEF Has
      <3>5. \A h, k \in Handler : Has(h, m)' /\ Has(k, m)' => h = k
        BY <3>2, <3>3, <3>4 DEF Once
      <3>6. \A h \in Handler : Publishes(h, m)' => Publishes(h, m)
        BY <1>1, <3>1 DEF Publishes
      <3>7. \A h \in Handler : job'[h].pc = "save" /\ job'[h].mail = m =>
                                 stored[m] = 0 /\ m \notin job'[h].todo
        BY <1>1, <3>1 DEF Once
      <3> QED
        BY <2>1, <3>5, <3>6, <3>7 DEF Once
    <2> QED
      BY <1>4, <2>2, <2>3 DEF ListMail
  <1>5. CASE CheckMail(g)
    <2>1. stored' = stored /\ queued' = queued
      BY <1>5 DEF CheckMail, tables
    <2>2. ASSUME NEW x \in job[g].todo, job' = [job EXCEPT ![g].todo = @ \ {x}]
          PROVE  Once(m)'
      <3>1. job'[g].pc = "next" /\ job'[g].todo = job[g].todo \ {x}
        BY <1>0, <1>5, <2>2 DEF CheckMail, TypeOK, Job
      <3> QED
        BY <1>2, <2>1, <3>1
    <2>3. ASSUME NEW x \in job[g].todo, ~ Known(x),
                 job' = [job EXCEPT ![g].todo = @ \ {x}, ![g].mail = x, ![g].pc = "save"]
          PROVE  Once(m)'
      <3>1. job'[g].pc = "save" /\ job'[g].mail = x /\ job'[g].todo = job[g].todo \ {x}
        BY <1>0, <2>3 DEF TypeOK, Job
      <3>2. \A h \in Handler : Has(h, m)' => Has(h, m)
        BY <1>1, <2>3, <3>1 DEF Has
      <3>3. \A h \in Handler : Publishes(h, m)' => Publishes(h, m)
        BY <1>1, <3>1 DEF Publishes
      <3>4. \A h \in Handler : job'[h].pc = "save" /\ job'[h].mail = m =>
                                 stored[m] = 0 /\ m \notin job'[h].todo
        <4>1. ASSUME x = m PROVE stored[m] = 0 /\ m \notin job'[g].todo
          <5>1. ~ (stored[m] > 0)
            BY <2>3, <4>1 DEF Known
          <5> QED
            BY <1>0, <3>1, <4>1, <5>1
        <4>2. \A h \in Handler \ {g} : job'[h].pc = "save" /\ job'[h].mail = m =>
                                       stored[m] = 0 /\ m \notin job'[h].todo
          BY <1>1 DEF Once
        <4> QED
          BY <3>1, <4>1, <4>2
      <3> QED
        BY <2>1, <3>2, <3>3, <3>4, OnceKept
    <2>4. CASE GiveUp(g, job[g].todo)
      <3>1. job'[g].pc = "done" /\ job'[g].todo = job[g].todo
        BY <1>0, <2>4 DEF GiveUp, Goto, TypeOK, Job
      <3> QED
        BY <1>2, <2>1, <3>1
    <2> QED
      BY <1>5, <2>2, <2>3, <2>4 DEF CheckMail
  <1>6. CASE SaveMail(g)
    <2>1. /\ job[g].pc = "save" /\ job'[g].pc = "publish" /\ job'[g].mail = job[g].mail
          /\ job'[g].todo = job[g].todo /\ queued' = queued
          /\ stored'[m] = IF job[g].mail = m THEN stored[m] + 1 ELSE stored[m]
      BY <1>0, <1>6 DEF SaveMail, Goto, TypeOK, Job
    <2>2. CASE job[g].mail # m
      <3>1. \A h \in Handler : Has(h, m)' => Has(h, m)
        BY <1>1, <2>1 DEF Has
      <3>2. \A h \in Handler : Publishes(h, m)' => Publishes(h, m)
        BY <1>1, <2>1, <2>2 DEF Publishes
      <3>3. \A h \in Handler : job'[h].pc = "save" /\ job'[h].mail = m =>
                                 stored[m] = 0 /\ m \notin job'[h].todo
        BY <1>1, <2>1 DEF Once
      <3> QED
        BY <2>1, <2>2, <3>1, <3>2, <3>3, OnceKept
    <2>3. CASE job[g].mail = m
      <3>1. stored[m] = 0 /\ queued[m] = 0 /\ m \notin job[g].todo
        BY <1>0, <2>1, <2>3 DEF Once
      <3>2. \A h \in Handler \ {g} : ~ Has(h, m) /\ ~ Publishes(h, m)
        BY <2>1, <2>3, <3>1 DEF Once, Has
      <3>3. \A h \in Handler : ~ Has(h, m)'
        BY <1>1, <2>1, <3>1, <3>2 DEF Has
      <3>4. \A h \in Handler : job'[h].pc = "save" /\ job'[h].mail = m => FALSE
        BY <3>3 DEF Has
      <3>5. \A h \in Handler : Publishes(h, m)' => h = g
        BY <1>1, <3>2 DEF Publishes
      <3>6. stored'[m] = 1 /\ queued'[m] = 0
        BY <2>1, <2>3, <3>1
      <3> QED
        BY <3>3, <3>4, <3>5, <3>6 DEF Once
    <2> QED
      BY <2>2, <2>3
  <1>7. CASE PublishMail(g)
    <2>1. /\ job[g].pc = "publish" /\ job'[g].pc = "next" /\ job'[g].todo = job[g].todo
          /\ stored' = stored
          /\ queued'[m] = IF job[g].mail = m THEN queued[m] + 1 ELSE queued[m]
      BY <1>0, <1>7 DEF PublishMail, TypeOK, Job, tables
    <2>2. /\ \A h \in Handler : Has(h, m)' => Has(h, m)
          /\ \A h \in Handler : job'[h].pc = "save" /\ job'[h].mail = m =>
                                  stored[m] = 0 /\ m \notin job'[h].todo
          /\ \A h \in Handler : Publishes(h, m)' => Publishes(h, m) /\ h # g
      BY <1>1, <2>1 DEF Has, Once, Publishes
    <2>3. CASE job[g].mail # m
      BY <2>1, <2>2, <2>3, OnceKept
    <2>4. CASE job[g].mail = m
      <3>1. stored[m] = 1 /\ queued[m] = 0 /\ Publishes(g, m)
        BY <2>1, <2>4 DEF Once, Publishes
      <3>2. \A h \in Handler : ~ Publishes(h, m)'
        BY <2>2, <3>1 DEF Once
      <3>3. \A h, k \in Handler : Has(h, m)' /\ Has(k, m)' => h = k
        BY <2>2 DEF Once
      <3>4. stored'[m] = 1 /\ queued'[m] = 1
        BY <2>1, <2>4, <3>1
      <3> QED
        BY <2>1, <2>2, <3>2, <3>3, <3>4 DEF Once
    <2> QED
      BY <2>3, <2>4
  <1>8. CASE Ack(g)
    <2>1. job'[g] = Idle /\ stored' = stored /\ queued' = queued
      BY <1>8 DEF Ack, TypeOK, tables
    <2> QED
      BY <1>2, <2>1 DEF Idle
  <1> QED
    BY <1>3, <1>4, <1>5, <1>6, <1>7, <1>8 DEF HandlerStep

\* Every action keeps it so, and what was contested stays contested.
LEMMA OnceStep ==
  ASSUME TypeOK, [Next]_vars, \A m \in Mail \ contested : Once(m)
  PROVE  \A m \in Mail \ contested' : Once(m)'
  <1> SUFFICES ASSUME NEW m \in Mail \ contested' PROVE Once(m)'
    OBVIOUS
  <1>0. m \in Mail \ contested /\ Once(m)
    <2>1. contested \subseteq contested'
      BY DEF Next, Arrive, Duplicate, Revoke, Expire, Crash, StartErrand, FinishErrand,
             Deliver, HandlerStep, ReadConnector, RenewToken, Deactivate, AdvanceCursor,
             ListMail, CheckMail, SaveMail, PublishMail, Ack, GiveUp, vars, history
    <2> QED
      BY <2>1
  <1>1. CASE job' = job /\ stored' = stored /\ queued' = queued
    BY <1>0, <1>1 DEF Once, Has, Publishes
  <1>2. CASE Crash
    <2>1. stored' = stored /\ queued' = queued /\ \A h \in Handler : job'[h] = Idle
      BY <1>2 DEF Crash, tables
    <2> QED
      BY <1>0, <2>1, OnceKept DEF Idle, Has, Publishes
  <1>3. ASSUME NEW g \in Handler, NEW p \in HistoryId, Deliver(g, p) PROVE Once(m)'
    <2>1. /\ stored' = stored /\ queued' = queued
          /\ \A h \in Handler \ {g} : job'[h] = job[h]
          /\ job'[g].todo = {} /\ job'[g].pc = "read"
      BY <1>3 DEF Deliver, TypeOK, Idle, tables
    <2>2. \A h \in Handler : Has(h, m)' => Has(h, m)
      BY <2>1 DEF Has
    <2>3. \A h \in Handler : Publishes(h, m)' => Publishes(h, m)
      BY <2>1 DEF Publishes
    <2>4. \A h \in Handler : job'[h].pc = "save" /\ job'[h].mail = m =>
                               stored[m] = 0 /\ m \notin job'[h].todo
      BY <1>0, <2>1 DEF Once
    <2> QED
      BY <1>0, <2>1, <2>2, <2>3, <2>4, OnceKept
  <1>4. ASSUME NEW g \in Handler, HandlerStep(g) PROVE Once(m)'
    BY <1>0, <1>4, OnceHandler
  <1> QED
    BY <1>1, <1>2, <1>3, <1>4 DEF Next, Arrive, Duplicate, Revoke, Expire, StartErrand,
       FinishErrand, vars, tables

\* A message that no two handlers have listed at once is stored and queued at
\* most once, whatever is announced again or fails half-way.
THEOREM MailIsStoredOnce == Spec => []StoredOnce
  <1> DEFINE Inv == TypeOK /\ \A m \in Mail \ contested : Once(m)
  <1>1. Init => Inv
    BY InitTypes DEF Init, Once, Has, Publishes, Idle
  <1>2. Inv /\ [Next]_vars => Inv'
    BY TypeStep, OnceStep
  <1>3. Inv => StoredOnce
    BY DEF Once, StoredOnce, TypeOK
  <1> QED
    BY <1>1, <1>2, <1>3, PTL DEF Spec
=============================================================================
