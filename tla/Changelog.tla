------------------------------ MODULE Changelog ------------------------------
(***************************************************************************)
(* The changelog of one user row (HistorySubscriber, HistoryService).      *)
(* TypeORM tells the subscriber of every save of the row, before and after *)
(* it writes, inside the transaction of the save; the subscriber keeps the *)
(* row it found before in a map, under the row's id, and writes what has   *)
(* changed to histories, by another connection.  Saves of several requests *)
(* overlap, and each writes back the copy its request has read.  Updates   *)
(* that are statements of their own (a query builder's, update, increment) *)
(* reach the subscriber without the row's id, and it lets them pass.       *)
(***************************************************************************)
EXTENDS Naturals, FiniteSets

CONSTANTS
    Save,       \* requests that write the row; a request's name is the value it sets
    Field,      \* the fields that are tracked
    Signed      \* the saves of requests with a signed-in user: the others are
                \* public ones, a login or a registration

ChangelogAssumption == Signed \subseteq Save
ASSUME ChangelogAssumption

VARIABLES
    row,        \* the committed row: what each field was last set by
    save,       \* the saves at work
    oldEntity,  \* oldEntityMap, at this row's key
    histories,  \* the entries written
    before,     \* history: the row each committed save has replaced
    undone,     \* history: saves that were not committed
    mingled,    \* history: saves that another write of the row has overlapped
    unlogged    \* history: updates that the subscriber has let pass

changelogVars == <<row, save, oldEntity, histories, before, undone, mingled, unlogged>>

-----------------------------------------------------------------------------
(* State *)

NoRow == [f \in {} |-> 0]
UserRow == [Field -> Save]

SaveState == [pc : {"idle", "insert", "created", "loaded", "before", "write", "after", "record",
                    "commit", "done"},
              copy : UserRow \cup {NoRow},
              columns : SUBSET Field,      \* what the update will write
              old : UserRow \cup {NoRow}]

\* An entry: who made it, and the fields that changed with their values.
Entry == [save : Save, action : {"CREATE", "UPDATE"}, old : UserRow \cup {NoRow},
          changed : SUBSET Field]

ChangelogTypeOK ==
    /\ row \in UserRow \cup {NoRow}
    /\ save \in [Save -> SaveState]
    /\ oldEntity \in UserRow \cup {NoRow}
    /\ histories \subseteq Entry
    /\ before \in [Save -> UserRow \cup {NoRow}]
    /\ undone \subseteq Save /\ mingled \subseteq Save /\ unlogged \subseteq Save

ChangelogInit ==
    /\ row = NoRow
    /\ save = [s \in Save |-> [pc |-> "idle", copy |-> NoRow, columns |-> {}, old |-> NoRow]]
    /\ oldEntity = NoRow
    /\ histories = {}
    /\ before = [s \in Save |-> NoRow]
    /\ undone = {} /\ mingled = {} /\ unlogged = {}

SaveAt(s, pc) == save[s].pc = pc

\* The saves whose transaction has written the row and holds its lock.
Holding == {s \in Save : save[s].pc \in {"created", "after", "record", "commit"}}

\* The saves that have been announced before and not yet after, and those in
\* their transactions.
Announced == {s \in Save : save[s].pc \in {"write", "after"}}
InTransaction == Announced \cup Holding

-----------------------------------------------------------------------------
(* The request *)

\* A new user: every field is set.
CreateUser(s) ==
    /\ SaveAt(s, "idle")
    /\ row = NoRow
    /\ \A t \in Save : SaveAt(t, "idle") \/ SaveAt(t, "done")
    /\ save' = [save EXCEPT ![s].pc = "created", ![s].columns = Field,
                            ![s].copy = [f \in Field |-> s]]
    /\ UNCHANGED <<row, oldEntity, histories, before, undone, mingled, unlogged>>

\* The row is read and fields of the copy are set,
LoadUser(s) ==
    /\ SaveAt(s, "idle")
    /\ row # NoRow
    /\ \E fields \in SUBSET Field :
         save' = [save EXCEPT ![s].pc = "loaded",
                              ![s].copy = [f \in Field |-> IF f \in fields THEN s ELSE row[f]]]
    /\ UNCHANGED <<row, oldEntity, histories, before, undone, mingled, unlogged>>

\* and saved: TypeORM reads the row again, writes the columns that differ, and
\* does nothing if there are none.
CompareRow(s) ==
    /\ SaveAt(s, "loaded")
    /\ save' = [save EXCEPT ![s].pc = IF save[s].copy = row THEN "done" ELSE "before",
                            ![s].columns = {f \in Field : save[s].copy[f] # row[f]}]
    /\ UNCHANGED <<row, oldEntity, histories, before, undone, mingled, unlogged>>

\* A profile is changed, a password reset, a user deleted or a login refused by a
\* statement of its own: it sets columns of the row, whatever anybody has read.
UpdateColumns(s) ==
    /\ SaveAt(s, "idle")
    /\ row # NoRow
    /\ Holding = {}
    /\ \E fields \in SUBSET Field \ {{}} :
         /\ row' = [f \in Field |-> IF f \in fields THEN s ELSE row[f]]
         /\ save' = [save EXCEPT ![s].pc = "done", ![s].columns = fields]
    /\ before' = [before EXCEPT ![s] = row]
    /\ unlogged' = unlogged \cup {s}
    /\ mingled' = mingled \cup {t \in Save : save[t].pc \in {"before", "write"}}
    /\ UNCHANGED <<oldEntity, histories, undone>>

-----------------------------------------------------------------------------
(* The subscriber *)

\* beforeUpdate, whoever the user is.
BeforeUpdate(s) ==
    /\ SaveAt(s, "before")
    /\ oldEntity' = row
    /\ save' = [save EXCEPT ![s].pc = "write"]
    /\ mingled' = IF InTransaction = {} THEN mingled ELSE mingled \cup Announced \cup {s}
    /\ UNCHANGED <<row, histories, before, undone, unlogged>>

\* The update waits for the lock of the row.
WriteUser(s) ==
    /\ SaveAt(s, "write")
    /\ Holding = {}
    /\ save' = [save EXCEPT ![s].pc = "after"]
    /\ UNCHANGED <<row, oldEntity, histories, before, undone, mingled, unlogged>>

\* afterUpdate; without a user the entry of the map stays.
AfterUpdate(s) ==
    /\ SaveAt(s, "after")
    /\ IF s \in Signed
         THEN /\ save' = [save EXCEPT ![s].pc = "record", ![s].old = oldEntity]
              /\ oldEntity' = NoRow
         ELSE /\ save' = [save EXCEPT ![s].pc = "commit"]
              /\ UNCHANGED oldEntity
    /\ UNCHANGED <<row, histories, before, undone, mingled, unlogged>>

\* Without an old value every field has changed.
ChangedFields(old, new) == {f \in DOMAIN new : f \notin DOMAIN old \/ old[f] # new[f]}

\* Faulty: an entry that cannot be written is left out.
LeaveOut(s) ==
    /\ SaveAt(s, "record")
    /\ save' = [save EXCEPT ![s].pc = "commit"]
    /\ UNCHANGED <<row, oldEntity, histories, before, undone, mingled, unlogged>>

\* recordEntityChanges and recordChange: an entry, if something has changed.
RecordChanges(s) ==
    LET changed == ChangedFields(save[s].old, save[s].copy)
    IN /\ SaveAt(s, "record")
       /\ histories' = IF changed = {} THEN histories
                       ELSE histories \cup {[save |-> s, action |-> "UPDATE", old |-> save[s].old,
                                             changed |-> changed]}
       /\ save' = [save EXCEPT ![s].pc = "commit"]
       /\ UNCHANGED <<row, oldEntity, before, undone, mingled, unlogged>>

\* afterInsert
AfterInsert(s) ==
    /\ SaveAt(s, "created")
    /\ histories' = IF s \in Signed
                      THEN histories \cup {[save |-> s, action |-> "CREATE", old |-> NoRow,
                                            changed |-> {}]}
                      ELSE histories
    /\ save' = [save EXCEPT ![s].pc = "commit"]
    /\ UNCHANGED <<row, oldEntity, before, undone, mingled, unlogged>>

CommitSave(s) ==
    /\ SaveAt(s, "commit")
    /\ row' = IF row = NoRow THEN save[s].copy
              ELSE [f \in Field |-> IF f \in save[s].columns THEN save[s].copy[f] ELSE row[f]]
    /\ before' = [before EXCEPT ![s] = row]
    /\ save' = [save EXCEPT ![s].pc = "done"]
    /\ mingled' = mingled \cup {t \in Save : SaveAt(t, "before")}
    /\ UNCHANGED <<oldEntity, histories, undone, unlogged>>

\* A statement fails, one that writes the entry included, or the process ends:
\* the save is rolled back, its entry is not.  (What a restart does to the map
\* makes no difference to the saves that follow.)
FailSave(s) ==
    /\ save[s].pc \in {"before", "write", "after", "record", "created", "commit"}
    /\ save' = [save EXCEPT ![s].pc = "done"]
    /\ undone' = undone \cup {s}
    /\ UNCHANGED <<row, oldEntity, histories, before, mingled, unlogged>>

SaveStep(s) ==
    \/ CreateUser(s) \/ LoadUser(s) \/ CompareRow(s) \/ UpdateColumns(s) \/ BeforeUpdate(s)
    \/ WriteUser(s) \/ AfterUpdate(s) \/ RecordChanges(s) \/ AfterInsert(s) \/ CommitSave(s) \/ FailSave(s)

ChangelogNext == \E s \in Save : SaveStep(s)

ChangelogSpec == ChangelogInit /\ [][ChangelogNext]_changelogVars

-----------------------------------------------------------------------------
(* Properties *)

\* An entry names the columns its save has written, with the values they had,
\* unless another write of the row overlapped: the map has room for one.
EntriesTellTheTruth ==
    \A h \in histories :
      h.action = "UPDATE" /\ SaveAt(h.save, "done") /\ h.save \notin undone \cup mingled
        => h.old = before[h.save] /\ h.changed = save[h.save].columns

\* What a signed-in user saved is in the changelog: a save whose entry cannot be
\* written is not committed either.
SavesAreRecorded ==
    \A s \in Signed :
      SaveAt(s, "done") /\ save[s].columns # {} /\ s \notin undone \cup mingled \cup unlogged
        => \E h \in histories : h.save = s

\* Somebody's change of a column is in the changelog, if it ought to be.
Explained(s, f) ==
    s \in Signed \ (mingled \cup unlogged) =>
      \E h \in histories : h.save = s /\ (h.action = "CREATE" \/ f \in h.changed)

\* The changelog says who set each value of the row, also a value that a request
\* with an older copy has written back, if it was a signed-in user who saved it
\* while nobody else wrote the row: not for the updates that are let pass.
RowIsExplained == row # NoRow => \A f \in Field : Explained(row[f], f)

\* The changelog has an entry of every save, and the entry is true.
ChangelogIsSound ==
    ChangelogTypeOK /\ EntriesTellTheTruth /\ SavesAreRecorded /\ RowIsExplained
=============================================================================
