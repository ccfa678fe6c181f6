--------------------------- MODULE ServicesProofs ---------------------------
(***************************************************************************)
(* Proofs about the services beside the email assistant.  TeamSettings: a  *)
(* secret survives every saving of the form that it is hidden from, and    *)
(* the settings of a team are not replaced.  Changelog: a save is logged,  *)
(* and logged as it was.  SeoHelper: a completed post is published and     *)
(* stays so until its topic is triggered again.  Parking: a car is         *)
(* registered once.  LinkTracking: the chat is told of each link once.     *)
(* UserAccounts: an account is what the requests about it have made of it. *)
(* TeamAccess: cache, assignments, memberships and groups agree.           *)
(***************************************************************************)
EXTENDS TeamSettings, Changelog, SeoHelper, Parking, LinkTracking,
        UserAccounts, TeamAccess, FiniteSetTheorems, TLAPS

\* A set whose members are all the same.
LEMMA AtMostOne ==
    ASSUME NEW S, \A x, y \in S : x = y PROVE Cardinality(S) <= 1
    <1>1. CASE S = {}
        BY <1>1, FS_EmptySet
    <1>2. CASE S # {}
        <2>1. PICK x \in S : S = {x}
            BY <1>2
        <2> QED
            BY <2>1, FS_Singleton
    <1> QED
        BY <1>1, <1>2

-----------------------------------------------------------------------------
(* TeamSettings *)

\* What a row holds of a secret is encrypted once, or is not there.
Sealed(r) == \A s \in Secret : r.secrets[s] = Absent \/ r.secrets[s].layers = 1

Saving(f) == submission[f].pc = "save"

\* Outside of a clash one submission is at work, on the row as it is, and the
\* row says what was submitted last.
Undisturbed ==
    /\ \A f, g \in Submission : Saving(f) /\ Saving(g) => f = g
    /\ \A f \in Submission : Saving(f) /\ teamThere => submission[f].held = settings
    /\ \A s \in Secret : settings.secrets[s].text = wanted[s]

SettingsInv ==
    /\ SettingsTypeOK
    /\ Sealed(settings)
    /\ \A f \in Submission : Sealed(submission[f].held)
    /\ ~clash => Undisturbed

\* The row without secrets is a row, and its secrets are not there.
LEMMA NothingStored == NoSettings \in Settings /\ Sealed(NoSettings) /\ Absent \in Stored
    BY DEF NoSettings, Settings, Absent, Stored, Sealed

\* A merged row has the text of the form where it is filled in and of the copy
\* elsewhere, and is sealed if the copy was.
LEMMA Merged ==
    ASSUME SettingsTypeOK, NEW f \in Submission, Sealed(submission[f].held)
    PROVE  /\ MergeSecrets(f) \in [Secret -> Stored]
           /\ \A s \in Secret : MergeSecrets(f)[s] = Absent \/ MergeSecrets(f)[s].layers = 1
           /\ \A s \in Secret : MergeSecrets(f)[s].text =
                IF s \in submission[f].fills THEN f ELSE submission[f].held.secrets[s].text
    <1>1. submission[f].held.secrets \in [Secret -> Stored]
        BY DEF SettingsTypeOK, SubmissionState, Settings
    <1>2. /\ Encrypt([text |-> f, layers |-> 0]) \in Stored
          /\ Encrypt([text |-> f, layers |-> 0]).layers = 1
          /\ Encrypt([text |-> f, layers |-> 0]).text = f
        BY DEF Encrypt, Stored
    <1> QED
        BY <1>1, <1>2 DEF MergeSecrets, Sealed

\* A decrypted secret has the text that is stored and no layer left.
LEMMA DecryptedPlain ==
    ASSUME SettingsTypeOK, Sealed(settings), NEW s \in Secret
    PROVE  Decrypted(s).layers = 0 /\ Decrypted(s).text = settings.secrets[s].text
    <1>1. settings.secrets[s] \in Stored
        BY DEF SettingsTypeOK, Settings
    <1>2. CASE settings.secrets[s] = Absent
        BY <1>2 DEF Decrypted, Absent
    <1>3. CASE settings.secrets[s] # Absent
        <2>1. settings.secrets[s].layers = 1
            BY <1>3 DEF Sealed
        <2> QED
            BY <1>1, <1>3, <2>1 DEF Decrypted, Stored
    <1> QED
        BY <1>2, <1>3

\* The submission that closes was the only one at work, so that none is left
\* outside of a clash.
LEMMA Closing ==
    ASSUME SettingsTypeOK, NEW f \in Submission, Saving(f), Close(f)
    PROVE  /\ submission' \in [Submission -> SubmissionState]
           /\ \A g \in Submission : submission'[g].held = submission[g].held
           /\ Undisturbed => \A g \in Submission : submission'[g].pc # "save"
    BY DEF SettingsTypeOK, SubmissionState, Close, Saving, Undisturbed

\* What a submission does to the row and to what is wanted of it.
Written(f) ==
    /\ settings'.row \in Submission \cup {"none"}
    /\ settings' = [row |-> settings'.row, secrets |-> MergeSecrets(f)]
    /\ Wishes(f)

\* A submission that writes its merged row, removes the row or leaves it keeps
\* the invariant.
LEMMA SavingStep ==
    ASSUME SettingsInv, NEW f \in Submission, Saving(f), Close(f), UNCHANGED <<teamThere, clash>>,
           \/ teamThere /\ Written(f)
           \/ settings' = NoSettings /\ wanted' = [s \in Secret |-> "absent"]
           \/ UNCHANGED <<settings, wanted>>
    PROVE  SettingsInv'
    <1> USE DEF SettingsInv
    <1>1. /\ submission' \in [Submission -> SubmissionState]
          /\ \A g \in Submission : submission'[g].held = submission[g].held
          /\ Undisturbed => \A g \in Submission : submission'[g].pc # "save"
        BY Closing
    <1>2. CASE teamThere /\ Written(f)
        <2>1. /\ MergeSecrets(f) \in [Secret -> Stored]
              /\ \A s \in Secret : MergeSecrets(f)[s] = Absent \/ MergeSecrets(f)[s].layers = 1
              /\ \A s \in Secret : MergeSecrets(f)[s].text =
                   IF s \in submission[f].fills THEN f ELSE submission[f].held.secrets[s].text
            BY Merged
        <2>2. settings' \in Settings /\ settings'.secrets = MergeSecrets(f)
            BY <1>2, <2>1 DEF Written, Settings
        <2>3. wanted' \in [Secret -> Submission \cup {"absent"}]
            BY <1>2 DEF Written, Wishes, SettingsTypeOK
        <2>4. Sealed(settings)'
            BY <2>1, <2>2 DEF Sealed
        <2>5. ASSUME ~clash PROVE \A s \in Secret : settings'.secrets[s].text = wanted'[s]
            BY <1>2, <2>1, <2>2, <2>5 DEF Undisturbed, Saving, Written, Wishes
        <2> QED
            BY <1>1, <2>2, <2>3, <2>4, <2>5 DEF SettingsTypeOK, Sealed, Undisturbed, Saving
    <1>3. CASE settings' = NoSettings /\ wanted' = [s \in Secret |-> "absent"]
        <2>1. \A s \in Secret : settings'.secrets[s].text = wanted'[s]
            BY <1>3 DEF NoSettings, Absent
        <2> QED
            BY <1>1, <1>3, <2>1, NothingStored DEF SettingsTypeOK, Sealed, Undisturbed, Saving
    <1>4. CASE UNCHANGED <<settings, wanted>>
        BY <1>1, <1>4 DEF SettingsTypeOK, Sealed, Undisturbed, Saving
    <1> QED
        BY <1>2, <1>3, <1>4

\* Every action keeps the invariant.
LEMMA SettingsStep == SettingsInv /\ [SettingsNext]_settingsVars => SettingsInv'
    <1> SUFFICES ASSUME SettingsInv, [SettingsNext]_settingsVars PROVE SettingsInv'
        OBVIOUS
    <1>1. ASSUME NEW f \in Submission, ReadSettings(f) PROVE SettingsInv'
        <2>1. PICK kind \in {"create", "update", "remove"}, fills \in SUBSET Secret :
                submission' = [submission EXCEPT ![f] =
                    [kind |-> kind, pc |-> "save", fills |-> fills, held |-> settings]]
            BY <1>1 DEF ReadSettings
        <2>2. submission' \in [Submission -> SubmissionState]
            BY <2>1 DEF SettingsInv, SettingsTypeOK, SubmissionState
        <2>3. \A g \in Submission :
                submission'[g].held = IF g = f THEN settings ELSE submission[g].held
            BY <2>1 DEF SettingsInv, SettingsTypeOK
        <2>4. \A g \in Submission : submission'[g].pc = IF g = f THEN "save" ELSE submission[g].pc
            BY <2>1 DEF SettingsInv, SettingsTypeOK
        <2>5. clash' \in BOOLEAN /\ (~clash' => ~clash /\ \A g \in Submission : ~Saving(g))
            BY <1>1 DEF ReadSettings, FormAt, Saving, SettingsInv, SettingsTypeOK
        <2> QED
            BY <1>1, <2>2, <2>3, <2>4, <2>5
               DEF ReadSettings, SettingsInv, SettingsTypeOK, Sealed, Undisturbed, Saving
    <1>2. ASSUME NEW f \in Submission, CreateSettings(f) PROVE SettingsInv'
        BY <1>2, SavingStep DEF CreateSettings, FormAt, Saving, Written
    <1>3. ASSUME NEW f \in Submission, UpdateSettings(f) PROVE SettingsInv'
        <2>1. submission[f].held.row \in Submission \cup {"none"}
            BY DEF SettingsInv, SettingsTypeOK, SubmissionState, Settings
        <2> QED
            BY <1>3, <2>1, SavingStep DEF UpdateSettings, FormAt, Saving, Written
    <1>4. ASSUME NEW f \in Submission, RemoveSettings(f) PROVE SettingsInv'
        BY <1>4, SavingStep DEF RemoveSettings, FormAt, Saving
    <1>5. ASSUME NEW f \in Submission, FailSubmission(f) PROVE SettingsInv'
        BY <1>5, SavingStep DEF FailSubmission, FormAt, Saving
    <1>6. CASE DropTeam
        <2>1. \A s \in Secret : settings'.secrets[s].text = wanted'[s]
            BY <1>6 DEF DropTeam, NoSettings, Absent
        <2> QED
            BY <1>6, <2>1, NothingStored
               DEF DropTeam, SettingsInv, SettingsTypeOK, Sealed, Undisturbed, Saving
    <1>7. CASE UNCHANGED settingsVars
        BY <1>7 DEF settingsVars, SettingsInv, SettingsTypeOK, Sealed, Undisturbed, Saving
    <1> QED
        BY <1>1, <1>2, <1>3, <1>4, <1>5, <1>6, <1>7 DEF SettingsNext

\* Nobody is at work at first, and nothing is stored.
LEMMA InitSettings == SettingsInit => SettingsInv
    <1> SUFFICES ASSUME SettingsInit PROVE SettingsInv
        OBVIOUS
    <1>1. \A f \in Submission :
            submission[f].pc = "idle" /\ submission[f].held = NoSettings
        BY DEF SettingsInit
    <1>2. submission \in [Submission -> SubmissionState]
        BY NothingStored DEF SettingsInit, SubmissionState
    <1>3. SettingsTypeOK
        BY <1>2, NothingStored DEF SettingsInit, SettingsTypeOK
    <1>4. \A s \in Secret : settings.secrets[s].text = wanted[s]
        BY DEF SettingsInit, NoSettings, Absent
    <1> QED
        BY <1>1, <1>3, <1>4, NothingStored DEF SettingsInit, SettingsInv, Undisturbed, Saving

\* However often the form is saved with its secrets left blank, each reads as it
\* was last submitted, unless submissions overlapped, and never as another layer
\* of encryption.
THEOREM SecretsSurvive == SettingsSpec => []SecretsAreKept
    <1>1. SettingsInv => SecretsAreKept
        BY DecryptedPlain
           DEF SettingsInv, Undisturbed, SecretsAreKept, SecretsAsSubmitted, SecretsArePlain
    <1> QED
        BY <1>1, InitSettings, SettingsStep, PTL DEF SettingsSpec

\* The row of a team gives way to another only by its removal.
THEOREM RowsGiveWayByRemoval == SettingsSpec => SettingsNotReplaced
    <1> DEFINE GivesWay == settings.row # "none" => settings'.row \in {settings.row, "none"}
    <1>1. ASSUME [SettingsNext]_settingsVars PROVE [GivesWay]_settingsVars
        <2>1. CASE settings' = settings \/ settings' = NoSettings
            BY <2>1 DEF NoSettings
        <2>2. ASSUME NEW f \in Submission, CreateSettings(f) PROVE GivesWay
            BY <2>2 DEF CreateSettings, NoSettings
        <2>3. ASSUME NEW f \in Submission, UpdateSettings(f) PROVE GivesWay
            BY <2>3 DEF UpdateSettings
        <2>4. ASSUME NEW f \in Submission, ReadSettings(f) \/ RemoveSettings(f) \/ FailSubmission(f)
              PROVE  settings' = settings \/ settings' = NoSettings
            BY <2>4 DEF ReadSettings, RemoveSettings, FailSubmission
        <2>5. CASE DropTeam
            BY <2>5, <2>1 DEF DropTeam
        <2> HIDE DEF GivesWay
        <2> QED
            BY <1>1, <2>1, <2>2, <2>3, <2>4, <2>5 DEF SettingsNext, settingsVars
    <1> QED
        BY <1>1, PTL DEF SettingsSpec, SettingsNotReplaced

-----------------------------------------------------------------------------
(* Changelog *)

\* Its entry, if there is one, is of what it will write or has written.
Clean(s) == s \notin undone \cup mingled \cup unlogged

Differing(s) == {f \in Field : save[s].copy[f] # row[f]}

UpdatesOf(s) == {h \in histories : h.save = s /\ h.action = "UPDATE"}

\* What a save relies on that no other has disturbed, at each of its steps: the
\* row is as it was compared, the map holds that row, and nobody else is in a
\* transaction until it has been taken out of the map.
SaveHolds(s) ==
    /\ save[s].pc \in {"before", "write", "after", "record"} => save[s].columns = Differing(s)
    /\ save[s].pc \in {"write", "after"} => oldEntity = row /\ \A t \in InTransaction : t = s
    /\ save[s].pc = "record" => save[s].old = row
    /\ save[s].pc = "commit" =>
         \A h \in UpdatesOf(s) : h.old = row /\ h.changed = save[s].columns
    /\ save[s].pc = "done" =>
         \A h \in UpdatesOf(s) : h.old = before[s] /\ h.changed = save[s].columns
    /\ save[s].pc \in {"commit", "done"} /\ s \in Signed /\ save[s].columns # {} =>
         \E h \in histories : h.save = s

ChangelogInv ==
    /\ ChangelogTypeOK
    /\ \A s, t \in Holding : s = t
    /\ \A h \in histories : save[h.save].pc \in {"commit", "done"} /\ h.save \notin unlogged
    /\ \A s \in undone \cup unlogged : save[s].pc = "done"
    /\ \A s \in Save :
         /\ save[s].pc \in {"loaded", "before", "write", "after", "record"} => row \in UserRow
         /\ save[s].pc \notin {"idle", "insert", "done"} => save[s].copy \in UserRow
    /\ \A s \in Save : Clean(s) => SaveHolds(s)

\* A save that has nothing to do with the step keeps what it relies on.
LEMMA Unaffected ==
    ASSUME NEW t \in Save, SaveHolds(t), save'[t] = save[t],
           UNCHANGED <<row, before>>, histories \subseteq histories',
           \A h \in histories' \ histories : h.save # t,
           save[t].pc \in {"write", "after"} => oldEntity' = oldEntity /\ InTransaction' \subseteq InTransaction
    PROVE  SaveHolds(t)'
    <1>1. UpdatesOf(t)' = UpdatesOf(t)
        BY DEF UpdatesOf
    <1>2. Differing(t)' = Differing(t)
        BY DEF Differing
    <1> QED
        BY <1>1, <1>2 DEF SaveHolds

\* The request, which starts from the row there is or from none: what it finds
\* out, and what it does to its save.
LEMMA RequestMoves ==
    ASSUME ChangelogTypeOK, NEW s \in Save, CreateUser(s) \/ LoadUser(s) \/ CompareRow(s),
           save[s].pc = "loaded" => row \in UserRow /\ save[s].copy \in UserRow
    PROVE  /\ save' \in [Save -> SaveState]
           /\ \A t \in Save : t # s => save'[t] = save[t]
           /\ save[s].pc \in {"idle", "loaded"}
           /\ save'[s].pc \in {"created", "loaded", "before", "done"}
           /\ save'[s].pc = "created" => \A t \in Save : save[t].pc \in {"idle", "done"}
           /\ save'[s].pc \in {"loaded", "before"} => row \in UserRow
           /\ save'[s].pc # "done" => save'[s].copy \in UserRow
           /\ save'[s].pc = "before" => save'[s].columns = {f \in Field : save'[s].copy[f] # row[f]}
           /\ save'[s].pc = "done" => save'[s].columns = {}
    <1>0. /\ save \in [Save -> SaveState] /\ row \in UserRow \cup {NoRow}
          /\ save[s].copy \in UserRow \cup {NoRow} /\ save[s].columns \in SUBSET Field
          /\ save[s].old \in UserRow \cup {NoRow}
        BY DEF ChangelogTypeOK, SaveState
    <1>1. CASE CreateUser(s)
        <2>1. PICK copy \in UserRow : copy = [f \in Field |-> s]
            BY DEF UserRow
        <2>2. save' = [save EXCEPT ![s].pc = "created", ![s].columns = Field, ![s].copy = copy]
            BY <1>1, <2>1 DEF CreateUser
        <2>3. /\ save' \in [Save -> SaveState]
              /\ \A t \in Save : t # s => save'[t] = save[t]
              /\ save'[s].pc = "created" /\ save'[s].copy = copy
            BY <1>0, <2>2, ZenonT(30) DEF SaveState
        <2> QED
            BY <1>1, <2>3 DEF CreateUser, SaveAt
    <1>2. CASE LoadUser(s)
        <2>1. PICK fields \in SUBSET Field :
                save' = [save EXCEPT ![s].pc = "loaded",
                              ![s].copy = [f \in Field |-> IF f \in fields THEN s ELSE row[f]]]
            BY <1>2 DEF LoadUser
        <2>2. row \in UserRow
            BY <1>0, <1>2 DEF LoadUser
        <2>3. PICK copy \in UserRow : copy = [f \in Field |-> IF f \in fields THEN s ELSE row[f]]
            BY <2>2 DEF UserRow
        <2>4. save' = [save EXCEPT ![s].pc = "loaded", ![s].copy = copy]
            BY <2>1, <2>3
        <2>5. /\ save' \in [Save -> SaveState]
              /\ \A t \in Save : t # s => save'[t] = save[t]
              /\ save'[s].pc = "loaded" /\ save'[s].copy = copy
            BY <1>0, <2>4 DEF SaveState
        <2> QED
            BY <1>2, <2>2, <2>5 DEF LoadUser, SaveAt
    <1>3. CASE CompareRow(s)
        <2>1. PICK pc \in {"done", "before"} : pc = IF save[s].copy = row THEN "done" ELSE "before"
            OBVIOUS
        <2>2. PICK columns \in SUBSET Field : columns = {f \in Field : save[s].copy[f] # row[f]}
            OBVIOUS
        <2>3. save' = [save EXCEPT ![s].pc = pc, ![s].columns = columns]
            BY <1>3, <2>1, <2>2 DEF CompareRow
        <2>4. /\ save' \in [Save -> SaveState]
              /\ \A t \in Save : t # s => save'[t] = save[t]
              /\ save'[s].pc = pc /\ save'[s].columns = columns /\ save'[s].copy = save[s].copy
            BY <1>0, <2>3 DEF SaveState
        <2>5. pc = "done" => columns = {}
            BY <2>1, <2>2
        <2> QED
            BY <1>3, <2>2, <2>4, <2>5 DEF CompareRow, SaveAt
    <1> QED
        BY <1>1, <1>2, <1>3

LEMMA RequestSteps ==
    ASSUME ChangelogInv, NEW s \in Save, CreateUser(s) \/ LoadUser(s) \/ CompareRow(s)
    PROVE  ChangelogInv'
    <1> USE DEF ChangelogInv
    <1>1. /\ UNCHANGED <<row, oldEntity, histories, before, undone, mingled, unlogged>>
          /\ save' \in [Save -> SaveState]
          /\ \A t \in Save : t # s => save'[t] = save[t]
          /\ save[s].pc \in {"idle", "loaded"}
          /\ save'[s].pc \in {"created", "loaded", "before", "done"}
          /\ save'[s].pc = "created" => \A t \in Save : save[t].pc \in {"idle", "done"}
          /\ save'[s].pc \in {"loaded", "before"} => row \in UserRow
          /\ save'[s].pc # "done" => save'[s].copy \in UserRow
          /\ save'[s].pc = "before" => save'[s].columns = {f \in Field : save'[s].copy[f] # row[f]}
          /\ save'[s].pc = "done" => save'[s].columns = {}
        BY RequestMoves DEF CreateUser, LoadUser, CompareRow
    <1>2. ChangelogTypeOK'
        BY <1>1 DEF ChangelogTypeOK
    <1>3. \A t, u \in Holding' : t = u
        BY <1>1 DEF Holding
    <1>4. \A h \in histories' : save'[h.save].pc \in {"commit", "done"} /\ h.save \notin unlogged' /\ h.save # s
        BY <1>1 DEF ChangelogTypeOK, Entry
    <1>5. ASSUME NEW t \in Save, t # s, Clean(t)' PROVE SaveHolds(t)'
        <2>1. SaveHolds(t) /\ save'[t] = save[t]
            BY <1>1, <1>5 DEF Clean
        <2>2. save[t].pc \in {"write", "after"} => InTransaction' \subseteq InTransaction
            BY <1>1 DEF InTransaction, Announced, Holding
        <2> QED
            BY <1>1, <2>1, <2>2, Unaffected
    <1>6. SaveHolds(s)'
        BY <1>1, <1>4 DEF SaveHolds, UpdatesOf, Differing
    <1>9. \A t \in undone' \cup unlogged' : save'[t].pc = "done"
        BY <1>1 DEF ChangelogTypeOK
    <1> QED
        BY <1>1, <1>2, <1>3, <1>4, <1>5, <1>6, <1>9

\* beforeUpdate puts the row into the map, under whoever is in a transaction.
LEMMA BeforeStep ==
    ASSUME ChangelogInv, NEW s \in Save, BeforeUpdate(s) PROVE ChangelogInv'
    <1> USE DEF ChangelogInv
    <1>1. /\ save' \in [Save -> SaveState]
          /\ \A t \in Save : t # s => save'[t] = save[t]
          /\ save[s].pc = "before" /\ save'[s].pc = "write"
          /\ save'[s].copy = save[s].copy /\ save'[s].columns = save[s].columns
        BY DEF BeforeUpdate, SaveAt, ChangelogTypeOK, SaveState
    <1>2. /\ UNCHANGED <<row, histories, before, undone, unlogged>> /\ oldEntity' = row
          /\ mingled' \subseteq Save
          /\ \A t \in Save : Clean(t)' =>
               /\ Clean(t)
               /\ t # s => save[t].pc \notin {"write", "after"}
               /\ t = s => InTransaction = {}
        BY DEF BeforeUpdate, ChangelogTypeOK, Clean, Announced, InTransaction
    <1>3. ChangelogTypeOK'
        BY <1>1, <1>2 DEF ChangelogTypeOK
    <1>4. /\ \A t, u \in Holding' : t = u
          /\ \A h \in histories' : save'[h.save].pc \in {"commit", "done"} /\ h.save \notin unlogged'
          /\ InTransaction' \subseteq InTransaction \cup {s}
        BY <1>1, <1>2 DEF Holding, ChangelogTypeOK, Entry, InTransaction, Announced
    <1>5. ASSUME NEW t \in Save, t # s, Clean(t)' PROVE SaveHolds(t)'
        BY <1>1, <1>2, <1>5, Unaffected
    <1>6. ASSUME Clean(s)' PROVE SaveHolds(s)'
        <2>1. save[s].columns = Differing(s)
            BY <1>1, <1>2, <1>6 DEF SaveHolds
        <2> QED
            BY <1>1, <1>2, <1>4, <1>6, <2>1 DEF SaveHolds, Differing
    <1>9. \A t \in undone' \cup unlogged' : save'[t].pc = "done"
        BY <1>1, <1>2 DEF ChangelogTypeOK
    <1> QED
        BY <1>1, <1>2, <1>3, <1>4, <1>5, <1>6, <1>9

\* The update takes the lock that nobody holds.
LEMMA WriteStep ==
    ASSUME ChangelogInv, NEW s \in Save, WriteUser(s) PROVE ChangelogInv'
    <1> USE DEF ChangelogInv
    <1>1. /\ save' \in [Save -> SaveState]
          /\ \A t \in Save : t # s => save'[t] = save[t]
          /\ save[s].pc = "write" /\ save'[s].pc = "after"
          /\ save'[s].copy = save[s].copy /\ save'[s].columns = save[s].columns
        BY DEF WriteUser, SaveAt, ChangelogTypeOK, SaveState
    <1>2. /\ UNCHANGED <<row, oldEntity, histories, before, undone, mingled, unlogged>> /\ Holding = {}
          /\ \A t \in Save : Clean(t)' = Clean(t)
        BY DEF WriteUser, Clean
    <1>3. ChangelogTypeOK'
        BY <1>1, <1>2 DEF ChangelogTypeOK
    <1>4. /\ \A t, u \in Holding' : t = u
          /\ \A h \in histories' : save'[h.save].pc \in {"commit", "done"} /\ h.save \notin unlogged'
          /\ InTransaction' \subseteq InTransaction
        BY <1>1, <1>2 DEF Holding, ChangelogTypeOK, Entry, InTransaction, Announced
    <1>5. ASSUME NEW t \in Save, t # s, Clean(t)' PROVE SaveHolds(t)'
        BY <1>1, <1>2, <1>4, <1>5, Unaffected
    <1>6. ASSUME Clean(s)' PROVE SaveHolds(s)'
        BY <1>1, <1>2, <1>4, <1>6 DEF SaveHolds, Differing
    <1>9. \A t \in undone' \cup unlogged' : save'[t].pc = "done"
        BY <1>1, <1>2 DEF ChangelogTypeOK
    <1> QED
        BY <1>1, <1>2, <1>3, <1>4, <1>5, <1>6, <1>9

\* afterUpdate takes out of the map what beforeUpdate has put there: a clean save
\* is alone in its transaction.
LEMMA AfterStep ==
    ASSUME ChangelogInv, NEW s \in Save, AfterUpdate(s) PROVE ChangelogInv'
    <1> USE DEF ChangelogInv
    <1>1. /\ save' \in [Save -> SaveState]
          /\ \A t \in Save : t # s => save'[t] = save[t]
          /\ save[s].pc = "after" /\ save'[s].pc \in {"record", "commit"}
          /\ save'[s].pc = "record" => save'[s].old = oldEntity
          /\ save'[s].pc = "commit" => s \notin Signed
          /\ save'[s].copy = save[s].copy /\ save'[s].columns = save[s].columns
        BY DEF AfterUpdate, SaveAt, ChangelogTypeOK, SaveState
    <1>2. /\ UNCHANGED <<row, histories, before, undone, mingled, unlogged>>
          /\ oldEntity' \in {oldEntity, NoRow}
          /\ \A t \in Save : Clean(t)' = Clean(t)
        BY DEF AfterUpdate, Clean
    <1>3. ChangelogTypeOK'
        BY <1>1, <1>2 DEF ChangelogTypeOK
    <1>4. /\ \A t, u \in Holding' : t = u
          /\ \A h \in histories' : save'[h.save].pc \in {"commit", "done"} /\ h.save \notin unlogged' /\ h.save # s
          /\ s \in InTransaction
        BY <1>1, <1>2 DEF Holding, ChangelogTypeOK, Entry, InTransaction, Announced
    <1>5. ASSUME NEW t \in Save, t # s, Clean(t)' PROVE SaveHolds(t)'
        <2>1. SaveHolds(t) /\ save[t].pc \notin {"write", "after"}
            BY <1>2, <1>4, <1>5 DEF SaveHolds
        <2> QED
            BY <1>1, <1>2, <1>5, <2>1, Unaffected
    <1>6. ASSUME Clean(s)' PROVE SaveHolds(s)'
        <2>1. save[s].columns = Differing(s) /\ oldEntity = row
            BY <1>1, <1>2, <1>6 DEF SaveHolds
        <2> QED
            BY <1>1, <1>2, <1>4, <1>6, <2>1 DEF SaveHolds, Differing, UpdatesOf
    <1>9. \A t \in undone' \cup unlogged' : save'[t].pc = "done"
        BY <1>1, <1>2 DEF ChangelogTypeOK
    <1> QED
        BY <1>1, <1>2, <1>3, <1>4, <1>5, <1>6, <1>9

\* The entry of an update is the difference between the row and the copy: what
\* the save is about to write.
LEMMA RecordStep ==
    ASSUME ChangelogInv, NEW s \in Save, RecordChanges(s) PROVE ChangelogInv'
    <1> USE DEF ChangelogInv
    <1> DEFINE entry == [save |-> s, action |-> "UPDATE", old |-> save[s].old,
                         changed |-> ChangedFields(save[s].old, save[s].copy)]
    <1>1. /\ save' \in [Save -> SaveState]
          /\ \A t \in Save : t # s => save'[t] = save[t]
          /\ save[s].pc = "record" /\ save'[s].pc = "commit"
          /\ save'[s].copy = save[s].copy /\ save'[s].columns = save[s].columns
        BY DEF RecordChanges, SaveAt, ChangelogTypeOK, SaveState
    <1>2. /\ UNCHANGED <<row, oldEntity, before, undone, mingled, unlogged>>
          /\ \A t \in Save : Clean(t)' = Clean(t)
          /\ histories' = IF entry.changed = {} THEN histories ELSE histories \cup {entry}
        BY DEF RecordChanges, Clean
    <1>3. entry \in Entry
        <2>1. /\ row \in UserRow /\ save[s].copy \in UserRow
              /\ save[s].old \in UserRow \cup {NoRow}
            BY <1>1 DEF ChangelogTypeOK, SaveState
        <2>2. ChangedFields(save[s].old, save[s].copy) \in SUBSET Field
            BY <2>1 DEF ChangedFields, UserRow
        <2> QED
            BY <2>1, <2>2 DEF Entry
    <1> HIDE DEF entry
    <1>4. ChangelogTypeOK'
        BY <1>1, <1>2, <1>3 DEF ChangelogTypeOK
    <1>5. entry.save = s /\ entry.old = save[s].old
          /\ entry.changed = ChangedFields(save[s].old, save[s].copy)
        BY DEF entry
    <1>6. /\ \A t, u \in Holding' : t = u
          /\ \A h \in histories' : save'[h.save].pc \in {"commit", "done"} /\ h.save \notin unlogged'
          /\ \A h \in histories : h.save # s
          /\ InTransaction' \subseteq InTransaction
        BY <1>1, <1>2, <1>5 DEF Holding, ChangelogTypeOK, Entry, InTransaction, Announced
    <1>7. ASSUME NEW t \in Save, t # s, Clean(t)' PROVE SaveHolds(t)'
        BY <1>1, <1>2, <1>5, <1>6, <1>7, Unaffected
    <1>8. ASSUME Clean(s)' PROVE SaveHolds(s)'
        <2>1. save[s].columns = Differing(s) /\ save[s].old = row
            BY <1>1, <1>2, <1>8 DEF SaveHolds
        <2>2. row \in UserRow /\ save[s].copy \in UserRow
            BY <1>1
        <2>3. entry.changed = save[s].columns
            BY <1>5, <2>1, <2>2 DEF ChangedFields, Differing, UserRow
        <2> QED
            BY <1>1, <1>2, <1>5, <1>6, <2>1, <2>3 DEF SaveHolds, UpdatesOf
    <1>9. \A t \in undone' \cup unlogged' : save'[t].pc = "done"
        BY <1>1, <1>2 DEF ChangelogTypeOK
    <1> QED
        BY <1>1, <1>2, <1>4, <1>6, <1>7, <1>8, <1>9

LEMMA InsertStep ==
    ASSUME ChangelogInv, NEW s \in Save, AfterInsert(s) PROVE ChangelogInv'
    <1> USE DEF ChangelogInv
    <1> DEFINE entry == [save |-> s, action |-> "CREATE", old |-> NoRow, changed |-> {}]
    <1>1. /\ save' \in [Save -> SaveState]
          /\ \A t \in Save : t # s => save'[t] = save[t]
          /\ save[s].pc = "created" /\ save'[s].pc = "commit"
          /\ save'[s].copy = save[s].copy /\ save'[s].columns = save[s].columns
        BY DEF AfterInsert, SaveAt, ChangelogTypeOK, SaveState
    <1>2. /\ UNCHANGED <<row, oldEntity, before, undone, mingled, unlogged>>
          /\ \A t \in Save : Clean(t)' = Clean(t)
          /\ histories' = IF s \in Signed THEN histories \cup {entry} ELSE histories
        BY DEF AfterInsert, Clean
    <1>3. entry \in Entry /\ entry.save = s /\ entry.action = "CREATE"
        BY DEF Entry
    <1> HIDE DEF entry
    <1>4. ChangelogTypeOK'
        BY <1>1, <1>2, <1>3 DEF ChangelogTypeOK
    <1>5. /\ \A t, u \in Holding' : t = u
          /\ \A h \in histories' : save'[h.save].pc \in {"commit", "done"} /\ h.save \notin unlogged'
          /\ \A h \in histories : h.save # s
          /\ InTransaction' \subseteq InTransaction
        BY <1>1, <1>2, <1>3 DEF Holding, ChangelogTypeOK, Entry, InTransaction, Announced
    <1>6. ASSUME NEW t \in Save, t # s, Clean(t)' PROVE SaveHolds(t)'
        BY <1>1, <1>2, <1>3, <1>5, <1>6, Unaffected
    <1>7. SaveHolds(s)'
        BY <1>1, <1>2, <1>3, <1>5 DEF SaveHolds, UpdatesOf
    <1>9. \A t \in undone' \cup unlogged' : save'[t].pc = "done"
        BY <1>1, <1>2 DEF ChangelogTypeOK
    <1> QED
        BY <1>1, <1>2, <1>4, <1>5, <1>6, <1>7, <1>9

\* The commit replaces the row that a clean save has compared with; saves that
\* have compared with it and not announced themselves are no longer clean.
LEMMA CommitStep ==
    ASSUME ChangelogInv, NEW s \in Save, CommitSave(s) PROVE ChangelogInv'
    <1> USE DEF ChangelogInv
    <1>1. /\ save' \in [Save -> SaveState]
          /\ \A t \in Save : t # s => save'[t] = save[t]
          /\ save[s].pc = "commit" /\ save'[s].pc = "done"
          /\ save'[s].copy = save[s].copy /\ save'[s].columns = save[s].columns
        BY DEF CommitSave, SaveAt, ChangelogTypeOK, SaveState
    <1>2. /\ UNCHANGED <<oldEntity, histories, undone, unlogged>>
          /\ mingled' \subseteq Save
          /\ \A t \in Save : Clean(t)' => Clean(t) /\ save[t].pc # "before"
          /\ before' \in [Save -> UserRow \cup {NoRow}] /\ before'[s] = row
          /\ \A t \in Save : t # s => before'[t] = before[t]
        BY DEF CommitSave, Clean, SaveAt, ChangelogTypeOK
    <1>3. row' \in UserRow \cup {NoRow} /\ (row \in UserRow => row' \in UserRow)
        <2>0. save[s].copy \in UserRow
            BY <1>1
        <2>1. row \in UserRow \cup {NoRow}
            BY DEF ChangelogTypeOK
        <2>2. CASE row = NoRow
            <3>1. row' = save[s].copy
                BY <2>2 DEF CommitSave
            <3> QED
                BY <2>0, <2>2, <3>1
        <2>3. CASE row # NoRow
            <3>1. row' = [f \in Field |-> IF f \in save[s].columns THEN save[s].copy[f] ELSE row[f]]
                BY <2>3 DEF CommitSave
            <3> QED
                BY <2>0, <2>1, <2>3, <3>1 DEF UserRow
        <2> QED
            BY <2>2, <2>3
    <1>4. ChangelogTypeOK'
        BY <1>1, <1>2, <1>3 DEF ChangelogTypeOK
    <1>5. /\ \A t, u \in Holding' : t = u
          /\ \A h \in histories' : save'[h.save].pc \in {"commit", "done"} /\ h.save \notin unlogged'
          /\ s \in Holding /\ s \in InTransaction
        BY <1>1, <1>2 DEF Holding, ChangelogTypeOK, Entry, InTransaction, Announced
    <1>6. ASSUME NEW t \in Save, t # s, Clean(t)' PROVE SaveHolds(t)'
        <2>1. SaveHolds(t) /\ save[t].pc # "before" /\ t \notin Holding
            BY <1>2, <1>5, <1>6
        <2>2. save[t].pc \in {"idle", "insert", "loaded", "done"}
            BY <1>5, <1>6, <2>1 DEF SaveHolds, Holding, InTransaction, ChangelogTypeOK, SaveState
        <2> QED
            BY <1>1, <1>2, <1>6, <2>1, <2>2 DEF SaveHolds, UpdatesOf
    <1>7. ASSUME Clean(s)' PROVE SaveHolds(s)'
        BY <1>1, <1>2, <1>7 DEF SaveHolds, UpdatesOf
    <1>9. \A t \in undone' \cup unlogged' : save'[t].pc = "done"
        BY <1>1, <1>2 DEF ChangelogTypeOK
    <1> QED
        BY <1>1, <1>2, <1>3, <1>4, <1>5, <1>6, <1>7, <1>9

LEMMA FailStep ==
    ASSUME ChangelogInv, NEW s \in Save, FailSave(s) PROVE ChangelogInv'
    <1> USE DEF ChangelogInv
    <1>1. /\ save' \in [Save -> SaveState]
          /\ \A t \in Save : t # s => save'[t] = save[t]
          /\ save'[s].pc = "done"
        BY DEF FailSave, ChangelogTypeOK, SaveState
    <1>2. /\ UNCHANGED <<row, oldEntity, histories, before, mingled, unlogged>> /\ undone' = undone \cup {s}
          /\ \A t \in Save : Clean(t)' => Clean(t) /\ t # s
        BY DEF FailSave, Clean, ChangelogTypeOK
    <1>3. ChangelogTypeOK'
        BY <1>1, <1>2 DEF ChangelogTypeOK
    <1>4. /\ \A t, u \in Holding' : t = u
          /\ \A h \in histories' : save'[h.save].pc \in {"commit", "done"} /\ h.save \notin unlogged'
          /\ InTransaction' \subseteq InTransaction
        BY <1>1, <1>2 DEF Holding, ChangelogTypeOK, Entry, InTransaction, Announced
    <1>5. ASSUME NEW t \in Save, Clean(t)' PROVE SaveHolds(t)'
        BY <1>1, <1>2, <1>4, <1>5, Unaffected
    <1>9. \A t \in undone' \cup unlogged' : save'[t].pc = "done"
        BY <1>1, <1>2 DEF ChangelogTypeOK
    <1> QED
        BY <1>1, <1>2, <1>3, <1>4, <1>5, <1>9

\* A statement of its own: no save is between announcement and commit that it
\* does not mingle with.
LEMMA ColumnsStep ==
    ASSUME ChangelogInv, NEW s \in Save, UpdateColumns(s) PROVE ChangelogInv'
    <1> USE DEF ChangelogInv
    <1>1. PICK fields \in SUBSET Field :
            /\ row' = [f \in Field |-> IF f \in fields THEN s ELSE row[f]]
            /\ save' = [save EXCEPT ![s].pc = "done", ![s].columns = fields]
        BY DEF UpdateColumns
    <1>2. /\ save' \in [Save -> SaveState]
          /\ \A t \in Save : t # s => save'[t] = save[t]
          /\ save[s].pc = "idle" /\ save'[s].pc = "done"
        <2>1. save[s] \in SaveState /\ save \in [Save -> SaveState]
            BY DEF ChangelogTypeOK
        <2>3. save' = [save EXCEPT ![s] = [save[s] EXCEPT !.pc = "done", !.columns = fields]]
            BY <1>1, <2>1
        <2>4. [save[s] EXCEPT !.pc = "done", !.columns = fields] \in SaveState
            BY <2>1 DEF SaveState
        <2> QED
            BY <2>1, <2>3, <2>4 DEF UpdateColumns, SaveAt, SaveState
    <1>3. row' \in UserRow
        BY <1>1 DEF UpdateColumns, ChangelogTypeOK, UserRow
    <1>4. /\ UNCHANGED <<oldEntity, histories, undone>> /\ Holding = {}
          /\ unlogged' = unlogged \cup {s} /\ mingled' \subseteq Save
          /\ before' \in [Save -> UserRow \cup {NoRow}]
          /\ \A t \in Save : t # s => before'[t] = before[t]
          /\ \A t \in Save : Clean(t)' =>
               Clean(t) /\ t # s /\ save[t].pc \notin {"before", "write"}
        BY DEF UpdateColumns, Clean, ChangelogTypeOK
    <1>5. ChangelogTypeOK'
        BY <1>2, <1>3, <1>4 DEF ChangelogTypeOK
    <1>6. \A t, u \in Holding' : t = u
        BY <1>2, <1>4 DEF Holding
    <1>7. \A h \in histories' : save'[h.save].pc \in {"commit", "done"} /\ h.save \notin unlogged'
        BY <1>2, <1>4 DEF ChangelogTypeOK, Entry
    <1>8. ASSUME NEW t \in Save, Clean(t)' PROVE SaveHolds(t)'
        <2>1. SaveHolds(t) /\ t # s /\ save'[t] = save[t] /\ before'[t] = before[t]
            BY <1>2, <1>4, <1>8
        <2>2. save[t].pc \in {"idle", "insert", "loaded", "done"}
            BY <1>4, <1>8 DEF Holding, ChangelogTypeOK, SaveState
        <2> QED
            BY <1>4, <2>1, <2>2 DEF SaveHolds, UpdatesOf
    <1>9. \A t \in undone' \cup unlogged' : save'[t].pc = "done"
        BY <1>2, <1>4 DEF ChangelogTypeOK
    <1> QED
        BY <1>2, <1>3, <1>4, <1>5, <1>6, <1>7, <1>8, <1>9

LEMMA InitChangelog == ChangelogInit => ChangelogInv
    <1> SUFFICES ASSUME ChangelogInit PROVE ChangelogInv
        OBVIOUS
    <1>1. save \in [Save -> SaveState] /\ \A s \in Save : save[s].pc = "idle"
        BY DEF ChangelogInit, SaveState
    <1>2. ChangelogTypeOK
        BY <1>1 DEF ChangelogInit, ChangelogTypeOK
    <1> QED
        BY <1>1, <1>2 DEF ChangelogInit, ChangelogInv, Holding, SaveHolds

LEMMA ChangelogStep == ChangelogInv /\ [ChangelogNext]_changelogVars => ChangelogInv'
    <1> SUFFICES ASSUME ChangelogInv, [ChangelogNext]_changelogVars PROVE ChangelogInv'
        OBVIOUS
    <1>1. ASSUME NEW s \in Save, SaveStep(s) PROVE ChangelogInv'
        BY <1>1, RequestSteps, BeforeStep, WriteStep, AfterStep, RecordStep, InsertStep, CommitStep,
           FailStep, ColumnsStep DEF SaveStep
    <1>2. CASE UNCHANGED changelogVars
        BY <1>2 DEF changelogVars, ChangelogInv, ChangelogTypeOK, Holding, Clean, SaveHolds, Differing,
                    InTransaction, Announced, UpdatesOf
    <1> QED
        BY <1>1, <1>2 DEF ChangelogNext

\* The values in the row and in the copies are explained, but for the one that the
\* save itself brings; the first row is a new user's.
Brought(s, f, value) == value = s \/ Explained(value, f)

CopiesAreExplained ==
    \A s \in Save : save[s].copy # NoRow => \A f \in Field : Brought(s, f, save[s].copy[f])

NewUserIsWhole ==
    row = NoRow => \A s \in Save :
      save[s].pc \in {"created", "commit"} => save[s].columns = Field

Explaining == RowIsExplained /\ CopiesAreExplained /\ NewUserIsWhole

\* What is explained stays so: entries are not removed.
LEMMA ExplainedStays ==
    ASSUME NEW s, NEW f, Explained(s, f), histories \subseteq histories',
           mingled \subseteq mingled', unlogged \subseteq unlogged'
    PROVE  Explained(s, f)'
    BY DEF Explained

LEMMA CopiesStay ==
    ASSUME CopiesAreExplained, histories \subseteq histories',
           mingled \subseteq mingled', unlogged \subseteq unlogged',
           NEW t \in Save, save'[t].copy = save[t].copy, save[t].copy # NoRow, NEW f \in Field
    PROVE  Brought(t, f, save[t].copy[f])'
    <1>1. PICK value : value = save[t].copy[f]
        OBVIOUS
    <1>2. value = t \/ Explained(value, f)
        BY <1>1 DEF CopiesAreExplained, Brought
    <1>3. value = t \/ Explained(value, f)'
        BY <1>2, ExplainedStays
    <1> QED
        BY <1>1, <1>3 DEF Brought, Explained

LEMMA RowStays ==
    ASSUME RowIsExplained, histories \subseteq histories',
           mingled \subseteq mingled', unlogged \subseteq unlogged', UNCHANGED row
    PROVE  RowIsExplained'
    <1> SUFFICES ASSUME row # NoRow, NEW f \in Field PROVE Explained(row[f], f)'
        BY DEF RowIsExplained
    <1>1. PICK value : value = row[f]
        OBVIOUS
    <1>2. Explained(value, f)'
        BY <1>1, ExplainedStays DEF RowIsExplained
    <1> QED
        BY <1>1, <1>2 DEF Explained

\* What a clean signed save is about to commit has its entry.
LEMMA CommitsExplained ==
    ASSUME ChangelogInv, NEW s \in Save, SaveAt(s, "commit"), NEW f \in save[s].columns
    PROVE  Explained(s, f)
    <1> SUFFICES ASSUME s \in Signed, s \notin mingled \cup unlogged
                 PROVE  \E h \in histories : h.save = s /\ (h.action = "CREATE" \/ f \in h.changed)
        BY DEF Explained
    <1>1. SaveHolds(s)
        BY DEF ChangelogInv, Clean, SaveAt
    <1>2. PICK h \in histories : h.save = s
        BY <1>1 DEF SaveHolds, SaveAt
    <1>3. h.action \in {"CREATE", "UPDATE"}
        BY DEF ChangelogInv, ChangelogTypeOK, Entry
    <1>4. h.action = "UPDATE" => h.changed = save[s].columns
        BY <1>1, <1>2 DEF SaveHolds, SaveAt, UpdatesOf
    <1> QED
        BY <1>2, <1>3, <1>4

LEMMA CreateExplains ==
    ASSUME ChangelogInv, Explaining, NEW s \in Save, CreateUser(s) PROVE Explaining'
    <1>1. /\ UNCHANGED <<row, histories, mingled, unlogged>> /\ row = NoRow
          /\ \A t \in Save : t # s => save'[t] = save[t] /\ save[t].pc \in {"idle", "done"}
          /\ save'[s].copy = [f \in Field |-> s] /\ save'[s].columns = Field
        BY DEF CreateUser, SaveAt, SaveState, ChangelogInv, ChangelogTypeOK
    <1>2. CopiesAreExplained'
        <2> SUFFICES ASSUME NEW t \in Save, save'[t].copy # NoRow, NEW f \in Field
                     PROVE  Brought(t, f, save[t].copy[f])'
            BY DEF CopiesAreExplained
        <2>1. CASE t = s
            BY <1>1, <2>1 DEF Brought
        <2>2. CASE t # s
            BY <1>1, <2>2, CopiesStay DEF Explaining
        <2> QED
            BY <2>1, <2>2
    <1>3. NewUserIsWhole'
        BY <1>1 DEF NewUserIsWhole
    <1> QED
        BY <1>1, <1>2, <1>3, RowStays DEF Explaining

LEMMA LoadExplains ==
    ASSUME ChangelogInv, Explaining, NEW s \in Save, LoadUser(s) PROVE Explaining'
    <1>1. PICK fields \in SUBSET Field :
            save' = [save EXCEPT ![s].pc = "loaded",
                          ![s].copy = [f \in Field |-> IF f \in fields THEN s ELSE row[f]]]
        BY DEF LoadUser
    <1>2. /\ UNCHANGED <<row, histories, mingled, unlogged>> /\ row # NoRow
          /\ \A t \in Save : t # s => save'[t] = save[t]
          /\ save'[s].copy = [f \in Field |-> IF f \in fields THEN s ELSE row[f]]
        BY <1>1 DEF LoadUser, SaveState, ChangelogInv, ChangelogTypeOK
    <1>3. RowIsExplained'
        BY <1>2, RowStays DEF Explaining
    <1>4. CopiesAreExplained'
        <2> SUFFICES ASSUME NEW t \in Save, save'[t].copy # NoRow, NEW f \in Field
                     PROVE  Brought(t, f, save[t].copy[f])'
            BY DEF CopiesAreExplained
        <2>1. CASE t = s
            <3>1. save'[t].copy[f] = t \/ save'[t].copy[f] = row'[f]
                BY <1>2, <2>1
            <3>2. Explained(row[f], f)'
                BY <1>2, <1>3 DEF RowIsExplained
            <3> QED
                BY <3>1, <3>2 DEF Brought, Explained
        <2>2. CASE t # s
            BY <1>2, <2>2, CopiesStay DEF Explaining
        <2> QED
            BY <2>1, <2>2
    <1> QED
        BY <1>2, <1>3, <1>4 DEF Explaining, NewUserIsWhole

\* The steps that neither read nor write values of the row.
LEMMA PassingExplains ==
    ASSUME ChangelogInv, ChangelogInv', Explaining, NEW s \in Save,
           CompareRow(s) \/ BeforeUpdate(s) \/ WriteUser(s) \/ AfterUpdate(s) \/ RecordChanges(s)
             \/ AfterInsert(s) \/ FailSave(s)
    PROVE  Explaining'
    <1>1. /\ UNCHANGED row
          /\ histories \subseteq histories' /\ mingled \subseteq mingled' /\ unlogged \subseteq unlogged'
        BY DEF CompareRow, BeforeUpdate, WriteUser, AfterUpdate, RecordChanges, AfterInsert, FailSave
    <1>2. /\ save \in [Save -> SaveState] /\ save' \in [Save -> SaveState]
          /\ save[s].pc \in {"loaded", "before", "write", "after", "record"} => row \in UserRow
        BY DEF ChangelogInv, ChangelogTypeOK
    <1>3. /\ \A t \in Save : t # s => save'[t] = save[t]
          /\ save'[s].copy = save[s].copy
          /\ \/ save'[s].pc \notin {"created", "commit"}
             \/ save[s].pc = "created" /\ save'[s].columns = save[s].columns
             \/ row \in UserRow
        BY <1>2 DEF CompareRow, BeforeUpdate, WriteUser, AfterUpdate, RecordChanges, AfterInsert,
                    FailSave, SaveState, SaveAt
    <1>4. row \in UserRow /\ row = NoRow => save'[s].columns = Field
        <2>1. row \in UserRow /\ row = NoRow => Field = {}
            BY DEF UserRow, NoRow
        <2> QED
            BY <1>2, <2>1 DEF SaveState
    <1>5. NewUserIsWhole'
        BY <1>1, <1>3, <1>4 DEF Explaining, NewUserIsWhole
    <1>6. CopiesAreExplained'
        <2> SUFFICES ASSUME NEW t \in Save, save'[t].copy # NoRow, NEW f \in Field
                     PROVE  Brought(t, f, save[t].copy[f])'
            BY DEF CopiesAreExplained
        <2> QED
            BY <1>1, <1>3, CopiesStay DEF Explaining
    <1> QED
        BY <1>1, <1>5, <1>6, RowStays DEF Explaining

LEMMA ColumnsExplain ==
    ASSUME ChangelogInv, Explaining, NEW s \in Save, UpdateColumns(s) PROVE Explaining'
    <1>1. PICK fields \in SUBSET Field :
            /\ row' = [f \in Field |-> IF f \in fields THEN s ELSE row[f]]
            /\ save' = [save EXCEPT ![s].pc = "done", ![s].columns = fields]
        BY DEF UpdateColumns
    <1>2. /\ UNCHANGED histories /\ unlogged' = unlogged \cup {s} /\ mingled \subseteq mingled'
          /\ row # NoRow
          /\ \A t \in Save : save'[t].copy = save[t].copy
          /\ \A t \in Save : t # s => save'[t] = save[t]
          /\ save'[s].pc = "done"
        BY <1>1 DEF UpdateColumns, ChangelogInv, ChangelogTypeOK, SaveState
    <1>3. RowIsExplained'
        <2> SUFFICES ASSUME NEW f \in Field PROVE Explained(row[f], f)'
            BY DEF RowIsExplained
        <2>1. PICK value : value = row[f]
            OBVIOUS
        <2>2. Explained(value, f)' /\ Explained(s, f)'
            BY <1>2, <2>1, ExplainedStays DEF Explaining, RowIsExplained, Explained
        <2>3. row'[f] = s \/ row'[f] = value
            BY <1>1, <2>1
        <2> QED
            BY <2>2, <2>3 DEF Explained
    <1>4. CopiesAreExplained'
        <2> SUFFICES ASSUME NEW t \in Save, save'[t].copy # NoRow, NEW f \in Field
                     PROVE  Brought(t, f, save[t].copy[f])'
            BY DEF CopiesAreExplained
        <2> QED
            BY <1>2, CopiesStay DEF Explaining
    <1>5. NewUserIsWhole'
        <2>1. DOMAIN row' = Field
            BY <1>1
        <2>2. row' = NoRow => Field = {}
            BY <2>1 DEF NoRow
        <2>3. \A t \in Save : save'[t].columns \subseteq Field
            BY <1>1, <1>2 DEF ChangelogInv, ChangelogTypeOK, SaveState
        <2> QED
            BY <2>2, <2>3 DEF NewUserIsWhole
    <1> QED
        BY <1>3, <1>4, <1>5 DEF Explaining

LEMMA CommitExplains ==
    ASSUME ChangelogInv, Explaining, NEW s \in Save, CommitSave(s) PROVE Explaining'
    <1>1. /\ UNCHANGED <<histories, unlogged>> /\ mingled \subseteq mingled'
          /\ \A t \in Save : save'[t].copy = save[t].copy /\ save'[t].columns = save[t].columns
          /\ save[s].pc = "commit" /\ save[s].copy \in UserRow
          /\ \A t \in Save : save[t].columns \subseteq Field
          /\ row \in UserRow \cup {NoRow}
        BY DEF CommitSave, SaveAt, ChangelogInv, ChangelogTypeOK, SaveState
    <1>2. DOMAIN row' = Field
        BY <1>1 DEF CommitSave, UserRow
    <1>3. RowIsExplained'
        <2> SUFFICES ASSUME NEW f \in Field PROVE Explained(row[f], f)'
            BY DEF RowIsExplained
        <2>1. PICK value : value = row'[f]
            OBVIOUS
        <2>2. \/ row # NoRow /\ value = row[f]
              \/ f \in save[s].columns /\ value = save[s].copy[f]
            BY <1>1, <2>1 DEF CommitSave, Explaining, NewUserIsWhole
        <2>3. ASSUME row # NoRow, value = row[f] PROVE Explained(value, f)
            BY <2>3 DEF Explaining, RowIsExplained
        <2>4. ASSUME f \in save[s].columns, value = save[s].copy[f] PROVE Explained(value, f)
            <3>1. DOMAIN save[s].copy = Field
                BY <1>1 DEF UserRow
            <3>2. save[s].copy # NoRow
                BY <3>1 DEF NoRow
            <3>3. value = s \/ Explained(value, f)
                BY <2>4, <3>2 DEF Explaining, CopiesAreExplained, Brought
            <3>4. Explained(s, f)
                BY <1>1, <2>4, CommitsExplained DEF SaveAt
            <3> QED
                BY <3>3, <3>4
        <2>5. Explained(value, f)'
            BY <1>1, <2>2, <2>3, <2>4, ExplainedStays
        <2> QED
            BY <2>1, <2>5 DEF Explained
    <1>4. CopiesAreExplained'
        <2> SUFFICES ASSUME NEW t \in Save, save'[t].copy # NoRow, NEW f \in Field
                     PROVE  Brought(t, f, save[t].copy[f])'
            BY DEF CopiesAreExplained
        <2> QED
            BY <1>1, CopiesStay DEF Explaining
    <1>5. NewUserIsWhole'
        <2>1. row' = NoRow => Field = {}
            BY <1>2 DEF NoRow
        <2> QED
            BY <1>1, <2>1 DEF NewUserIsWhole
    <1> QED
        BY <1>3, <1>4, <1>5 DEF Explaining

LEMMA ExplainingStep == ChangelogInv /\ Explaining /\ [ChangelogNext]_changelogVars => Explaining'
    <1> SUFFICES ASSUME ChangelogInv, Explaining, [ChangelogNext]_changelogVars PROVE Explaining'
        OBVIOUS
    <1>1. ChangelogInv'
        BY ChangelogStep
    <1>2. ASSUME NEW s \in Save, SaveStep(s) PROVE Explaining'
        BY <1>1, <1>2, CreateExplains, LoadExplains, PassingExplains, ColumnsExplain, CommitExplains
           DEF SaveStep
    <1>3. CASE UNCHANGED changelogVars
        BY <1>3 DEF changelogVars, Explaining, RowIsExplained, CopiesAreExplained, NewUserIsWhole,
                    Brought, Explained
    <1> QED
        BY <1>2, <1>3 DEF ChangelogNext

\* The changelog has an entry of every save that nobody disturbs, when a signed-in
\* user made it, the entry says what it changed, and it says who set the values
\* of the row, whatever was written back since; not for the statements of their
\* own, which leave none.
THEOREM ChangesAreLogged == ChangelogSpec => []ChangelogIsSound
    <1>1. ChangelogInv /\ Explaining => ChangelogIsSound
        <2> SUFFICES ASSUME ChangelogInv, Explaining PROVE ChangelogIsSound
            OBVIOUS
        <2>1. EntriesTellTheTruth
            <3> SUFFICES ASSUME NEW h \in histories, h.action = "UPDATE", SaveAt(h.save, "done"),
                                h.save \notin undone \cup mingled
                         PROVE  h.old = before[h.save] /\ h.changed = save[h.save].columns
                BY DEF EntriesTellTheTruth
            <3>1. h.save \in Save /\ h.save \notin unlogged
                BY DEF ChangelogInv, ChangelogTypeOK, Entry
            <3> QED
                BY <3>1 DEF ChangelogInv, SaveHolds, Clean, UpdatesOf, SaveAt
        <2>2. SavesAreRecorded
            BY ChangelogAssumption
               DEF SavesAreRecorded, ChangelogInv, SaveHolds, Clean, SaveAt, ChangelogAssumption
        <2> QED
            BY <2>1, <2>2 DEF ChangelogInv, Explaining, ChangelogIsSound
    <1>2. ChangelogInit => Explaining
        BY DEF ChangelogInit, Explaining, RowIsExplained, CopiesAreExplained, NewUserIsWhole
    <1> QED
        BY <1>1, <1>2, InitChangelog, ChangelogStep, ExplainingStep, PTL DEF ChangelogSpec

-----------------------------------------------------------------------------
(* SeoHelper *)

\* The visits that may have pushed, those that found the run awaiting approval,
\* and what they rely on.
Spent == {v \in Visit : visit[v].pc \in {"publish", "complete", "done"}}

Editing(v)   == visit[v].pc \in {"saveEdit", "updateEdit"}
Approving(v) == visit[v].pc \in {"clone", "push", "publish", "complete"}

\* The pipelines that have asked for approval or failed, and those with a draft.
Past == {t \in Trigger : pipeline[t] \in {"cleanup", "over"}}
Drafted == {"await", "catch", "cleanup", "over"}

\* Nobody is asked for approval, and no run completed, before a pipeline has
\* saved its draft and is past.
DraftIsThere ==
    /\ \/ post.status \in {"awaiting", "completed"}
       \/ \E v \in Visit : Editing(v) \/ Approving(v)
       => Past \cap Saved # {}
    /\ \A t \in Saved : pipeline[t] \in Drafted /\ draft[t].content # None /\ draft[t].file \in Trigger
    /\ \A t \in Trigger : pipeline[t] = "await" => t \in Saved
    /\ post.draft # None => post.draft \in Saved
    /\ \A v \in Visit : Editing(v) \/ Approving(v) =>
         Copied(v) \in Saved /\ visit[v].row.status # "absent" /\ FileOf(v) = draft[Copied(v)].file
    /\ \A v \in Visit : Approving(v) => visit[v].content # None

\* Outside of contention one visit is at work; it has pushed what it publishes,
\* and published what it completes with.
OneVisit ==
    /\ \A v, w \in Visit : AtWork(v) /\ AtWork(w) => v = w
    /\ \A v \in Visit : visit[v].pc \in {"publish", "complete"} => repo.file[FileOf(v)] = visit[v].content
    /\ \A v \in Visit : visit[v].pc = "complete" =>
         draft[Copied(v)].status = "published" /\ draft[Copied(v)].content = visit[v].content
    /\ post.status = "completed" => \A v \in Visit : ~ Editing(v) /\ ~ Approving(v)

SeoInv ==
    /\ SeoTypeOK
    /\ repo.head <= repo.foreign + Cardinality(Spent)
    /\ DraftIsThere
    /\ ~contended => OneVisit /\ CompletedIsPublished

\* The visits that may have pushed only grow in number.
LEMMA SpentGrow ==
    ASSUME NEW A, NEW B \in SUBSET Visit, A \subseteq B
    PROVE  Cardinality(A) \in Nat /\ Cardinality(B) \in Nat /\ Cardinality(A) <= Cardinality(B)
           /\ Cardinality(B) <= Cardinality(Visit) /\ Cardinality(Visit) \in Nat
    BY SeoAssumption, FS_Subset, FS_CardinalityType DEF SeoAssumption

\* A pipeline, which disturbs no draft but its own: only before it has asked for
\* approval or failed does it touch the run, whose end it can only take back.
LEMMA PipelineMoves ==
    ASSUME SeoInv, NEW t \in Trigger, UNCHANGED <<visit, repo, contended>>, SeoTypeOK',
           \A s \in Trigger : s # t => pipeline'[s] = pipeline[s] /\ draft'[s] = draft[s],
           pipeline'[t] # "none",
           t \in Past => t \in Past',
           \/ draft'[t] = draft[t]
           \/ t \notin Saved /\ draft'[t].status = "draft" /\ draft'[t].content = t /\ draft'[t].file \in Trigger,
           t \in Saved' => pipeline'[t] \in Drafted,
           pipeline'[t] = "await" => t \in Saved',
           \/ post' = post
           \/ /\ t \notin Past
              /\ \/ post'.status \notin {"awaiting", "completed"} /\ post'.draft = post.draft
                 \/ post'.status = post.status /\ post'.draft = None
                 \/ post'.status = "awaiting" /\ post'.draft = t /\ t \in Past' \cap Saved'
    PROVE  SeoInv'
    <1> USE DEF SeoInv
    <1>1. /\ UNCHANGED Spent
          /\ \A v \in Visit : UNCHANGED Editing(v) /\ UNCHANGED Approving(v) /\ UNCHANGED AtWork(v)
        BY DEF Spent, Editing, Approving, AtWork
    <1>2. /\ Past \subseteq Past' /\ Saved \subseteq Saved'
          /\ Past \subseteq Triggered /\ Triggered \subseteq Triggered' /\ t \in Triggered'
        BY DEF Past, Saved, Triggered
    <1>3. \A s \in Saved : draft'[s] = draft[s]
        BY DEF Saved
    <1>4. /\ None \notin Trigger /\ t # None
          /\ \A s \in Saved : pipeline[s] \in Drafted /\ draft[s].content # None /\ draft[s].file \in Trigger
        BY SeoAssumption DEF None, SeoAssumption, DraftIsThere
    <1>5. DraftIsThere'
        <2>1. \/ post'.status \in {"awaiting", "completed"}
              \/ \E v \in Visit : Editing(v)' \/ Approving(v)'
              => Past' \cap Saved' # {}
            BY <1>1, <1>2 DEF DraftIsThere
        <2>2. \A s \in Saved' : pipeline'[s] \in Drafted /\ draft'[s].content # None
                                /\ draft'[s].file \in Trigger
            <3>1. ASSUME NEW s \in Saved', s # t PROVE s \in Saved /\ pipeline'[s] = pipeline[s]
                BY <3>1 DEF Saved
            <3> QED
                BY <1>3, <1>4, <3>1 DEF Saved
        <2>3. \A s \in Trigger : pipeline'[s] = "await" => s \in Saved'
            BY <1>2 DEF DraftIsThere
        <2>4. post'.draft # None => post'.draft \in Saved'
            BY <1>2 DEF DraftIsThere
        <2>5. \A v \in Visit : Editing(v)' \/ Approving(v)' =>
                Copied(v)' \in Saved' /\ visit'[v].row.status # "absent" /\ FileOf(v)' = draft'[Copied(v)'].file
            BY <1>1, <1>2, <1>3 DEF DraftIsThere, Copied, FileOf
        <2>6. \A v \in Visit : Approving(v)' => visit'[v].content # None
            BY <1>1 DEF DraftIsThere
        <2> QED
            BY <2>1, <2>2, <2>3, <2>4, <2>5, <2>6 DEF DraftIsThere, Copied, FileOf
    <1>6. ASSUME ~contended' PROVE OneVisit' /\ CompletedIsPublished'
        <2>1. OneVisit /\ CompletedIsPublished
            BY <1>6
        <2>2. post'.status = "completed" => post.status = "completed"
            OBVIOUS
        <2>3. \A v \in Visit : visit[v].pc = "complete" => Copied(v) \in Saved
            BY DEF DraftIsThere, Approving
        <2>4. OneVisit'
            BY <1>1, <1>3, <2>1, <2>2, <2>3 DEF OneVisit, Copied, FileOf
        <2>5. CompletedIsPublished'
            <3>1. CASE post' = post
                <4>1. Again => Again'
                    BY <1>2 DEF Again
                <4>2. post.draft # None => draft'[post.draft] = draft[post.draft]
                    BY <1>3 DEF DraftIsThere
                <4> QED
                    BY <2>1, <3>1, <4>1, <4>2 DEF CompletedIsPublished
            <3>2. ASSUME post' # post, post'.status = "completed" PROVE post'.draft = None /\ Again'
                <4>1. post.status = "completed" /\ t \notin Past /\ post'.draft = None
                    BY <3>2
                <4>2. PICK s \in Past \cap Saved : TRUE
                    BY <4>1 DEF DraftIsThere
                <4>3. s # t /\ s \in Triggered'
                    BY <1>2, <4>1, <4>2
                <4> QED
                    BY <1>2, <4>1, <4>3 DEF Again
            <3> QED
                BY <3>1, <3>2 DEF CompletedIsPublished
        <2> QED
            BY <2>4, <2>5
    <1> QED
        BY <1>1, <1>5, <1>6

LEMMA PipelineSteps ==
    ASSUME SeoInv, NEW t \in Trigger, StartPost(t) \/ Pipeline(t) PROVE SeoInv'
    <1> DEFINE To(pc) ==
                 /\ pipeline' = [pipeline EXCEPT ![t] = pc]
                 /\ pipeline'[t] = pc /\ \A s \in Trigger : s # t => pipeline'[s] = pipeline[s]
                 /\ pipeline' \in [Trigger -> {"none", "save", "await", "catch", "cleanup", "over"} \cup Stage]
    <1>0. /\ post \in Post /\ draft \in [Trigger -> Draft] /\ workspace \subseteq Trigger /\ stranded \in BOOLEAN
          /\ pipeline \in [Trigger -> {"none", "save", "await", "catch", "cleanup", "over"} \cup Stage]
          /\ None \notin Trigger
        BY SeoAssumption DEF SeoInv, SeoTypeOK, SeoAssumption, None
    <1>1. \A s \in Saved : pipeline[s] \in Drafted
        BY DEF SeoInv, DraftIsThere
    <1>2. pipeline[t] \in {"none", "save", "await", "catch", "cleanup", "over"} \cup Stage
        BY <1>0
    <1>3. CASE StartPost(t)
        <2>1. To("start") /\ pipeline[t] = "none" /\ UNCHANGED <<draft, workspace, stranded, visitVars>>
            BY <1>0, <1>3 DEF StartPost, Proceed, PipelineAt, Stage
        <2>2. post' \in Post /\ (post' = post \/ (post'.status = "pending" /\ post'.draft = post.draft))
            BY <1>0, <1>3 DEF StartPost, Post
        <2>3. SeoTypeOK'
            BY <2>1, <2>2 DEF SeoInv, SeoTypeOK, visitVars
        <2>4. t \notin Past /\ t \notin Saved'
            BY <1>1, <2>1 DEF Past, Saved, Drafted
        <2> QED
            BY <2>1, <2>2, <2>3, <2>4, PipelineMoves DEF visitVars
    <1>4. CASE FailUncaught(t)
        <2>1. /\ To("over") /\ pipeline[t] = "start" /\ UNCHANGED <<post, draft, workspace, visitVars>>
              /\ stranded' = TRUE
            BY <1>0, <1>4 DEF FailUncaught, Proceed, PipelineAt, Stage
        <2>2. SeoTypeOK'
            BY <2>1 DEF SeoInv, SeoTypeOK, visitVars
        <2>3. t \notin Saved' /\ (t \in Past => t \in Past')
            BY <1>1, <2>1 DEF Past, Saved, Drafted
        <2> QED
            BY <2>1, <2>2, <2>3, PipelineMoves DEF visitVars
    <1>5. CASE RecordStage(t)
        <2>1. pipeline[t] \in Stage /\ UNCHANGED <<draft, stranded, visitVars>>
            BY <1>5 DEF RecordStage
        <2>2. PICK pc \in {"collect", "clone", "generate", "save"} : To(pc)
            <3>1. PICK pc \in {"collect", "clone", "generate", "save"} : pipeline' = [pipeline EXCEPT ![t] = pc]
                BY <1>5, <2>1 DEF RecordStage, Proceed, PipelineAt, Stage
            <3> QED
                BY <1>0, <3>1 DEF Stage
        <2>3. /\ post' \in Post
              /\ post' = post \/ (post'.status = post.status /\ post'.draft = None)
            <3>1. PICK research \in Trigger \cup {None} :
                    post' = post \/ post' = [post EXCEPT !.research = research, !.draft = None, !.content = None]
                BY <1>5 DEF RecordStage
            <3> QED
                BY <1>0, <3>1 DEF Post, Content
        <2>4. workspace' \subseteq Trigger
            BY <1>0, <1>5 DEF RecordStage
        <2>5. SeoTypeOK'
            BY <2>1, <2>2, <2>3, <2>4 DEF SeoInv, SeoTypeOK, visitVars
        <2>6. t \notin Past /\ t \notin Saved'
            BY <1>1, <2>1 DEF Past, Saved, Drafted, Stage
        <2> QED
            BY <2>1, <2>2, <2>3, <2>5, <2>6, PipelineMoves DEF visitVars
    <1>6. CASE SaveDraft(t)
        <2>1. To("await") /\ pipeline[t] = "save" /\ UNCHANGED <<post, workspace, stranded, visitVars>>
            BY <1>0, <1>6 DEF SaveDraft, Proceed, PipelineAt
        <2>2. PICK file \in {t} \cup {draft[s].file : s \in Saved} :
                draft' = [draft EXCEPT ![t] = [status |-> "draft", content |-> t, file |-> file]]
            BY <1>6 DEF SaveDraft
        <2>3. file \in Trigger
            BY <2>2 DEF SeoInv, DraftIsThere
        <2>4. /\ draft' \in [Trigger -> Draft]
              /\ draft'[t].status = "draft" /\ draft'[t].content = t /\ draft'[t].file \in Trigger
              /\ \A s \in Trigger : s # t => draft'[s] = draft[s]
            BY <1>0, <2>2, <2>3 DEF Draft, Content
        <2>5. SeoTypeOK'
            BY <2>1, <2>4 DEF SeoInv, SeoTypeOK, visitVars
        <2>6. t \notin Past /\ t \notin Saved /\ t \in Saved'
            BY <1>1, <2>1, <2>4 DEF Past, Saved, Drafted
        <2> QED
            BY <2>1, <2>4, <2>5, <2>6, PipelineMoves DEF visitVars, Drafted
    <1>7. CASE AwaitApproval(t)
        <2>1. /\ To("cleanup") /\ pipeline[t] = "await" /\ UNCHANGED <<draft, workspace, stranded, visitVars>>
              /\ post' = [status |-> "awaiting", research |-> t, draft |-> t, content |-> t]
            BY <1>0, <1>7 DEF AwaitApproval, Proceed, PipelineAt
        <2>2. post' \in Post /\ post'.status = "awaiting" /\ post'.draft = t
            BY <2>1 DEF Post, Content
        <2>3. SeoTypeOK'
            BY <2>1, <2>2 DEF SeoInv, SeoTypeOK, visitVars
        <2>4. t \in Saved' /\ t \notin Past /\ t \in Past'
            BY <2>1 DEF SeoInv, DraftIsThere, Saved, Past
        <2> QED
            BY <2>1, <2>2, <2>3, <2>4, PipelineMoves DEF visitVars, Drafted
    <1>8. CASE FailStage(t)
        <2>1. /\ To("catch") /\ pipeline[t] \in Stage \cup {"save", "await"}
              /\ UNCHANGED <<post, draft, workspace, stranded, visitVars>>
            BY <1>0, <1>8 DEF FailStage, Proceed
        <2>2. SeoTypeOK'
            BY <2>1 DEF SeoInv, SeoTypeOK, visitVars
        <2>3. t \notin Past
            BY <2>1 DEF Past, Stage
        <2> QED
            BY <2>1, <2>2, <2>3, PipelineMoves DEF visitVars, Drafted
    <1>9. CASE MarkFailed(t)
        <2>1. To("cleanup") /\ pipeline[t] = "catch" /\ UNCHANGED <<draft, workspace, visitVars>>
            BY <1>0, <1>9 DEF MarkFailed, Proceed, PipelineAt
        <2>2. /\ post' \in Post /\ stranded' \in BOOLEAN
              /\ post' = post \/ (post'.status = "failed" /\ post'.draft = post.draft)
            BY <1>0, <1>9 DEF MarkFailed, Post
        <2>3. SeoTypeOK'
            BY <2>1, <2>2 DEF SeoInv, SeoTypeOK, visitVars
        <2>4. t \notin Past
            BY <2>1 DEF Past
        <2> QED
            BY <2>1, <2>2, <2>3, <2>4, PipelineMoves DEF visitVars, Drafted
    <1>10. CASE RemoveWorkspace(t)
        <2>1. /\ To("over") /\ UNCHANGED <<post, draft, stranded, visitVars>>
              /\ workspace' = workspace \ {t}
            BY <1>0, <1>10 DEF RemoveWorkspace, Proceed, PipelineAt
        <2>2. SeoTypeOK'
            BY <1>0, <2>1 DEF SeoInv, SeoTypeOK, visitVars
        <2>3. t \in Past'
            BY <2>1 DEF Past
        <2> QED
            BY <2>1, <2>2, <2>3, PipelineMoves DEF visitVars, Drafted
    <1> QED
        BY <1>3, <1>4, <1>5, <1>6, <1>7, <1>8, <1>9, <1>10 DEF Pipeline

\* What a request holds before and after.
LEMMA FreshVisits ==
    /\ FreshVisit \in VisitState /\ FreshVisit.pc = "idle"
    /\ [FreshVisit EXCEPT !.pc = "done"] \in VisitState /\ [FreshVisit EXCEPT !.pc = "done"].pc = "done"
    <1>1. NoDraft \in Draft /\ NoPost \in Post /\ None \in Content
        BY DEF NoDraft, NoPost, Draft, Post, Content
    <1>2. 0 \in 0..(MaxForeignPushes + Cardinality(Visit))
        BY SpentGrow, SeoAssumption DEF SeoAssumption
    <1> QED
        BY <1>1, <1>2 DEF FreshVisit, VisitState

\* What a visit that has found the run awaiting approval may hold.
LEMMA WhatAwaits ==
    ASSUME SeoInv, Awaits
    PROVE  /\ post.draft \in Saved /\ draft[post.draft] \in Draft
           /\ draft[post.draft].status # "absent" /\ draft[post.draft].content # None
    BY DEF SeoInv, SeoTypeOK, DraftIsThere, Awaits, Saved

\* A visit that changes nothing but itself, and is not about to publish.
LEMMA VisitMoves ==
    ASSUME SeoInv, NEW v \in Visit, UNCHANGED <<post, draft, repo, pipelineVars>>,
           visit' \in [Visit -> VisitState], contended' \in BOOLEAN, contended => contended',
           \A w \in Visit : w # v => visit'[w] = visit[w],
           visit[v].pc \notin {"done"},
           visit[v].pc \in {"publish", "complete"} => visit'[v].pc = "done",
           visit'[v].pc \notin {"publish", "complete"},
           Editing(v)' \/ Approving(v)' =>
             \/ Awaits /\ visit'[v].row = draft[post.draft] /\ visit'[v].post = post
             \/ Approving(v) /\ visit'[v].row = visit[v].row /\ visit'[v].post = visit[v].post,
           Approving(v)' => visit'[v].content # None,
           AtWork(v) \/ contended' \/ \A w \in Visit : ~ AtWork(w)
    PROVE  SeoInv'
    <1> USE DEF SeoInv
    <1>1. /\ UNCHANGED <<post, draft, repo, pipeline, workspace, seoCrashes, stranded>>
          /\ UNCHANGED Past /\ UNCHANGED Saved /\ UNCHANGED Triggered
          /\ \A w \in Visit : w # v =>
               UNCHANGED Editing(w) /\ UNCHANGED Approving(w) /\ UNCHANGED AtWork(w)
        BY DEF pipelineVars, Editing, Approving, AtWork, Past, Saved, Triggered
    <1>2. SeoTypeOK'
        BY <1>1 DEF SeoTypeOK
    <1>3. repo'.head <= repo'.foreign + Cardinality(Spent')
        <2>1. Spent \subseteq Spent' /\ Spent' \in SUBSET Visit
            BY DEF Spent
        <2>2. Cardinality(Spent) \in Nat /\ Cardinality(Spent') \in Nat
              /\ Cardinality(Spent) <= Cardinality(Spent')
            BY <2>1, SpentGrow
        <2>3. repo.head \in Nat /\ repo.foreign \in Nat
            BY SpentGrow, SeoAssumption DEF SeoTypeOK, Repo, SeoAssumption
        <2> QED
            BY <1>1, <2>2, <2>3
    <1>4. DraftIsThere'
        <2>1. \A w \in Visit : Editing(w)' \/ Approving(w)' => Awaits \/ Editing(w) \/ Approving(w)
            BY <1>1
        <2>2. post.status \in {"awaiting", "completed"}
                \/ (\E w \in Visit : Editing(w)' \/ Approving(w)')
              => Past \cap Saved # {}
            BY <2>1 DEF DraftIsThere, Awaits
        <2>3. \A w \in Visit : Editing(w)' \/ Approving(w)' =>
                Copied(w)' \in Saved /\ visit'[w].row.status # "absent" /\ FileOf(w)' = draft[Copied(w)'].file
            <3>1. ASSUME NEW w \in Visit, w # v, Editing(w)' \/ Approving(w)'
                  PROVE  Copied(w)' \in Saved /\ visit'[w].row.status # "absent"
                         /\ FileOf(w)' = draft[Copied(w)'].file
                BY <1>1, <3>1 DEF DraftIsThere, Copied, FileOf
            <3>2. ASSUME Editing(v)' \/ Approving(v)'
                  PROVE  Copied(v)' \in Saved /\ visit'[v].row.status # "absent"
                         /\ FileOf(v)' = draft[Copied(v)'].file
                BY <3>2, WhatAwaits DEF DraftIsThere, Copied, FileOf
            <3> QED
                BY <3>1, <3>2
        <2>4. \A w \in Visit : Approving(w)' => visit'[w].content # None
            BY <1>1 DEF DraftIsThere
        <2> QED
            BY <1>1, <2>2, <2>3, <2>4 DEF DraftIsThere, Copied, FileOf
    <1>5. ASSUME ~contended' PROVE OneVisit' /\ CompletedIsPublished'
        <2>1. OneVisit /\ CompletedIsPublished
            BY <1>5
        <2>2. UNCHANGED Again
            BY <1>1 DEF Again
        <2>3. OneVisit'
            BY <1>1, <1>5, <2>1 DEF OneVisit, Copied, FileOf, Awaits
        <2> QED
            BY <1>1, <2>1, <2>2, <2>3 DEF CompletedIsPublished
    <1> QED
        BY <1>2, <1>3, <1>4, <1>5

LEMMA ReadingSteps ==
    ASSUME SeoInv, NEW v \in Visit,
           BeginVisit(v) \/ ReadForEdit(v) \/ ReadForApproval(v) \/ CloneRepo(v) \/ FailVisit(v)
    PROVE  SeoInv'
    <1> DEFINE Only(pc) ==
                 /\ visit' \in [Visit -> VisitState] /\ visit'[v].pc = pc
                 /\ \A w \in Visit : w # v => visit'[w] = visit[w]
    <1>0. /\ visit \in [Visit -> VisitState] /\ post \in Post /\ contended \in BOOLEAN
          /\ repo.head \in 0..(MaxForeignPushes + Cardinality(Visit))
        BY DEF SeoInv, SeoTypeOK, Repo
    <1>1. Leave(v) => Only("done")
        BY <1>0, FreshVisits DEF Leave
    <1>2. CASE BeginVisit(v)
        <2>1. PICK kind \in {"edit", "approve", "editAndApprove"}, pc \in {"read", "edit"} :
                visit' = [visit EXCEPT ![v].kind = kind, ![v].pc = pc]
            BY <1>2 DEF BeginVisit
        <2>2. Only(pc)
            BY <1>0, <2>1, ZenonT(30) DEF VisitState
        <2>3. /\ UNCHANGED <<post, draft, repo, pipelineVars>> /\ visit[v].pc = "idle"
              /\ contended' \in BOOLEAN /\ (contended => contended')
              /\ (contended' \/ \A w \in Visit : ~ AtWork(w))
            BY <1>0, <1>2 DEF BeginVisit, VisitAt
        <2> QED
            BY <2>2, <2>3, VisitMoves DEF Editing, Approving
    <1>3. CASE ReadForEdit(v)
        <2>1. UNCHANGED <<post, draft, repo, contended, pipelineVars>> /\ visit[v].pc = "edit"
            BY <1>3 DEF ReadForEdit, VisitAt
        <2>2. CASE Awaits
            <3> DEFINE copy == [visit[v] EXCEPT !.pc = "saveEdit", !.row = draft[post.draft], !.post = post]
            <3>1. visit' = [visit EXCEPT ![v] = copy]
                BY <1>3, <2>2 DEF ReadForEdit
            <3>2. copy \in VisitState /\ copy.pc = "saveEdit" /\ copy.row = draft[post.draft] /\ copy.post = post
                BY <1>0, <2>2, WhatAwaits DEF VisitState
            <3> HIDE DEF copy
            <3>3. Only("saveEdit") /\ visit'[v].row = draft[post.draft] /\ visit'[v].post = post
                BY <1>0, <3>1, <3>2
            <3> QED
                BY <1>0, <2>1, <2>2, <3>3, VisitMoves DEF Editing, Approving, AtWork
        <2>3. CASE ~ Awaits
            <3>1. Only("done")
                BY <1>1, <1>3, <2>3 DEF ReadForEdit
            <3> QED
                BY <1>0, <2>1, <3>1, VisitMoves DEF Editing, Approving, AtWork
        <2> QED
            BY <2>2, <2>3
    <1>4. CASE ReadForApproval(v)
        <2>1. UNCHANGED <<post, draft, repo, contended, pipelineVars>> /\ visit[v].pc = "read"
            BY <1>4 DEF ReadForApproval, VisitAt
        <2>2. CASE Awaits
            <3>1. PICK content \in Content :
                    content = IF visit[v].kind = "approve" THEN draft[post.draft].content ELSE v
                BY <1>0, <2>2, WhatAwaits DEF Draft, Content
            <3> DEFINE copy == [visit[v] EXCEPT !.pc = "clone", !.row = draft[post.draft], !.post = post,
                                                !.content = content]
            <3>2. visit' = [visit EXCEPT ![v] = copy]
                BY <1>4, <2>2, <3>1 DEF ReadForApproval
            <3>3. copy \in VisitState /\ copy.pc = "clone" /\ copy.row = draft[post.draft] /\ copy.post = post
                  /\ copy.content = content
                BY <1>0, <2>2, WhatAwaits DEF VisitState
            <3> HIDE DEF copy
            <3>4. Only("clone") /\ visit'[v].row = draft[post.draft] /\ visit'[v].post = post
                  /\ visit'[v].content = content
                BY <1>0, <3>2, <3>3
            <3>5. content # None
                BY <2>2, <3>1, WhatAwaits, SeoAssumption DEF SeoAssumption, None
            <3> QED
                BY <1>0, <2>1, <2>2, <3>4, <3>5, VisitMoves DEF Editing, Approving, AtWork
        <2>3. CASE ~ Awaits
            <3>1. Only("done")
                BY <1>1, <1>4, <2>3 DEF ReadForApproval
            <3> QED
                BY <1>0, <2>1, <3>1, VisitMoves DEF Editing, Approving, AtWork
        <2> QED
            BY <2>2, <2>3
    <1>5. CASE CloneRepo(v)
        <2>1. /\ UNCHANGED <<post, draft, repo, contended, pipelineVars>> /\ visit[v].pc = "clone"
              /\ visit' = [visit EXCEPT ![v].pc = "push", ![v].base = repo.head]
            BY <1>5 DEF CloneRepo, VisitAt
        <2>2. /\ Only("push") /\ visit'[v].content = visit[v].content
              /\ visit'[v].row = visit[v].row /\ visit'[v].post = visit[v].post
            <3> DEFINE rec == [visit[v] EXCEPT !.pc = "push", !.base = repo.head]
            <3>1. visit' = [visit EXCEPT ![v] = rec]
                BY <2>1
            <3>2. /\ rec \in VisitState /\ rec.pc = "push" /\ rec.content = visit[v].content
                  /\ rec.row = visit[v].row /\ rec.post = visit[v].post
                BY <1>0 DEF VisitState
            <3> HIDE DEF rec
            <3> QED
                BY <1>0, <3>1, <3>2
        <2>3. Approving(v) /\ visit[v].content # None
            BY <2>1 DEF SeoInv, DraftIsThere, Approving
        <2> QED
            BY <1>0, <2>1, <2>2, <2>3, VisitMoves DEF Editing, AtWork
    <1>6. CASE FailVisit(v)
        <2>1. /\ UNCHANGED <<post, draft, repo, contended, pipelineVars>> /\ AtWork(v) /\ Only("done")
            BY <1>1, <1>6 DEF FailVisit
        <2> QED
            BY <1>0, <2>1, VisitMoves DEF Editing, Approving, AtWork
    <1> QED
        BY <1>2, <1>3, <1>4, <1>5, <1>6

\* A visit that has found the run awaiting approval writes back what it read: a
\* draft that stays saved in its file, and steps that name it.
LEMMA WritesBack ==
    ASSUME SeoInv, NEW v \in Visit, NEW pc, Editing(v) \/ Approving(v),
           UNCHANGED <<repo, contended, pipelineVars>>,
           visit' = [visit EXCEPT ![v].pc = pc] \/ (pc = "done" /\ Leave(v)),
           visit' \in [Visit -> VisitState], visit'[v].pc = pc, pc # "saveEdit",
           visit[v].pc \in {"publish", "complete"} => pc \in {"complete", "done"},
           pc \in {"clone", "push", "publish", "complete"} => Approving(v),
           draft' = draft \/ \E kept \in Draft : kept.status # "absent" /\ kept.content # None
               /\ kept.file = FileOf(v) /\ draft' = [draft EXCEPT ![Copied(v)] = kept],
           post' = post \/ (post' \in Post /\ post'.draft = Copied(v)
               /\ (post'.status = post.status \/ Approving(v)))
    PROVE  /\ SeoTypeOK' /\ DraftIsThere' /\ UNCHANGED Saved
           /\ repo'.head <= repo'.foreign + Cardinality(Spent')
    <1> USE DEF SeoInv
    <1>0. /\ visit \in [Visit -> VisitState] /\ draft \in [Trigger -> Draft] /\ post \in Post
          /\ Copied(v) \in Saved /\ Copied(v) \in Trigger /\ FileOf(v) = draft[Copied(v)].file
        BY DEF SeoTypeOK, DraftIsThere, Saved
    <1>1. \A w \in Visit : w # v =>
            /\ visit'[w] = visit[w]
            /\ UNCHANGED Editing(w) /\ UNCHANGED Approving(w) /\ UNCHANGED AtWork(w)
        <2>1. \A w \in Visit : w # v => visit'[w] = visit[w]
            BY <1>0 DEF Leave
        <2> QED
            BY <2>1 DEF Editing, Approving, AtWork
    <1>2. pc # "done" => visit'[v].row = visit[v].row /\ visit'[v].post = visit[v].post
                         /\ visit'[v].content = visit[v].content
        BY <1>0 DEF Leave, VisitState
    <1>3. /\ draft' \in [Trigger -> Draft] /\ UNCHANGED Saved
          /\ \A s \in Trigger : draft'[s].file = draft[s].file
          /\ \A s \in Saved : draft'[s].content # None
        <2>1. CASE draft' = draft
            BY <1>0, <2>1 DEF Saved, DraftIsThere
        <2>2. ASSUME NEW kept \in Draft, kept.status # "absent", kept.content # None,
                     kept.file = FileOf(v), draft' = [draft EXCEPT ![Copied(v)] = kept]
              PROVE  /\ draft' \in [Trigger -> Draft] /\ UNCHANGED Saved
                     /\ \A s \in Trigger : draft'[s].file = draft[s].file
                     /\ \A s \in Saved : draft'[s].content # None
            BY <1>0, <2>2 DEF Saved, DraftIsThere
        <2> QED
            BY <2>1, <2>2
    <1>4. post' \in Post /\ (post'.draft # None => post'.draft \in Saved)
        BY <1>0 DEF DraftIsThere
    <1>5. SeoTypeOK'
        BY <1>3, <1>4 DEF SeoTypeOK, pipelineVars
    <1>6. UNCHANGED Past
        BY DEF Past, pipelineVars
    <1>7. DraftIsThere'
        <2>1. Past \cap Saved # {}
            BY DEF DraftIsThere
        <2>2. \A s \in Saved : pipeline[s] \in Drafted /\ draft'[s].content # None /\ draft'[s].file \in Trigger
            BY <1>3 DEF DraftIsThere, Saved
        <2>3. \A w \in Visit : Editing(w)' \/ Approving(w)' =>
                Copied(w)' \in Saved /\ visit'[w].row.status # "absent" /\ FileOf(w)' = draft'[Copied(w)'].file
            <3>1. ASSUME NEW w \in Visit, w # v, Editing(w)' \/ Approving(w)'
                  PROVE  Copied(w)' \in Saved /\ visit'[w].row.status # "absent"
                         /\ FileOf(w)' = draft'[Copied(w)'].file
                BY <1>1, <1>3, <3>1 DEF DraftIsThere, Copied, FileOf, Saved
            <3>2. ASSUME Editing(v)' \/ Approving(v)'
                  PROVE  Copied(v)' \in Saved /\ visit'[v].row.status # "absent"
                         /\ FileOf(v)' = draft'[Copied(v)'].file
                <4>1. pc # "done"
                    BY <3>2 DEF Editing, Approving
                <4> QED
                    BY <1>0, <1>2, <1>3, <4>1 DEF DraftIsThere, Copied, FileOf
            <3> QED
                BY <3>1, <3>2
        <2>4. \A w \in Visit : Approving(w)' => visit'[w].content # None
            BY <1>1, <1>2 DEF DraftIsThere, Approving
        <2> QED
            BY <1>3, <1>4, <1>6, <2>1, <2>2, <2>3, <2>4 DEF DraftIsThere, Copied, FileOf, pipelineVars
    <1>8. repo'.head <= repo'.foreign + Cardinality(Spent')
        <2>1. Spent \subseteq Spent' /\ Spent' \in SUBSET Visit
            BY <1>1 DEF Spent, Editing, Approving
        <2>2. Cardinality(Spent) \in Nat /\ Cardinality(Spent') \in Nat
              /\ Cardinality(Spent) <= Cardinality(Spent')
            BY <2>1, SpentGrow
        <2>3. repo.head \in Nat /\ repo.foreign \in Nat
            BY SpentGrow, SeoAssumption DEF SeoTypeOK, Repo, SeoAssumption
        <2> QED
            BY <2>2, <2>3
    <1> QED
        BY <1>3, <1>5, <1>7, <1>8

LEMMA EditSteps ==
    ASSUME SeoInv, NEW v \in Visit, SaveEdit(v) \/ UpdateSteps(v) PROVE SeoInv'
    <1>0. /\ visit \in [Visit -> VisitState] /\ v \in Content /\ v # None /\ post \in Post
        BY SeoAssumption DEF SeoInv, SeoTypeOK, Content, None, SeoAssumption
    <1>1. PICK pc \in {"updateEdit", "done", "read"} :
            /\ visit' = [visit EXCEPT ![v].pc = pc]
            /\ Editing(v)
            /\ UNCHANGED <<repo, contended, pipelineVars>>
        BY DEF SaveEdit, UpdateSteps, AfterEdit, VisitAt, Editing
    <1>2. /\ visit' \in [Visit -> VisitState] /\ visit'[v].pc = pc
          /\ \A w \in Visit : w # v => visit'[w] = visit[w]
        BY <1>0, <1>1 DEF VisitState
    <1>3. /\ visit[v].row \in Draft /\ visit[v].row.status # "absent" /\ visit[v].post \in Post
          /\ Copied(v) \in Saved
        BY <1>0, <1>1 DEF SeoInv, DraftIsThere, VisitState
    <1>4. draft' = draft \/ \E kept \in Draft : kept.status # "absent" /\ kept.content # None
               /\ kept.file = FileOf(v) /\ draft' = [draft EXCEPT ![Copied(v)] = kept]
        <2>1. CASE SaveEdit(v)
            <3> DEFINE kept == [visit[v].row EXCEPT !.content = v]
            <3>1. draft' = [draft EXCEPT ![Copied(v)] = kept]
                BY <2>1 DEF SaveEdit
            <3>2. kept \in Draft /\ kept.status # "absent" /\ kept.content # None /\ kept.file = FileOf(v)
                BY <1>0, <1>3 DEF Draft, FileOf
            <3> HIDE DEF kept
            <3> QED
                BY <3>1, <3>2
        <2>2. CASE UpdateSteps(v)
            BY <2>2 DEF UpdateSteps
        <2> QED
            BY <2>1, <2>2
    <1>5. /\ post' \in Post /\ post'.status = post.status
          /\ post' = post \/ post'.draft = Copied(v)
        BY <1>0, <1>3 DEF SaveEdit, UpdateSteps, Post, Copied
    <1>6. SeoTypeOK' /\ DraftIsThere' /\ repo'.head <= repo'.foreign + Cardinality(Spent')
        BY <1>1, <1>2, <1>4, <1>5, WritesBack DEF Editing
    <1>7. ASSUME ~contended' PROVE OneVisit' /\ CompletedIsPublished'
        <2>1. OneVisit /\ post.status # "completed"
            BY <1>1, <1>7 DEF SeoInv, OneVisit
        <2>2. AtWork(v) /\ \A w \in Visit : AtWork(w) => w = v
            BY <1>1, <2>1 DEF OneVisit, AtWork, Editing
        <2>3. \A w \in Visit : w # v => UNCHANGED AtWork(w) /\ visit'[w].pc \notin {"publish", "complete"}
            BY <1>2, <2>2 DEF AtWork
        <2>4. \A w \in Visit : visit'[w].pc \notin {"publish", "complete"}
            BY <1>2, <2>3
        <2>5. \A w \in Visit : AtWork(w)' => w = v
            BY <2>2, <2>3
        <2> QED
            BY <1>5, <2>1, <2>4, <2>5 DEF OneVisit, CompletedIsPublished
    <1> QED
        BY <1>6, <1>7 DEF SeoInv

\* A push is one more visit that has pushed.
LEMMA PushStep ==
    ASSUME SeoInv, NEW v \in Visit, CommitAndPush(v) PROVE SeoInv'
    <1>1. UNCHANGED <<post, draft, contended, pipelineVars>> /\ visit[v].pc = "push"
        BY DEF CommitAndPush, VisitAt
    <1>2. /\ visit \in [Visit -> VisitState] /\ contended \in BOOLEAN
          /\ repo.head \in Nat /\ repo.foreign \in 0..MaxForeignPushes /\ repo.foreign \in Nat
          /\ repo.file \in [Trigger -> Content] /\ MaxForeignPushes \in Nat /\ repo \in Repo
        BY SpentGrow, SeoAssumption DEF SeoInv, SeoTypeOK, SeoAssumption, Repo
    <1>3. Approving(v) /\ AtWork(v) /\ FileOf(v) \in Trigger
        BY <1>1 DEF Approving, AtWork, SeoInv, DraftIsThere
    <1>4. CASE repo.head = visit[v].base /\ repo.file[FileOf(v)] # visit[v].content
        <2>1. /\ visit' = [visit EXCEPT ![v].pc = "publish"]
              /\ repo' = [repo EXCEPT !.head = @ + 1, !.file[FileOf(v)] = visit[v].content]
            BY <1>4 DEF CommitAndPush
        <2>2. /\ visit' \in [Visit -> VisitState] /\ visit'[v].pc = "publish"
              /\ visit'[v].content = visit[v].content /\ visit[v].content \in Content
              /\ visit'[v].row = visit[v].row /\ visit'[v].post = visit[v].post
              /\ \A w \in Visit : w # v => visit'[w] = visit[w]
            BY <1>2, <2>1 DEF VisitState
        <2>3. /\ Cardinality(Spent') = Cardinality(Spent) + 1
              /\ Cardinality(Spent') \in Nat /\ Cardinality(Spent) \in Nat
              /\ Cardinality(Spent') <= Cardinality(Visit) /\ Cardinality(Visit) \in Nat
            <3>1. Spent' = Spent \cup {v} /\ v \notin Spent /\ Spent' \in SUBSET Visit
                BY <1>1, <2>2 DEF Spent
            <3>2. IsFiniteSet(Spent)
                BY SeoAssumption, FS_Subset DEF SeoAssumption, Spent
            <3>3. Cardinality(Spent \cup {v}) = Cardinality(Spent) + 1
                BY <3>1, <3>2, FS_AddElement
            <3> QED
                BY <3>1, <3>3, SpentGrow
        <2>4. /\ repo'.head = repo.head + 1 /\ repo'.foreign = repo.foreign
              /\ repo'.file = [repo.file EXCEPT ![FileOf(v)] = visit[v].content]
              /\ DOMAIN repo' = DOMAIN repo
              /\ repo' = [head |-> repo.head + 1, foreign |-> repo.foreign,
                          file |-> [repo.file EXCEPT ![FileOf(v)] = visit[v].content]]
            BY <1>2, <2>1 DEF Repo
        <2>5. repo'.head <= repo'.foreign + Cardinality(Spent')
            BY <1>2, <2>3, <2>4 DEF SeoInv
        <2>6. repo' \in Repo
            <3>1. repo.head + 1 \in 0..(MaxForeignPushes + Cardinality(Visit))
                BY <1>2, <2>3, <2>4, <2>5
            <3>2. [repo.file EXCEPT ![FileOf(v)] = visit[v].content] \in [Trigger -> Content]
                BY <1>2, <2>2
            <3> QED
                BY <1>2, <2>4, <3>1, <3>2 DEF Repo
        <2>7. SeoTypeOK'
            BY <1>1, <2>2, <2>6 DEF SeoInv, SeoTypeOK, pipelineVars
        <2>8. /\ \A w \in Visit : UNCHANGED Editing(w) /\ UNCHANGED Approving(w) /\ UNCHANGED AtWork(w)
              /\ \A w \in Visit : UNCHANGED Copied(w) /\ UNCHANGED FileOf(w)
              /\ UNCHANGED Past /\ UNCHANGED Saved
            BY <1>1, <2>2 DEF Editing, Approving, AtWork, Copied, FileOf, Past, Saved, pipelineVars
        <2>9. DraftIsThere'
            BY <1>1, <2>2, <2>8 DEF SeoInv, DraftIsThere, pipelineVars
        <2>10. ASSUME ~contended' PROVE OneVisit' /\ CompletedIsPublished'
            <3>1. OneVisit
                BY <1>1, <2>10 DEF SeoInv
            <3>2. post.status # "completed" /\ \A w \in Visit : AtWork(w) => w = v
                BY <1>3, <3>1 DEF OneVisit
            <3>3. repo'.file[FileOf(v)] = visit[v].content
                BY <1>2, <1>3, <2>4
            <3> QED
                BY <1>1, <2>2, <2>8, <3>1, <3>2, <3>3 DEF OneVisit, CompletedIsPublished, AtWork
        <2> QED
            BY <2>5, <2>7, <2>9, <2>10 DEF SeoInv
    <1>5. CASE ~ (repo.head = visit[v].base /\ repo.file[FileOf(v)] # visit[v].content)
        <2>1. UNCHANGED repo /\ Leave(v)
            BY <1>5 DEF CommitAndPush
        <2>2. /\ visit' \in [Visit -> VisitState] /\ visit'[v].pc = "done"
              /\ \A w \in Visit : w # v => visit'[w] = visit[w]
            BY <1>2, <2>1, FreshVisits DEF Leave
        <2> QED
            BY <1>1, <1>2, <2>1, <2>2, VisitMoves DEF Editing, Approving, AtWork
    <1> QED
        BY <1>4, <1>5

\* What has been pushed is published, and the run completed with it.
LEMMA PublishSteps ==
    ASSUME SeoInv, NEW v \in Visit, PublishDraft(v) \/ CompletePost(v) PROVE SeoInv'
    <1>0. visit \in [Visit -> VisitState] /\ draft \in [Trigger -> Draft] /\ post \in Post
        BY DEF SeoInv, SeoTypeOK
    <1>1. /\ Approving(v) /\ AtWork(v) /\ visit[v].pc \in {"publish", "complete"}
          /\ UNCHANGED <<repo, contended, pipelineVars>>
        BY DEF PublishDraft, CompletePost, VisitAt, Approving, AtWork
    <1>2. /\ Copied(v) \in Saved /\ Copied(v) \in Trigger /\ FileOf(v) = draft[Copied(v)].file
          /\ visit[v].row \in Draft /\ visit[v].post \in Post
          /\ visit[v].content \in Content /\ visit[v].content # None
        BY <1>0, <1>1 DEF SeoInv, DraftIsThere, VisitState, Saved
    <1>3. CASE PublishDraft(v)
        <2> DEFINE kept == [visit[v].row EXCEPT !.status = "published", !.content = visit[v].content]
        <2>1. /\ visit' = [visit EXCEPT ![v].pc = "complete"] /\ post' = post
              /\ draft' = [draft EXCEPT ![Copied(v)] = kept]
            BY <1>3 DEF PublishDraft
        <2>2. kept \in Draft /\ kept.status = "published" /\ kept.content = visit[v].content /\ kept.file = FileOf(v)
            BY <1>2 DEF Draft, FileOf
        <2> HIDE DEF kept
        <2>3. /\ visit' \in [Visit -> VisitState] /\ visit'[v].pc = "complete"
              /\ visit'[v].content = visit[v].content /\ visit'[v].row = visit[v].row
              /\ visit'[v].post = visit[v].post
              /\ \A w \in Visit : w # v => visit'[w] = visit[w]
            BY <1>0, <2>1 DEF VisitState
        <2>4. \E r \in Draft : r.status # "absent" /\ r.content # None
               /\ r.file = FileOf(v) /\ draft' = [draft EXCEPT ![Copied(v)] = r]
            BY <1>2, <2>1, <2>2
        <2>5. SeoTypeOK' /\ DraftIsThere' /\ repo'.head <= repo'.foreign + Cardinality(Spent')
            BY <1>1, <2>1, <2>3, <2>4, WritesBack
        <2>6. ASSUME ~contended' PROVE OneVisit' /\ CompletedIsPublished'
            <3>1. OneVisit /\ post.status # "completed"
                BY <1>1, <2>6 DEF SeoInv, OneVisit
            <3>2. \A w \in Visit : AtWork(w) => w = v
                BY <1>1, <3>1 DEF OneVisit
            <3>3. \A w \in Visit : w # v => ~ AtWork(w)' /\ visit'[w].pc \notin {"publish", "complete"}
                BY <2>3, <3>2 DEF AtWork
            <3>4. repo.file[FileOf(v)] = visit[v].content
                BY <1>1, <3>1 DEF OneVisit
            <3>5. FileOf(v)' = FileOf(v) /\ Copied(v)' = Copied(v) /\ draft'[Copied(v)] = kept
                BY <1>0, <1>2, <2>1, <2>3 DEF FileOf, Copied
            <3> QED
                BY <1>1, <2>1, <2>2, <2>3, <3>1, <3>3, <3>4, <3>5 DEF OneVisit, CompletedIsPublished
        <2> QED
            BY <2>5, <2>6 DEF SeoInv
    <1>4. CASE CompletePost(v)
        <2>1. /\ post' = [visit[v].post EXCEPT !.status = "completed", !.content = visit[v].content]
              /\ Leave(v) /\ draft' = draft /\ visit[v].pc = "complete"
            BY <1>4 DEF CompletePost, VisitAt
        <2>2. post' \in Post /\ post'.draft = Copied(v) /\ post'.content = visit[v].content
            BY <1>2, <2>1 DEF Post, Copied
        <2>3. /\ visit' \in [Visit -> VisitState] /\ visit'[v].pc = "done"
              /\ \A w \in Visit : w # v => visit'[w] = visit[w]
            BY <1>0, <2>1, FreshVisits DEF Leave
        <2>4. SeoTypeOK' /\ DraftIsThere' /\ repo'.head <= repo'.foreign + Cardinality(Spent')
            BY <1>1, <2>1, <2>2, <2>3, WritesBack
        <2>5. ASSUME ~contended' PROVE OneVisit' /\ CompletedIsPublished'
            <3>1. OneVisit
                BY <1>1, <2>5 DEF SeoInv
            <3>2. \A w \in Visit : AtWork(w) => w = v
                BY <1>1, <3>1 DEF OneVisit
            <3>3. \A w \in Visit : ~ AtWork(w)'
                BY <2>3, <3>2 DEF AtWork
            <3>4. \A w \in Visit : ~ Editing(w)' /\ ~ Approving(w)' /\ visit'[w].pc \notin {"publish", "complete"}
                BY <3>3 DEF AtWork, Editing, Approving
            <3>5. OneVisit'
                BY <3>3, <3>4 DEF OneVisit
            <3>6. /\ draft[Copied(v)].status = "published" /\ draft[Copied(v)].content = visit[v].content
                  /\ repo.file[draft[Copied(v)].file] = visit[v].content
                BY <1>2, <2>1, <3>1 DEF OneVisit
            <3>7. Copied(v) # None
                BY <1>2, SeoAssumption DEF SeoAssumption, None
            <3> QED
                BY <1>1, <2>1, <2>2, <3>5, <3>6, <3>7 DEF CompletedIsPublished
        <2> QED
            BY <2>4, <2>5 DEF SeoInv
    <1> QED
        BY <1>3, <1>4

\* Others push, and a restart ends every visit and every pipeline.
LEMMA SurroundingSteps ==
    ASSUME SeoInv, ForeignPush \/ SeoCrash PROVE SeoInv'
    <1>1. /\ visit \in [Visit -> VisitState] /\ MaxForeignPushes \in Nat /\ MaxSeoCrashes \in Nat
          /\ seoCrashes \in 0..MaxSeoCrashes /\ stranded \in BOOLEAN
          /\ repo.head \in Nat /\ repo.foreign \in 0..MaxForeignPushes /\ repo.foreign \in Nat
          /\ repo.file \in [Trigger -> Content] /\ repo \in Repo
        BY SpentGrow, SeoAssumption DEF SeoInv, SeoTypeOK, SeoAssumption, Repo
    <1>2. Spent \in SUBSET Visit
        BY DEF Spent
    <1>3. CASE ForeignPush
        <2>1. /\ UNCHANGED <<post, draft, visit, contended, pipelineVars>>
              /\ repo' = [repo EXCEPT !.head = @ + 1, !.foreign = @ + 1]
              /\ repo.foreign < MaxForeignPushes
            BY <1>3 DEF ForeignPush
        <2>2. /\ repo'.head = repo.head + 1 /\ repo'.foreign = repo.foreign + 1 /\ repo'.file = repo.file
              /\ repo' = [head |-> repo.head + 1, foreign |-> repo.foreign + 1, file |-> repo.file]
            BY <1>1, <2>1 DEF Repo
        <2>3. UNCHANGED Spent
            BY <2>1 DEF Spent
        <2>4. /\ Cardinality(Spent) \in Nat /\ Cardinality(Spent) <= Cardinality(Visit)
              /\ Cardinality(Visit) \in Nat
            BY <1>2, SpentGrow
        <2>5. repo'.head <= repo'.foreign + Cardinality(Spent')
            BY <1>1, <2>2, <2>3, <2>4 DEF SeoInv
        <2>6. repo' \in Repo
            <3>1. /\ repo'.head \in 0..(MaxForeignPushes + Cardinality(Visit))
                  /\ repo'.foreign \in 0..MaxForeignPushes
                BY <1>1, <2>1, <2>2, <2>3, <2>4, <2>5
            <3> QED
                BY <1>1, <2>2, <3>1 DEF Repo
        <2>7. SeoTypeOK'
            BY <2>1, <2>6 DEF SeoInv, SeoTypeOK, pipelineVars
        <2>8. UNCHANGED Past /\ UNCHANGED Saved /\ UNCHANGED Again
            BY <2>1 DEF Past, Saved, Again, Triggered, pipelineVars
        <2>9. DraftIsThere' /\ (~contended' => OneVisit' /\ CompletedIsPublished')
            BY <2>1, <2>2, <2>8 DEF SeoInv, DraftIsThere, OneVisit, CompletedIsPublished,
                              Editing, Approving, AtWork, Copied, FileOf, pipelineVars
        <2> QED
            BY <2>5, <2>7, <2>9 DEF SeoInv
    <1>4. CASE SeoCrash
        <2>1. /\ UNCHANGED <<post, draft, workspace, repo, contended>>
              /\ visit' = [v \in Visit |-> IF AtWork(v) THEN [FreshVisit EXCEPT !.pc = "done"] ELSE visit[v]]
              /\ pipeline' = [t \in Trigger |-> IF t \in Triggered THEN "over" ELSE "none"]
              /\ seoCrashes' \in 0..MaxSeoCrashes /\ stranded' \in BOOLEAN
            BY <1>1, <1>4 DEF SeoCrash
        <2>2. /\ visit' \in [Visit -> VisitState]
              /\ \A v \in Visit : visit'[v].pc \in {"idle", "done"}
              /\ \A v \in Visit : v \in Spent => visit'[v].pc = "done"
            BY <1>1, <2>1, FreshVisits DEF AtWork, Spent
        <2>3. Spent \subseteq Spent' /\ Spent' \in SUBSET Visit
            BY <2>2 DEF Spent
        <2>4. Cardinality(Spent) \in Nat /\ Cardinality(Spent') \in Nat
              /\ Cardinality(Spent) <= Cardinality(Spent')
            BY <2>3, SpentGrow
        <2>5. repo'.head <= repo'.foreign + Cardinality(Spent')
            BY <1>1, <2>1, <2>4 DEF SeoInv
        <2>6. /\ pipeline' \in [Trigger -> {"none", "save", "await", "catch", "cleanup", "over"} \cup Stage]
              /\ \A t \in Trigger : pipeline[t] # "none" => pipeline'[t] = "over"
              /\ \A t \in Trigger : pipeline'[t] # "await"
            BY <2>1 DEF Triggered
        <2>7. SeoTypeOK'
            BY <2>1, <2>2, <2>6 DEF SeoInv, SeoTypeOK
        <2>8. \A v \in Visit : ~ Editing(v)' /\ ~ Approving(v)' /\ ~ AtWork(v)'
            BY <2>2 DEF Editing, Approving, AtWork
        <2>9. UNCHANGED Saved /\ Past \subseteq Past' /\ Triggered \subseteq Triggered'
            BY <2>1, <2>6 DEF Saved, Past, Triggered
        <2>10. DraftIsThere'
            <3>1. \A t \in Saved : pipeline'[t] \in Drafted /\ draft[t].content # None /\ draft[t].file \in Trigger
                BY <2>6 DEF SeoInv, DraftIsThere, Drafted, Saved
            <3> QED
                BY <2>1, <2>6, <2>8, <2>9, <3>1 DEF SeoInv, DraftIsThere
        <2>11. ASSUME ~contended' PROVE OneVisit' /\ CompletedIsPublished'
            <3>1. OneVisit'
                BY <2>2, <2>8 DEF OneVisit
            <3>2. CompletedIsPublished'
                BY <2>1, <2>9, <2>11 DEF SeoInv, CompletedIsPublished, Again
            <3> QED
                BY <3>1, <3>2
        <2> QED
            BY <2>5, <2>7, <2>10, <2>11 DEF SeoInv
    <1> QED
        BY <1>3, <1>4

LEMMA InitSeo == SeoInit => SeoInv
    <1> SUFFICES ASSUME SeoInit PROVE SeoInv
        OBVIOUS
    <1>1. \A v \in Visit : visit[v].pc = "idle"
        BY FreshVisits DEF SeoInit
    <1>2. Spent = {} /\ Saved = {} /\ \A v \in Visit : ~ Editing(v) /\ ~ Approving(v) /\ ~ AtWork(v)
        BY <1>1 DEF SeoInit, Spent, Saved, NoDraft, Editing, Approving, AtWork
    <1>3. Cardinality(Visit) \in Nat /\ Cardinality(Spent) = 0
        BY <1>2, SpentGrow, FS_EmptySet
    <1>4. SeoTypeOK
        <2>1. NoDraft \in Draft /\ NoPost \in Post /\ None \in Content
            BY DEF NoDraft, NoPost, Draft, Post, Content
        <2>2. /\ draft \in [Trigger -> Draft] /\ post \in Post /\ visit \in [Visit -> VisitState]
              /\ pipeline \in [Trigger -> {"none", "save", "await", "catch", "cleanup", "over"} \cup Stage]
            BY <2>1, FreshVisits DEF SeoInit
        <2>3. 0 \in 0..(MaxForeignPushes + Cardinality(Visit)) /\ 0 \in 0..MaxForeignPushes
              /\ 0 \in 0..MaxSeoCrashes
            BY <1>3, SeoAssumption DEF SeoAssumption
        <2>4. repo \in Repo
            BY <2>1, <2>3 DEF SeoInit, Repo
        <2> QED
            BY <2>2, <2>3, <2>4 DEF SeoInit, SeoTypeOK
    <1>5. post.status = "absent" /\ post.draft = None /\ \A t \in Trigger : pipeline[t] = "none"
        BY DEF SeoInit, NoPost
    <1>6. DraftIsThere /\ OneVisit /\ CompletedIsPublished
        BY <1>1, <1>2, <1>5 DEF DraftIsThere, OneVisit, CompletedIsPublished
    <1>7. repo.head = 0 /\ repo.foreign = 0
        BY DEF SeoInit
    <1> QED
        BY <1>3, <1>4, <1>6, <1>7 DEF SeoInv

LEMMA SeoStep == SeoInv /\ [SeoNext]_seoVars => SeoInv'
    <1> SUFFICES ASSUME SeoInv, [SeoNext]_seoVars PROVE SeoInv'
        OBVIOUS
    <1>1. ASSUME NEW v \in Visit, VisitStep(v) PROVE SeoInv'
        BY <1>1, ReadingSteps, EditSteps, PushStep, PublishSteps DEF VisitStep
    <1>2. CASE UNCHANGED seoVars
        <2>1. SeoTypeOK'
            BY <1>2 DEF seoVars, SeoInv, SeoTypeOK
        <2>2. UNCHANGED Spent /\ UNCHANGED Past /\ UNCHANGED Saved /\ UNCHANGED Again
            BY <1>2 DEF seoVars, Spent, Past, Saved, Again, Triggered
        <2> QED
            BY <1>2, <2>1, <2>2
               DEF seoVars, SeoInv, DraftIsThere, OneVisit, CompletedIsPublished,
                   Editing, Approving, AtWork, Copied, FileOf
    <1> QED
        BY <1>1, <1>2, PipelineSteps, SurroundingSteps DEF SeoNext

\* Whoever approves sees the research, and what a completed run says is what
\* the repository has, for any number of triggers, edits, approvals and foreign
\* commits: PipelineMoves says why a pipeline that is sent over the run again
\* takes nothing from it but its word.
THEOREM PostsAreSound == SeoSpec => []PostIsSound
    <1>1. SeoInv => PostIsSound
        <2>1. SeoInv /\ ~contended => CompletedIsPublished
            BY DEF SeoInv
        <2>2. contended => CompletedIsPublished
            BY DEF CompletedIsPublished
        <2>3. SeoInv => AwaitingShowsResearch
            BY DEF SeoInv, DraftIsThere, AwaitingShowsResearch, Research
        <2> QED
            BY <2>1, <2>2, <2>3 DEF SeoInv, SeoTypeOK, PostIsSound
    <1>2. SeoSpec => SeoInit /\ [][SeoNext]_seoVars
        BY DEF SeoSpec
    <1> QED
        BY <1>1, <1>2, InitSeo, SeoStep, PTL

\* However edits, approvals and pipelines overlap, a completed run is opened again
\* only by a pipeline, and only if the workflow was triggered more than once.
THEOREM CompletedPostsStay == SeoSpec => CompletedStays
    <1> DEFINE Stays == post.status = "completed" =>
                          post'.status = "completed" \/ (Again /\ pipeline' # pipeline)
    <1>1. ASSUME SeoInv, [SeoNext]_seoVars PROVE [Stays]_seoVars
        <2>1. post \in Post /\ pipeline \in [Trigger -> {"none", "save", "await", "catch", "cleanup", "over"} \cup Stage]
            BY <1>1 DEF SeoInv, SeoTypeOK
        <2>2. ASSUME NEW t \in Trigger, StartPost(t) \/ Pipeline(t) PROVE Stays
            <3>1. CASE post'.status = post.status
                BY <3>1
            <3>2. ASSUME post'.status # post.status, post.status = "completed"
                  PROVE  Again /\ pipeline' # pipeline
                <4>1. \/ AwaitApproval(t) /\ pipeline[t] = "await"
                      \/ MarkFailed(t) /\ pipeline[t] = "catch"
                    BY <2>1, <2>2, <3>2 DEF StartPost, Pipeline, FailUncaught, RecordStage, SaveDraft,
                           AwaitApproval, FailStage, MarkFailed, RemoveWorkspace, PipelineAt, Post
                <4>2. pipeline'[t] = "cleanup"
                    BY <2>1, <4>1 DEF AwaitApproval, MarkFailed, Proceed
                <4>3. PICK s \in Past \cap Saved : TRUE
                    BY <1>1, <3>2 DEF SeoInv, DraftIsThere
                <4>4. s \in Triggered /\ t \in Triggered /\ s # t
                    BY <4>1, <4>3 DEF Past, Triggered
                <4> QED
                    BY <4>1, <4>2, <4>4 DEF Again
            <3> QED
                BY <3>1, <3>2
        <2>3. ASSUME NEW v \in Visit, VisitStep(v) PROVE Stays
            <3>1. visit[v].post \in Post
                BY <1>1 DEF SeoInv, SeoTypeOK, VisitState
            <3>2. CASE UpdateSteps(v)
                BY <3>1, <3>2 DEF UpdateSteps, Post
            <3>3. CASE CompletePost(v)
                BY <3>1, <3>3 DEF CompletePost, Post
            <3> QED
                BY <2>3, <3>2, <3>3
                   DEF VisitStep, BeginVisit, ReadForEdit, SaveEdit, ReadForApproval, CloneRepo,
                       CommitAndPush, PublishDraft, FailVisit
        <2>4. CASE ForeignPush \/ SeoCrash
            BY <2>4 DEF ForeignPush, SeoCrash
        <2> QED
            BY <1>1, <2>2, <2>3, <2>4 DEF SeoNext
    <1>2. SeoSpec => SeoInit /\ [][SeoNext]_seoVars
        BY DEF SeoSpec
    <1> QED
        BY <1>1, <1>2, InitSeo, SeoStep, PTL DEF CompletedStays

-----------------------------------------------------------------------------
(* Parking *)

\* Jobs that are at work, and those that have said that they succeeded and
\* completed the run.
Working(m) == job[m].pc \notin {"none", "over"}
Finished(m) == job[m].pc = "over" /\ "success" \in heard[m] /\ m \notin killed

\* Outside of a meeting of messages, one looks for a run when there is none.
OneLooks ==
    /\ \A s, t \in PendingStays : s = t
    /\ \A m, n \in Text : TextAt(m, "create") /\ TextAt(n, "create") => m = n
    /\ \A m \in Text : TextAt(m, "create") => PendingStays = {}

\* A job comes from a message that has been dealt with; it says "success" last,
\* and completes the run after that; it registers the car in one attempt, or
\* has missed a confirmation.
JobInOrder(m) ==
    /\ job[m].pc # "none" => TextAt(m, "done")
    /\ job[m].pc = "none" => site[m] = 0 /\ heard[m] = {}
    /\ "success" \in heard[m] => job[m].pc \in {"complete", "over"}
    /\ job[m].pc = "complete" => "success" \in heard[m]
    /\ Finished(m) => stay[text[m].stay] = "completed"
    /\ m \notin late =>
         /\ site[m] <= 1
         /\ site[m] = 1 => job[m].pc \in {"photo", "success", "complete", "apologise", "over"}

\* Unless jobs have crossed on a run, none starts while another is at work on it
\* or after another has completed it.
OneJob ==
    \A m, n \in Text :
      /\ text[m].stay = text[n].stay /\ text[m].stay \notin crossed
      /\ Working(m) \/ Finished(m)
      /\ Working(n) \/ Finished(n)
      => m = n

ParkingInv ==
    /\ ParkingTypeOK
    /\ ~met => OneLooks
    /\ \A m \in Text : JobInOrder(m)
    /\ OneJob
    /\ JobsReport
    /\ CompletedIsReported

\* A message that is not done with yet has no job, so that what it does before
\* its job concerns the runs only.
LEMMA TextMoves ==
    ASSUME ParkingInv, NEW m \in Text, text[m].pc # "done",
           UNCHANGED <<job, crossed, jobVars>>,
           text' \in [Text -> TextState], met' \in BOOLEAN,
           \A n \in Text : n # m => text'[n] = text[n],
           stay' \in [StayId -> {"absent", "pending", "completed"}],
           \A s \in StayId : stay'[s] = "completed" <=> stay[s] = "completed",
           ~met' => OneLooks'
    PROVE  ParkingInv'
    <1> USE DEF ParkingInv
    <1>1. /\ UNCHANGED <<job, crossed, site, heard, parkingCrashes, late, killed>>
          /\ job[m].pc = "none" /\ heard[m] = {}
          /\ \A n \in Text : UNCHANGED Working(n) /\ UNCHANGED Finished(n)
        BY DEF jobVars, JobInOrder, TextAt, Working, Finished
    <1>2. ParkingTypeOK'
        BY <1>1 DEF ParkingTypeOK
    <1>3. \A n \in Text : JobInOrder(n)'
        <2>1. JobInOrder(m)'
            BY <1>1 DEF JobInOrder, Finished, ParkingTypeOK
        <2>2. ASSUME NEW n \in Text, n # m PROVE JobInOrder(n)'
            <3>1. text'[n] = text[n] /\ text[n].stay \in StayId /\ JobInOrder(n)
                BY <2>2 DEF ParkingTypeOK, TextState
            <3> QED
                BY <1>1, <3>1 DEF JobInOrder, TextAt, Finished
        <2> QED
            BY <2>1, <2>2
    <1>4. OneJob'
        BY <1>1 DEF OneJob, Working, Finished
    <1>5. JobsReport'
        BY <1>1 DEF JobsReport, JobAt
    <1>6. CompletedIsReported'
        BY <1>1 DEF CompletedIsReported
    <1> QED
        BY <1>2, <1>3, <1>4, <1>5, <1>6

LEMMA TextSteps ==
    ASSUME ParkingInv, NEW m \in Text,
           ReceiveText(m) \/ FindStay(m) \/ CreateStay(m) \/ ExtractDetails(m) \/ ReplyToText(m) \/ FailText(m)
    PROVE  ParkingInv'
    <1> DEFINE Only(pc) ==
                 /\ text' \in [Text -> TextState] /\ text'[m].pc = pc
                 /\ \A n \in Text : n # m => text'[n] = text[n]
    <1>0. /\ text \in [Text -> TextState] /\ met \in BOOLEAN
          /\ stay \in [StayId -> {"absent", "pending", "completed"}]
        BY DEF ParkingInv, ParkingTypeOK
    <1>1. ASSUME UNCHANGED <<stay, job, met, crossed, jobVars>>, text[m].pc # "done",
                 NEW pc \in {"find", "extract", "save", "reply", "done"}, Only(pc)
          PROVE  ParkingInv'
        BY <1>0, <1>1, TextMoves DEF ParkingInv, OneLooks, PendingStays, TextAt
    <1>2. CASE ReceiveText(m)
        <2>1. Only("find")
            BY <1>0, <1>2 DEF ReceiveText, TextState
        <2> QED
            BY <1>1, <1>2, <2>1 DEF ReceiveText, TextAt
    <1>3. CASE FindStay(m)
        <2>1. CASE PendingStays = {}
            <3>0. /\ text' = [text EXCEPT ![m].pc = "create"]
                  /\ met' = (met \/ \E n \in Text : TextAt(n, "create"))
                BY <1>3, <2>1 DEF FindStay
            <3>4. Only("create")
                BY <1>0, <3>0 DEF TextState
            <3>1. Only("create") /\ met' = (met \/ \E n \in Text : TextAt(n, "create"))
                BY <3>0, <3>4
            <3>2. ~met' => OneLooks'
                BY <1>0, <1>3, <2>1, <3>1 DEF FindStay, ParkingInv, OneLooks, PendingStays, TextAt
            <3>3. UNCHANGED <<stay, job, crossed, jobVars>> /\ text[m].pc # "done"
                BY <1>3 DEF FindStay, TextAt
            <3> QED
                BY <1>0, <3>1, <3>2, <3>3, TextMoves
        <2>2. CASE PendingStays # {}
            <3>1. PICK s \in PendingStays : text' = [text EXCEPT ![m].pc = "extract", ![m].stay = s]
                BY <1>3, <2>2 DEF FindStay
            <3>2. s \in StayId
                BY DEF PendingStays
            <3>3. Only("extract")
                BY <1>0, <3>1, <3>2 DEF TextState
            <3> QED
                BY <1>1, <1>3, <2>2, <3>3 DEF FindStay, TextAt
        <2> QED
            BY <2>1, <2>2
    <1>4. CASE CreateStay(m)
        <2>1. PICK s \in StayId :
                /\ stay[s] = "absent"
                /\ stay' = [stay EXCEPT ![s] = "pending"]
                /\ text' = [text EXCEPT ![m].pc = "extract", ![m].stay = s]
            BY <1>4 DEF CreateStay
        <2>2. Only("extract")
            BY <1>0, <2>1 DEF TextState
        <2>3. /\ stay' \in [StayId -> {"absent", "pending", "completed"}]
              /\ \A t \in StayId : stay'[t] = "completed" <=> stay[t] = "completed"
              /\ PendingStays' = PendingStays \cup {s}
            BY <1>0, <2>1 DEF PendingStays
        <2>4. UNCHANGED <<job, met, crossed, jobVars>> /\ TextAt(m, "create")
            BY <1>4 DEF CreateStay
        <2>5. ~met' => OneLooks'
            BY <2>2, <2>3, <2>4 DEF ParkingInv, OneLooks, TextAt
        <2> QED
            BY <1>0, <2>2, <2>3, <2>4, <2>5, TextMoves DEF TextAt
    <1>5. CASE ExtractDetails(m)
        <2>1. PICK complete \in BOOLEAN : text' = [text EXCEPT ![m].pc = "save", ![m].complete = complete]
            BY <1>5 DEF ExtractDetails
        <2>2. Only("save")
            BY <1>0, <2>1 DEF TextState
        <2> QED
            BY <1>1, <1>5, <2>2 DEF ExtractDetails, TextAt
    <1>6. CASE ReplyToText(m) \/ FailText(m)
        <2>1. Only("done")
            BY <1>0, <1>6 DEF ReplyToText, FailText, TextState
        <2> QED
            BY <1>1, <1>6, <2>1 DEF ReplyToText, FailText, TextAt
    <1> QED
        BY <1>2, <1>3, <1>4, <1>5, <1>6

\* A job that starts is the only one of its run, or its run becomes crossed.
LEMMA SaveDetailsStep ==
    ASSUME ParkingInv, NEW m \in Text, SaveDetails(m) PROVE ParkingInv'
    <1> USE DEF ParkingInv
    <1>0. /\ text \in [Text -> TextState] /\ job \in [Text -> JobState]
          /\ stay \in [StayId -> {"absent", "pending", "completed"}] /\ crossed \subseteq StayId
          /\ text[m].pc = "save" /\ text[m].stay \in StayId
        BY DEF ParkingTypeOK, SaveDetails, TextAt, TextState
    <1>1. UNCHANGED <<stay, met, jobVars>>
        BY DEF SaveDetails
    <1>2. CASE text[m].complete
        <2>1. /\ job' = [job EXCEPT ![m].pc = "hello"] /\ text' = [text EXCEPT ![m].pc = "done"]
              /\ crossed' = IF JobsOf(text[m].stay) # {} \/ stay[text[m].stay] = "completed"
                              THEN crossed \cup {text[m].stay} ELSE crossed
            BY <1>2 DEF SaveDetails
        <2>2. /\ job' \in [Text -> JobState] /\ job'[m].pc = "hello"
              /\ \A n \in Text : n # m => job'[n] = job[n]
              /\ text' \in [Text -> TextState] /\ text'[m].pc = "done" /\ text'[m].stay = text[m].stay
              /\ \A n \in Text : n # m => text'[n] = text[n]
            BY <1>0, <2>1 DEF JobState, TextState
        <2>3. /\ UNCHANGED <<stay, met, site, heard, parkingCrashes, late, killed>>
              /\ job[m].pc = "none" /\ heard[m] = {} /\ site[m] = 0
            BY <1>0, <1>1 DEF jobVars, JobInOrder, TextAt
        <2>4. ParkingTypeOK'
            BY <1>0, <2>1, <2>2, <2>3 DEF ParkingTypeOK
        <2>5. ~met' => OneLooks'
            BY <2>2, <2>3 DEF OneLooks, PendingStays, TextAt
        <2>6. JobInOrder(m)'
            BY <2>2, <2>3 DEF JobInOrder, TextAt, Finished
        <2>7. \A n \in Text : n # m => JobInOrder(n)'
            BY <2>2, <2>3 DEF JobInOrder, TextAt, Finished
        <2>8. OneJob'
            <3> SUFFICES ASSUME NEW n \in Text, n # m, text[n].stay = text[m].stay,
                                text[m].stay \notin crossed', Working(n) \/ Finished(n)
                         PROVE  FALSE
                <4>1. \A n \in Text : n # m => Working(n)' = Working(n) /\ Finished(n)' = Finished(n)
                    BY <2>2, <2>3 DEF Working, Finished
                <4>2. crossed \subseteq crossed'
                    BY <2>1
                <4> QED
                    BY <2>2, <4>1, <4>2 DEF OneJob
            <3>1. CASE Working(n)
                BY <2>1, <3>1 DEF JobsOf, Working
            <3>2. CASE Finished(n)
                BY <2>1, <3>2 DEF JobInOrder
            <3> QED
                BY <3>1, <3>2
        <2>9. JobsReport'
            BY <2>2, <2>3 DEF JobsReport, JobAt
        <2>10. CompletedIsReported'
            BY <2>2, <2>3 DEF CompletedIsReported
        <2> QED
            BY <2>4, <2>5, <2>6, <2>7, <2>8, <2>9, <2>10
    <1>3. CASE ~ text[m].complete
        <2>1. text' = [text EXCEPT ![m].pc = "reply"] /\ UNCHANGED <<job, crossed>>
            BY <1>3 DEF SaveDetails
        <2>2. /\ text' \in [Text -> TextState] /\ text'[m].pc = "reply"
              /\ \A n \in Text : n # m => text'[n] = text[n]
            BY <1>0, <2>1 DEF TextState
        <2>3. ~met' => OneLooks'
            BY <1>1, <2>2 DEF OneLooks, PendingStays, TextAt
        <2>4. met' \in BOOLEAN
            BY <1>1 DEF ParkingTypeOK
        <2> HIDE DEF ParkingInv
        <2> QED
            BY <1>0, <1>1, <2>1, <2>2, <2>3, <2>4, TextMoves
    <1> QED
        BY <1>2, <1>3

\* A job at work moves on: it concerns itself, and its run if it completes it.
LEMMA JobMoves ==
    ASSUME ParkingInv, NEW m \in Text, Working(m),
           UNCHANGED <<textVars, parkingCrashes, killed>>,
           job' \in [Text -> JobState], site' \in [Text -> Nat],
           heard' \in [Text -> SUBSET {"submitting", "photo", "success", "failure"}],
           \A n \in Text : n # m => job'[n] = job[n] /\ site'[n] = site[n] /\ heard'[n] = heard[n],
           heard[m] \subseteq heard'[m], late \subseteq late', late' \subseteq Text,
           stay' \in [StayId -> {"absent", "pending", "completed"}],
           \A s \in StayId : \/ stay'[s] = stay[s]
                             \/ /\ s = text[m].stay /\ stay'[s] = "completed"
                                /\ "success" \in heard'[m],
           job'[m].pc # "none", JobInOrder(m)',
           job'[m].pc = "over" => heard'[m] \cap {"success", "failure"} # {}
    PROVE  ParkingInv'
    <1> USE DEF ParkingInv
    <1>1. /\ UNCHANGED <<text, met, crossed, parkingCrashes, killed>>
          /\ \A n \in Text : text[n].stay \in StayId
        BY DEF textVars, ParkingTypeOK, TextState
    <1>2. ParkingTypeOK'
        BY <1>1 DEF ParkingTypeOK
    <1>3. ~met' => OneLooks'
        <2>1. PendingStays' \subseteq PendingStays
            BY DEF PendingStays
        <2> QED
            BY <1>1, <2>1 DEF OneLooks, TextAt
    <1>4. ASSUME NEW n \in Text, n # m PROVE JobInOrder(n)'
        <2>1. job'[n] = job[n] /\ site'[n] = site[n] /\ heard'[n] = heard[n] /\ JobInOrder(n)
            BY <1>4
        <2> QED
            BY <1>1, <2>1 DEF JobInOrder, TextAt, Finished
    <1>5. \A n \in Text : Working(n)' \/ Finished(n)' => Working(n) \/ Finished(n)
        BY <1>1 DEF Working, Finished
    <1>6. OneJob'
        BY <1>1, <1>5 DEF OneJob
    <1>7. JobsReport'
        BY <1>1 DEF JobsReport, JobAt
    <1>8. CompletedIsReported'
        <2> SUFFICES ASSUME NEW s \in StayId, stay'[s] = "completed"
                     PROVE  \E n \in Text : text[n].stay = s /\ "success" \in heard'[n]
            BY <1>1 DEF CompletedIsReported
        <2>1. CASE stay[s] = "completed"
            BY <2>1 DEF CompletedIsReported
        <2>2. CASE stay[s] # "completed"
            BY <2>2
        <2> QED
            BY <2>1, <2>2
    <1> QED
        BY <1>2, <1>3, <1>4, <1>6, <1>7, <1>8

LEMMA JobSteps ==
    ASSUME ParkingInv, NEW m \in Text,
           \/ SaySubmitting(m) \/ OpenSite(m) \/ FillForm(m) \/ SubmitForm(m) \/ SendPhoto(m)
           \/ SaySuccess(m) \/ CompleteStay(m) \/ FailJob(m) \/ Apologise(m)
    PROVE  ParkingInv'
    <1> DEFINE Only(pc) ==
                 /\ job' \in [Text -> JobState] /\ job'[m].pc = pc
                 /\ \A n \in Text : n # m => job'[n] = job[n]
               Says(what) ==
                 /\ heard' \in [Text -> SUBSET {"submitting", "photo", "success", "failure"}]
                 /\ heard'[m] = heard[m] \cup {what}
                 /\ \A n \in Text : n # m => heard'[n] = heard[n]
    <1>0. /\ job \in [Text -> JobState] /\ site \in [Text -> Nat] /\ late \subseteq Text
          /\ heard \in [Text -> SUBSET {"submitting", "photo", "success", "failure"}]
          /\ stay \in [StayId -> {"absent", "pending", "completed"}]
          /\ JobInOrder(m) /\ text[m].stay \in StayId
          /\ MaxRegistrationAttempts \in Nat \ {0}
        BY ParkingAssumption DEF ParkingInv, ParkingTypeOK, TextState, ParkingAssumption
    <1>1. ASSUME NEW what \in {"submitting", "photo", "success", "failure"}, Tell(m, what) PROVE Says(what)
        BY <1>0, <1>1 DEF Tell
    <1>2. CASE SaySubmitting(m) \/ SendPhoto(m) \/ SaySuccess(m) \/ Apologise(m)
        <2>1. PICK pc \in {"open", "success", "complete", "over"},
                   what \in {"submitting", "photo", "success", "failure"} :
                /\ job' = [job EXCEPT ![m].pc = pc] /\ Tell(m, what)
                /\ what = "success" <=> pc = "complete"
                /\ what = "failure" <=> pc = "over"
                /\ pc = "open" => job[m].pc = "hello"
                /\ pc = "success" => job[m].pc = "photo"
                /\ pc = "complete" => job[m].pc = "success"
                /\ pc = "over" => job[m].pc = "apologise"
            BY <1>2 DEF SaySubmitting, SendPhoto, SaySuccess, Apologise, JobAt
        <2>2. Only(pc) /\ Says(what)
            BY <1>0, <1>1, <2>1 DEF JobState
        <2>3. UNCHANGED <<stay, site, parkingCrashes, late, killed, textVars>>
            BY <1>2 DEF SaySubmitting, SendPhoto, SaySuccess, Apologise
        <2>4. JobInOrder(m)'
            BY <1>0, <2>1, <2>2, <2>3 DEF JobInOrder, Finished, TextAt, textVars
        <2>5. Working(m)
            BY <2>1 DEF Working
        <2> QED
            BY <1>0, <2>1, <2>2, <2>3, <2>4, <2>5, JobMoves
    <1>3. CASE OpenSite(m) \/ FillForm(m) \/ FailJob(m)
        <2>1. Only("fill") \/ Only("submit") \/ Only("apologise")
            <3>1. CASE OpenSite(m)
                <4>1. 1 \in 0..MaxRegistrationAttempts
                    BY <1>0
                <4>2. job' = [job EXCEPT ![m].pc = "fill", ![m].attempt = 1]
                    BY <3>1 DEF OpenSite
                <4> QED
                    BY <1>0, <4>1, <4>2, ZenonT(30) DEF JobState
            <3>2. CASE FillForm(m)
                BY <1>0, <3>2 DEF FillForm, JobState
            <3>3. CASE FailJob(m)
                BY <1>0, <3>3 DEF FailJob, JobState
            <3> QED
                BY <1>3, <3>1, <3>2, <3>3
        <2>2. /\ UNCHANGED <<stay, textVars, jobVars>>
              /\ job[m].pc \in {"hello", "open", "fill", "submit", "photo", "success"}
              /\ job[m].pc = "open" => ~ Only("submit")
              /\ Only("fill") => job[m].pc = "open"
              /\ Only("submit") => job[m].pc = "fill"
            <3>1. CASE OpenSite(m)
                BY <1>0, <3>1 DEF OpenSite, JobAt, JobState
            <3>2. CASE FillForm(m)
                BY <1>0, <3>2 DEF FillForm, JobAt, JobState
            <3>3. CASE FailJob(m)
                BY <1>0, <3>3 DEF FailJob, JobState
            <3> QED
                BY <1>3, <3>1, <3>2, <3>3
        <2>3. UNCHANGED <<text, site, heard, late, killed, parkingCrashes>>
            BY <2>2 DEF jobVars, textVars
        <2>4. JobInOrder(m)'
            BY <1>0, <2>1, <2>2, <2>3 DEF JobInOrder, Finished, TextAt
        <2>5. Working(m)
            BY <2>2 DEF Working
        <2> QED
            BY <1>0, <2>1, <2>2, <2>3, <2>4, <2>5, JobMoves
    <1>4. CASE SubmitForm(m)
        <2>1. /\ UNCHANGED <<stay, heard, parkingCrashes, killed, textVars>> /\ job[m].pc = "submit"
            BY <1>4 DEF SubmitForm, JobAt
        <2>2. PICK next \in {"photo", "fill"} :
                /\ Only(next)
                /\ \/ site' = [site EXCEPT ![m] = @ + 1] /\ late' = late /\ next = "photo"
                   \/ site' = [site EXCEPT ![m] = @ + 1] /\ late' = late \cup {m}
                   \/ site' = site /\ late' = late
            <3>1. CASE /\ job' = [job EXCEPT ![m].pc = "photo", ![m].succeeded = TRUE]
                       /\ site' = [site EXCEPT ![m] = @ + 1]
                       /\ UNCHANGED late
                <4>1. Only("photo")
                    BY <1>0, <3>1, ZenonT(30) DEF JobState
                <4> QED
                    BY <3>1, <4>1
            <3>2. CASE /\ job' = NextAttempt(m)
                       /\ \/ site' = [site EXCEPT ![m] = @ + 1] /\ late' = late \cup {m}
                          \/ site' = site /\ late' = late
                <4>1. CASE job[m].attempt < MaxRegistrationAttempts
                    <5>1. job' = [job EXCEPT ![m].pc = "fill", ![m].attempt = job[m].attempt + 1]
                        BY <3>2, <4>1 DEF NextAttempt
                    <5>2. job[m].attempt + 1 \in 0..MaxRegistrationAttempts
                        BY <1>0, <4>1 DEF JobState
                    <5>3. Only("fill")
                        BY <1>0, <5>1, <5>2 DEF JobState
                    <5> QED
                        BY <3>2, <5>3
                <4>2. CASE ~ (job[m].attempt < MaxRegistrationAttempts)
                    <5>1. job' = [job EXCEPT ![m].pc = "photo"]
                        BY <3>2, <4>2 DEF NextAttempt
                    <5>2. Only("photo")
                        BY <1>0, <5>1 DEF JobState
                    <5> QED
                        BY <3>2, <5>2
                <4> QED
                    BY <4>1, <4>2
            <3> QED
                BY <1>4, <3>1, <3>2 DEF SubmitForm
        <2>3. /\ site' \in [Text -> Nat] /\ \A n \in Text : n # m => site'[n] = site[n]
              /\ site'[m] = site[m] \/ (site'[m] = site[m] + 1 /\ (next = "photo" \/ m \in late'))
              /\ late \subseteq late' /\ late' \subseteq Text
            BY <1>0, <2>2
        <2>4. JobInOrder(m)'
            <3>1. m \notin late => site[m] = 0
                BY <1>0, <2>1 DEF JobInOrder
            <3> QED
                BY <1>0, <2>1, <2>2, <2>3, <3>1 DEF JobInOrder, Finished, TextAt, textVars
        <2>5. Working(m)
            BY <2>1 DEF Working
        <2> QED
            BY <1>0, <2>1, <2>2, <2>3, <2>4, <2>5, JobMoves
    <1>5. CASE CompleteStay(m)
        <2>1. /\ stay' = [stay EXCEPT ![text[m].stay] = "completed"] /\ job' = [job EXCEPT ![m].pc = "over"]
              /\ UNCHANGED <<site, heard, parkingCrashes, late, killed, textVars>>
              /\ job[m].pc = "complete"
            BY <1>5 DEF CompleteStay, JobAt
        <2>2. Only("over")
            BY <1>0, <2>1 DEF JobState
        <2>3. "success" \in heard[m] /\ Working(m)
            BY <1>0, <2>1 DEF JobInOrder, Working
        <2>4. JobInOrder(m)'
            BY <1>0, <2>1, <2>2, <2>3 DEF JobInOrder, TextAt, textVars
        <2> QED
            BY <1>0, <2>1, <2>2, <2>3, <2>4, JobMoves
    <1> QED
        BY <1>2, <1>3, <1>4, <1>5

\* The process ends with its requests and jobs: what they have done is done.
LEMMA DieStep ==
    ASSUME ParkingInv, Die, parkingCrashes' \in 0..MaxParkingCrashes PROVE ParkingInv'
    <1> USE DEF ParkingInv
    <1>1. /\ UNCHANGED <<stay, site, heard, met, late, crossed>>
          /\ text' = [m \in Text |-> IF TextAt(m, "idle") THEN text[m] ELSE [text[m] EXCEPT !.pc = "done"]]
          /\ killed' = killed \cup {m \in Text : Working(m)}
          /\ job' = [m \in Text |-> IF JobAt(m, "none") THEN job[m] ELSE [job[m] EXCEPT !.pc = "over"]]
        BY DEF Die, Working
    <1>2. /\ text' \in [Text -> TextState]
          /\ \A m \in Text : text'[m].stay = text[m].stay /\ text'[m].pc \in {"idle", "done"}
                             /\ (text[m].pc = "done" => text'[m].pc = "done")
        BY <1>1 DEF ParkingTypeOK, TextState, TextAt
    <1>3. /\ job' \in [Text -> JobState]
          /\ \A m \in Text : job'[m].pc = IF job[m].pc = "none" THEN "none" ELSE "over"
        BY <1>1 DEF ParkingTypeOK, JobState, JobAt
    <1>4. ParkingTypeOK'
        BY <1>1, <1>2, <1>3 DEF ParkingTypeOK
    <1>5. ~met' => OneLooks'
        BY <1>1, <1>2 DEF OneLooks, PendingStays, TextAt
    <1>6. \A m \in Text : Finished(m)' => Finished(m)
        BY <1>1, <1>3 DEF Finished, Working
    <1>7. \A m \in Text : JobInOrder(m)'
        BY <1>1, <1>2, <1>3, <1>6 DEF JobInOrder, TextAt
    <1>8. OneJob'
        BY <1>1, <1>2, <1>3, <1>6 DEF OneJob, Working
    <1>9. JobsReport'
        BY <1>1, <1>3 DEF JobsReport, JobAt, Working
    <1>10. CompletedIsReported'
        BY <1>1, <1>2 DEF CompletedIsReported
    <1> QED
        BY <1>4, <1>5, <1>7, <1>8, <1>9, <1>10

LEMMA InitParking == ParkingInit => ParkingInv
    <1> SUFFICES ASSUME ParkingInit PROVE ParkingInv
        OBVIOUS
    <1>1. /\ 1 \in StayId /\ 0 \in 0..MaxRegistrationAttempts /\ 0 \in 0..MaxParkingCrashes
        BY ParkingAssumption DEF ParkingAssumption, StayId
    <1>2. /\ \A m \in Text : /\ text[m].pc = "idle" /\ job[m].pc = "none"
                             /\ site[m] = 0 /\ heard[m] = {}
          /\ \A s \in StayId : stay[s] = "absent"
        BY DEF ParkingInit
    <1>3. ParkingTypeOK
        BY <1>1 DEF ParkingInit, ParkingTypeOK, TextState, JobState
    <1> QED
        BY <1>2, <1>3
           DEF ParkingInv, OneLooks, PendingStays, TextAt, JobInOrder, Finished, OneJob, Working,
               JobsReport, JobAt, CompletedIsReported

LEMMA ParkingStep == ParkingInv /\ [ParkingNext]_parkingVars => ParkingInv'
    <1> SUFFICES ASSUME ParkingInv, [ParkingNext]_parkingVars PROVE ParkingInv'
        OBVIOUS
    <1>1. ASSUME NEW m \in Text, ReceiveText(m) \/ TextStep(m) PROVE ParkingInv'
        BY <1>1, TextSteps, SaveDetailsStep DEF TextStep
    <1>2. ASSUME NEW m \in Text, JobStep(m) PROVE ParkingInv'
        <2>1. CASE RejectUnhandled(m)
            BY <2>1, DieStep DEF RejectUnhandled, ParkingInv, ParkingTypeOK
        <2> QED
            BY <1>2, <2>1, JobSteps DEF JobStep
    <1>3. CASE ParkingCrash
        <2>1. parkingCrashes' \in 0..MaxParkingCrashes
            BY <1>3, ParkingAssumption DEF ParkingCrash, ParkingInv, ParkingTypeOK, ParkingAssumption
        <2> QED
            BY <1>3, <2>1, DieStep DEF ParkingCrash
    <1>4. CASE UNCHANGED parkingVars
        BY <1>4 DEF parkingVars, ParkingInv, ParkingTypeOK, OneLooks, PendingStays, TextAt, JobInOrder,
                    Finished, OneJob, Working, JobsReport, JobAt, CompletedIsReported
    <1> QED
        BY <1>1, <1>2, <1>3, <1>4 DEF ParkingNext

\* For any messages and attempts: a user has one stay at a time, hears what came
\* of each message, and the car is registered once, outside of the named races
\* and of what the site confirms too late.
THEOREM StaysAreRegistered == ParkingSpec => []StaysAreSound
    <1>1. ParkingInv => StaysAreSound
        <2> SUFFICES ASSUME ParkingInv PROVE StaysAreSound
            OBVIOUS
        <2>1. OnePendingStay
            BY AtMostOne DEF ParkingInv, OneLooks, OnePendingStay
        <2>2. RegisteredOnce
            <3> SUFFICES ASSUME NEW s \in StayId, s \notin crossed,
                                \A m \in Text : text[m].stay = s /\ site[m] > 0 =>
                                                m \notin late /\ m \notin Unfinished
                         PROVE  LET jobs == {m \in Text : text[m].stay = s /\ site[m] > 0}
                                IN Cardinality(jobs) <= 1 /\ \A m \in jobs : site[m] = 1
                BY DEF RegisteredOnce
            <3> DEFINE jobs == {m \in Text : text[m].stay = s /\ site[m] > 0}
            <3>1. \A m \in jobs : m \notin late /\ "success" \in heard[m] /\ m \notin killed
                                  /\ JobInOrder(m) /\ site[m] \in Nat /\ site[m] > 0
                BY DEF Unfinished, ParkingInv, ParkingTypeOK
            <3>2. \A m \in jobs : site[m] = 1 /\ (Working(m) \/ Finished(m))
                BY <3>1 DEF JobInOrder, Working, Finished
            <3>3. \A m, n \in jobs : m = n
                BY <3>2 DEF ParkingInv, OneJob
            <3> HIDE DEF jobs
            <3>4. Cardinality(jobs) <= 1
                BY <3>3, AtMostOne
            <3> QED
                BY <3>2, <3>4 DEF jobs
        <2> QED
            BY <2>1, <2>2 DEF ParkingInv, StaysAreSound
    <1> QED
        BY <1>1, InitParking, ParkingStep, PTL DEF ParkingSpec

-----------------------------------------------------------------------------
(* LinkTracking *)

\* A post has a notice only when it is done, and a notice still tells of nothing
\* but what its post has found to be new.
PostInOrder(p) ==
    /\ posted[p].pc \in {"idle", "read"} => posted[p].new = {}
    /\ notice[p].pc # "none" => posted[p].pc = "done"
    /\ p \in redelivered => notice[p].pc # "none"
    /\ notice[p].pc # "telling" => notice[p].left = NothingLeft
    /\ \A r \in TrackRun : notice[p].left[r] \subseteq posted[p].new

\* The post that announces a link of a tracker: the one that has inserted it.
Carries(p, w, l) ==
    /\ posted[p].tracker = w /\ l \in posted[p].new
    /\ posted[p].pc = "publish" \/ notice[p].pc # "none"

OneCarries(w, l) ==
    /\ \A p, q \in Batch : Carries(p, w, l) /\ Carries(q, w, l) => p = q
    /\ \A p \in Batch : Carries(p, w, l) => l \in known[w]

\* Outside of a race, one message looks for the run of a tracker, when there is
\* none yet.
Creating(g, w) == greeting[g].pc = "create" /\ greeting[g].tracker = w

Single(w) ==
    /\ \A r, s \in RunsOf(w) : r = s
    /\ \A g, h \in Greeting : Creating(g, w) /\ Creating(h, w) => g = h
    /\ \A g \in Greeting : Creating(g, w) => RunsOf(w) = {}

\* The chat has been told by the post that announces the link, and of what the
\* post has still to tell to one run, it has not been told.
ToldBy(w, l) ==
    /\ told[<<w, l>>] > 0 => \E p \in Batch : Carries(p, w, l)
    /\ \A p \in Batch : Carries(p, w, l) /\ p \notin redelivered =>
         /\ told[<<w, l>>] <= 1
         /\ posted[p].pc = "publish" \/ notice[p].pc = "queued" => told[<<w, l>>] = 0
         /\ \A r \in TrackRun : l \in notice[p].left[r] =>
              told[<<w, l>>] = 0 /\ \A s \in TrackRun : l \in notice[p].left[s] => s = r

Unmistaken(w) == w \notin raced /\ ~ Alike(w)

TrackingInv ==
    /\ TrackingTypeOK
    /\ \A p \in Batch : PostInOrder(p)
    /\ \A w \in Tracker, l \in Link : OneCarries(w, l)
    /\ \A w \in Tracker : Unmistaken(w) => Single(w) /\ \A l \in Link : ToldBy(w, l)
    /\ StoredIsTold

\* What greetings do concerns the runs and those who look for them.
LEMMA GreetMoves ==
    ASSUME TrackingInv, UNCHANGED tellVars,
           runOf' \in [TrackRun -> Tracker \cup {Nobody}], greeting' \in [Greeting -> GreetingState],
           raced \subseteq raced', raced' \subseteq Tracker,
           \A w \in Tracker : Unmistaken(w)' => Single(w)'
    PROVE  TrackingInv'
    <1> USE DEF TrackingInv
    <1>1. UNCHANGED <<known, posted, notice, told, unannounced, unheard, unsent, redelivered, trackCrashes>>
        BY DEF tellVars
    <1>2. TrackingTypeOK'
        BY <1>1 DEF TrackingTypeOK
    <1>3. \A w \in Tracker : Unmistaken(w)' => Unmistaken(w)
        BY DEF Unmistaken, Alike
    <1>4. \A p \in Batch : PostInOrder(p)'
        BY <1>1 DEF PostInOrder
    <1>5. \A w \in Tracker, l \in Link : UNCHANGED OneCarries(w, l) /\ UNCHANGED ToldBy(w, l)
        BY <1>1 DEF OneCarries, ToldBy, Carries
    <1>6. StoredIsTold'
        BY <1>1 DEF StoredIsTold, OnItsWay, NewOf
    <1> QED
        BY <1>2, <1>3, <1>4, <1>5, <1>6

\* A run is created by the one greeting that looks for it, and of its tracker
\* unless another has the same type.
LEMMA GreetSteps ==
    ASSUME TrackingInv, NEW g \in Greeting,
           Greet(g) \/ FindTrackRun(g) \/ CreateTrackRun(g) \/ FailGreeting(g)
    PROVE  TrackingInv'
    <1> DEFINE Only(pc, w) ==
                 /\ greeting' \in [Greeting -> GreetingState]
                 /\ greeting'[g].pc = pc /\ greeting'[g].tracker = w
                 /\ \A h \in Greeting : h # g => greeting'[h] = greeting[h]
    <1>0. /\ greeting \in [Greeting -> GreetingState] /\ raced \subseteq Tracker
          /\ runOf \in [TrackRun -> Tracker \cup {Nobody}]
          /\ greeting[g].tracker \in Tracker /\ AnyTracker \in Tracker
          /\ \A w \in Tracker : Unmistaken(w) => Single(w)
        BY TrackingAssumption DEF TrackingInv, TrackingTypeOK, GreetingState, AnyTracker, TrackingAssumption
    <1>1. ASSUME UNCHANGED <<runOf, raced, tellVars>>, Only("find", AnyTracker) \/ Only("find", greeting[g].tracker)
          PROVE  TrackingInv'
        <2>1. \A w \in Tracker, h \in Greeting : Creating(h, w)' => Creating(h, w)
            BY <1>1 DEF Creating
        <2>2. \A w \in Tracker : Unmistaken(w)' => Single(w)'
            BY <1>0, <1>1, <2>1 DEF Single, Unmistaken, Alike, RunsOf
        <2> QED
            BY <1>0, <1>1, <2>2, GreetMoves
    <1>2. CASE Greet(g)
        <2>1. Only("find", greeting[g].tracker)
            BY <1>0, <1>2 DEF Greet, GreetingState
        <2> QED
            BY <1>1, <1>2, <2>1 DEF Greet
    <1>3. CASE FindTrackRun(g)
        <2>1. PICK w \in greeting[g].todo :
                /\ greeting' = IF RunsOf(w) = {}
                     THEN [greeting EXCEPT ![g].todo = @ \ {w}, ![g].pc = "create", ![g].tracker = w]
                     ELSE [greeting EXCEPT ![g].todo = @ \ {w}]
                /\ raced' = IF RunsOf(w) = {} /\ \E h \in Greeting :
                                    greeting[h].pc = "create" /\ greeting[h].tracker = w
                              THEN raced \cup {w} ELSE raced
            BY <1>3 DEF FindTrackRun
        <2>2. w \in Tracker /\ UNCHANGED <<runOf, tellVars>> /\ greeting[g].pc = "find"
            BY <1>0, <1>3 DEF FindTrackRun, GreetingState
        <2>3. CASE RunsOf(w) = {}
            <3> DEFINE looking == [greeting[g] EXCEPT !.todo = @ \ {w}, !.pc = "create", !.tracker = w]
            <3>1. greeting' = [greeting EXCEPT ![g] = looking]
                BY <2>1, <2>3
            <3>2. looking \in GreetingState /\ looking.pc = "create" /\ looking.tracker = w
                BY <1>0, <2>2 DEF GreetingState
            <3> HIDE DEF looking
            <3>3. Only("create", w)
                BY <1>0, <3>1, <3>2
            <3>4. /\ raced \subseteq raced' /\ raced' \subseteq Tracker
                  /\ w \notin raced' => \A h \in Greeting : ~ Creating(h, w)
                BY <1>0, <2>1, <2>2, <2>3 DEF Creating
            <3>5. ASSUME NEW u \in Tracker, Unmistaken(u)' PROVE Single(u)'
                <4>1. Single(u) /\ u \notin raced'
                    BY <1>0, <3>4, <3>5 DEF Unmistaken, Alike
                <4>2. \A h \in Greeting : Creating(h, u)' => Creating(h, u) \/ (h = g /\ u = w)
                    BY <3>3 DEF Creating
                <4> QED
                    BY <2>2, <2>3, <3>4, <4>1, <4>2 DEF Single, RunsOf
            <3> QED
                BY <1>0, <2>2, <3>3, <3>4, <3>5, GreetMoves
        <2>4. CASE RunsOf(w) # {}
            <3>1. greeting' = [greeting EXCEPT ![g].todo = @ \ {w}] /\ UNCHANGED raced
                BY <2>1, <2>4
            <3>2. Only("find", greeting[g].tracker)
                BY <1>0, <2>2, <3>1 DEF GreetingState
            <3> QED
                BY <1>1, <2>2, <3>1, <3>2
        <2> QED
            BY <2>3, <2>4
    <1>4. CASE CreateTrackRun(g)
        <2>1. PICK v \in Candidates(greeting[g].tracker), r \in TrackRun :
                runOf[r] = Nobody /\ runOf' = [runOf EXCEPT ![r] = v]
            BY <1>4 DEF CreateTrackRun
        <2>2. /\ UNCHANGED <<raced, tellVars>> /\ greeting[g].pc = "create"
              /\ greeting' = [greeting EXCEPT ![g].pc = "find", ![g].tracker = AnyTracker]
            BY <1>4 DEF CreateTrackRun
        <2>3. v \in Tracker /\ TrackerType[v] = TrackerType[greeting[g].tracker]
            BY <2>1 DEF Candidates
        <2>4. Only("find", AnyTracker)
            BY <1>0, <2>2 DEF GreetingState
        <2>5. /\ runOf' \in [TrackRun -> Tracker \cup {Nobody}]
              /\ \A w \in Tracker : RunsOf(w)' \subseteq (RunsOf(w) \cup {r}) /\ (w # v => RunsOf(w)' \subseteq RunsOf(w))
            BY <1>0, <2>1, <2>3 DEF RunsOf
        <2>6. ASSUME NEW w \in Tracker, Unmistaken(w)' PROVE Single(w)'
            <3>1. Single(w) /\ ~ Alike(w)
                BY <1>0, <2>2, <2>6 DEF Unmistaken, Alike
            <3>2. \A h \in Greeting : Creating(h, w)' => Creating(h, w) /\ h # g
                BY <2>4 DEF Creating
            <3>3. CASE w = v
                <4>1. Creating(g, w)
                    BY <1>0, <2>2, <2>3, <3>1, <3>3 DEF Alike, Creating
                <4> QED
                    BY <2>5, <3>1, <3>2, <4>1 DEF Single
            <3>4. CASE w # v
                BY <2>5, <3>1, <3>2, <3>4 DEF Single
            <3> QED
                BY <3>3, <3>4
        <2> QED
            BY <1>0, <2>2, <2>4, <2>5, <2>6, GreetMoves
    <1>5. CASE FailGreeting(g)
        <2>1. /\ UNCHANGED <<runOf, raced, tellVars>>
              /\ greeting' = [greeting EXCEPT ![g] = Abandoned(greeting[g])]
            BY <1>5 DEF FailGreeting
        <2>2. Abandoned(greeting[g]) \in GreetingState /\ Abandoned(greeting[g]).pc = "find"
              /\ Abandoned(greeting[g]).tracker = AnyTracker
            BY <1>0 DEF Abandoned, GreetingState
        <2>3. Only("find", AnyTracker)
            BY <1>0, <2>1, <2>2
        <2> QED
            BY <1>1, <2>1, <2>3
    <1> QED
        BY <1>2, <1>3, <1>4, <1>5

\* Posts and notices leave greetings and runs alone.
LEMMA SingleKept ==
    ASSUME TrackingInv, UNCHANGED greetVars
    PROVE  \A w \in Tracker : /\ Unmistaken(w)' = Unmistaken(w)
                              /\ Unmistaken(w) => Single(w)'
    BY DEF TrackingInv, greetVars, Unmistaken, Alike, Single, RunsOf, Creating

\* A post on its way to its announcement: until it has one, nobody carries what
\* it is about.
LEMMA PostMoves ==
    ASSUME TrackingInv, NEW p \in Batch, UNCHANGED <<notice, greetVars, toldVars>>,
           posted' \in [Batch -> PostState], known' \in [Tracker -> SUBSET Link],
           unannounced \subseteq unannounced', unannounced' \subseteq Tracker \X Link,
           \A q \in Batch : q # p => posted'[q] = posted[q],
           posted[p].pc # "done", posted'[p].pc \notin {"idle", "read"} \/ posted'[p].new = {},
           \A w \in Tracker : known[w] \subseteq known'[w],
           \/ /\ posted'[p].pc = "publish" /\ posted[p].pc = "insert"
              /\ posted'[p].new = posted[p].new /\ posted'[p].tracker = posted[p].tracker
              /\ posted[p].new \cap known[posted[p].tracker] = {}
              /\ posted[p].new \subseteq known'[posted[p].tracker]
              /\ \A w \in Tracker : \A l \in known'[w] :
                   l \in known[w] \/ (w = posted[p].tracker /\ l \in posted[p].new)
           \/ /\ posted'[p].pc # "publish" /\ posted[p].pc # "publish"
              /\ \A w \in Tracker : \A l \in known'[w] : l \in known[w] \/ <<w, l>> \in unannounced'
           \/ /\ posted'[p].pc = "done" /\ posted[p].pc = "publish"
              /\ known' = known /\ NewOf(p) \subseteq unannounced'
              /\ posted'[p].new = posted[p].new /\ posted'[p].tracker = posted[p].tracker
    PROVE  TrackingInv'
    <1> USE DEF TrackingInv
    <1>1. /\ UNCHANGED <<notice, told, unheard, unsent, redelivered, trackCrashes, runOf, greeting, raced>>
          /\ notice[p].pc = "none" /\ notice[p].left = NothingLeft
          /\ notice \in [Batch -> NoticeState]
        BY DEF greetVars, toldVars, PostInOrder, TrackingTypeOK
    <1>2. TrackingTypeOK'
        BY <1>1 DEF TrackingTypeOK
    <1>3. \A q \in Batch : PostInOrder(q)'
        <2>1. PostInOrder(p)'
            BY <1>1 DEF PostInOrder, NothingLeft
        <2>2. ASSUME NEW q \in Batch, q # p PROVE PostInOrder(q)'
            <3>1. posted'[q] = posted[q] /\ notice'[q] = notice[q] /\ PostInOrder(q)
                BY <1>1, <2>2
            <3> QED
                BY <1>1, <3>1 DEF PostInOrder
        <2> QED
            BY <2>1, <2>2
    <1>4. \A q \in Batch, w \in Tracker, l \in Link : q # p => Carries(q, w, l)' = Carries(q, w, l)
        BY <1>1 DEF Carries
    <1>5. \A w \in Tracker, l \in Link : OneCarries(w, l)'
        <2> SUFFICES ASSUME NEW w \in Tracker, NEW l \in Link PROVE OneCarries(w, l)'
            OBVIOUS
        <2>1. OneCarries(w, l)
            OBVIOUS
        <2>2. Carries(p, w, l)' => l \in known'[w] /\ \A q \in Batch : q # p => ~ Carries(q, w, l)
            BY <1>1, <2>1 DEF Carries, OneCarries
        <2> QED
            BY <1>4, <2>1, <2>2 DEF OneCarries
    <1>6. ASSUME NEW w \in Tracker, Unmistaken(w) PROVE \A l \in Link : ToldBy(w, l)'
        <2> SUFFICES ASSUME NEW l \in Link PROVE ToldBy(w, l)'
            OBVIOUS
        <2>1. ToldBy(w, l) /\ OneCarries(w, l)
            BY <1>6
        <2>2. ASSUME NEW q \in Batch, q # p
              PROVE  posted'[q] = posted[q] /\ notice'[q] = notice[q] /\ Carries(q, w, l)' = Carries(q, w, l)
            BY <1>1, <1>4, <2>2
        <2>3. Carries(p, w, l) => told[<<w, l>>] = 0
            BY <1>1, <2>1 DEF Carries, ToldBy, PostInOrder
        <2>4. told[<<w, l>>] \in Nat
            BY DEF TrackingTypeOK
        <2>5. told[<<w, l>>] > 0 => \E q \in Batch : q # p /\ Carries(q, w, l)
            BY <1>1, <2>1, <2>3, <2>4 DEF ToldBy
        <2>6. Carries(p, w, l)' => told[<<w, l>>] = 0
            BY <1>1, <2>1, <2>4, <2>5 DEF Carries, OneCarries
        <2> QED
            BY <1>1, <2>1, <2>2, <2>4, <2>5, <2>6 DEF ToldBy, NothingLeft
    <1>7. StoredIsTold'
        <2> SUFFICES ASSUME NEW w \in Tracker, NEW l \in known'[w], told[<<w, l>>] = 0 \/ ~ (told[<<w, l>>] > 0),
                            <<w, l>> \notin unannounced' \cup unheard \cup unsent
                     PROVE  OnItsWay(w, l)'
            BY <1>1 DEF StoredIsTold
        <2>1. l \in known[w] => OnItsWay(w, l)
            BY DEF StoredIsTold
        <2>2. ASSUME NEW q \in Batch, q # p, l \in known[w],
                     <<w, l>> \in NewOf(q),
                     posted[q].pc = "publish" \/ notice[q].pc = "queued" \/ \E r \in TrackRun : l \in notice[q].left[r]
              PROVE  OnItsWay(w, l)'
            BY <1>1, <2>2 DEF OnItsWay, NewOf
        <2> QED
            BY <1>1, <2>1, <2>2 DEF OnItsWay, NewOf, NothingLeft
    <1> QED
        BY <1>2, <1>3, <1>5, <1>6, <1>7, SingleKept

\* The steps of a post.
LEMMA PostSteps ==
    ASSUME TrackingInv, NEW p \in Batch,
           PostLinks(p) \/ FindKnown(p) \/ InsertLinks(p) \/ FailPost(p)
    PROVE  TrackingInv'
    <1>0. /\ posted \in [Batch -> PostState] /\ known \in [Tracker -> SUBSET Link]
          /\ unannounced \subseteq Tracker \X Link
          /\ posted[p].tracker \in Tracker /\ posted[p].new \in SUBSET Link /\ posted[p].links \in SUBSET Link
          /\ posted[p].pc \in {"idle", "read"} => posted[p].new = {}
        BY DEF TrackingInv, TrackingTypeOK, PostInOrder, PostState
    <1>1. CASE PostLinks(p)
        <2>1. PICK w \in Tracker, links \in SUBSET Link :
                posted' = [posted EXCEPT ![p] = [pc |-> "read", tracker |-> w, links |-> links, new |-> {}]]
            BY <1>1 DEF PostLinks
        <2> DEFINE asked == [pc |-> "read", tracker |-> w, links |-> links, new |-> {}]
        <2>2. asked \in PostState /\ asked.pc = "read" /\ asked.new = {} /\ posted' = [posted EXCEPT ![p] = asked]
            BY <2>1 DEF PostState
        <2> HIDE DEF asked
        <2>3. posted' \in [Batch -> PostState] /\ posted'[p] = asked /\ \A q \in Batch : q # p => posted'[q] = posted[q]
            BY <1>0, <2>2
        <2>4. UNCHANGED <<known, notice, unannounced, greetVars, toldVars>> /\ posted[p].pc = "idle"
            BY <1>1 DEF PostLinks
        <2> QED
            BY <1>0, <2>2, <2>3, <2>4, PostMoves
    <1>2. CASE FindKnown(p)
        <2>1. PICK new : new = posted[p].links \ known[posted[p].tracker]
            OBVIOUS
        <2> DEFINE asked == [posted[p] EXCEPT !.new = new, !.links = {}, !.pc = IF new = {} THEN "done" ELSE "insert"]
        <2>2. posted' = [posted EXCEPT ![p] = asked] /\ posted[p].pc = "read"
              /\ UNCHANGED <<known, notice, unannounced, greetVars, toldVars>>
            BY <1>2, <2>1 DEF FindKnown
        <2>3. asked \in PostState /\ asked.pc \in {"done", "insert"}
            BY <1>0, <2>1 DEF PostState
        <2> HIDE DEF asked
        <2>4. posted' \in [Batch -> PostState] /\ posted'[p] = asked /\ \A q \in Batch : q # p => posted'[q] = posted[q]
            BY <1>0, <2>2, <2>3
        <2> QED
            BY <1>0, <2>2, <2>3, <2>4, PostMoves
    <1>3. CASE InsertLinks(p)
        <2>1. PICK w \in Tracker : w = posted[p].tracker
            BY <1>0
        <2>2. /\ known' = [known EXCEPT ![w] = @ \cup posted[p].new]
              /\ posted[p].pc = "insert" /\ UNCHANGED <<notice, greetVars, toldVars>>
            BY <1>3, <2>1 DEF InsertLinks
        <2>3. /\ known' \in [Tracker -> SUBSET Link] /\ \A v \in Tracker : known[v] \subseteq known'[v]
              /\ known'[w] = known[w] \cup posted[p].new /\ \A v \in Tracker : v # w => known'[v] = known[v]
            BY <1>0, <2>2
        <2>4. CASE posted[p].new \cap known[w] = {}
            <3> DEFINE asked == [posted[p] EXCEPT !.pc = "publish"]
            <3>1. posted' = [posted EXCEPT ![p] = asked] /\ UNCHANGED unannounced
                BY <1>3, <2>1, <2>4 DEF InsertLinks
            <3>2. asked \in PostState /\ asked.pc = "publish" /\ asked.new = posted[p].new /\ asked.tracker = w
                BY <1>0, <2>1 DEF PostState
            <3> HIDE DEF asked
            <3>3. posted' \in [Batch -> PostState] /\ posted'[p] = asked /\ \A q \in Batch : q # p => posted'[q] = posted[q]
                BY <1>0, <3>1, <3>2
            <3> QED
                BY <1>0, <2>1, <2>2, <2>3, <2>4, <3>1, <3>2, <3>3, PostMoves
        <2>5. CASE posted[p].new \cap known[w] # {}
            <3> DEFINE asked == [posted[p] EXCEPT !.pc = "done"]
            <3>1. posted' = [posted EXCEPT ![p] = asked]
                  /\ unannounced' = unannounced \cup ({w} \X (posted[p].new \ known[w]))
                BY <1>3, <2>1, <2>5 DEF InsertLinks
            <3>2. asked \in PostState /\ asked.pc = "done"
                BY <1>0 DEF PostState
            <3> HIDE DEF asked
            <3>3. posted' \in [Batch -> PostState] /\ posted'[p] = asked /\ \A q \in Batch : q # p => posted'[q] = posted[q]
                BY <1>0, <3>1, <3>2
            <3>4. /\ unannounced \subseteq unannounced' /\ unannounced' \subseteq Tracker \X Link
                  /\ \A v \in Tracker : \A l \in known'[v] : l \in known[v] \/ <<v, l>> \in unannounced'
                BY <1>0, <2>3, <3>1
            <3> QED
                BY <1>0, <2>2, <2>3, <3>2, <3>3, <3>4, PostMoves
        <2> QED
            BY <2>4, <2>5
    <1>4. CASE FailPost(p)
        <2> DEFINE asked == [posted[p] EXCEPT !.pc = "done"]
        <2>1. /\ posted' = [posted EXCEPT ![p] = asked] /\ posted[p].pc \in {"read", "insert", "publish"}
              /\ unannounced' = IF posted[p].pc = "publish" THEN unannounced \cup NewOf(p) ELSE unannounced
              /\ UNCHANGED <<known, notice, greetVars, toldVars>>
            BY <1>4 DEF FailPost
        <2>2. asked \in PostState /\ asked.pc = "done" /\ asked.new = posted[p].new /\ asked.tracker = posted[p].tracker
            BY <1>0 DEF PostState
        <2> HIDE DEF asked
        <2>3. posted' \in [Batch -> PostState] /\ posted'[p] = asked /\ \A q \in Batch : q # p => posted'[q] = posted[q]
            BY <1>0, <2>1, <2>2
        <2>4. /\ unannounced \subseteq unannounced' /\ unannounced' \subseteq Tracker \X Link
              /\ posted[p].pc = "publish" => NewOf(p) \subseteq unannounced'
            BY <1>0, <2>1 DEF NewOf
        <2> QED
            BY <1>0, <2>1, <2>2, <2>3, <2>4, PostMoves
    <1> QED
        BY <1>1, <1>2, <1>3, <1>4

\* The announcement turns the post that carries a link into its notice.
LEMMA PublishStep ==
    ASSUME TrackingInv, NEW p \in Batch, PublishLinks(p)
    PROVE  TrackingInv'
    <1> USE DEF TrackingInv
    <1>0. /\ posted \in [Batch -> PostState] /\ notice \in [Batch -> NoticeState]
          /\ UNCHANGED <<known, unannounced, greetVars, told, unheard, unsent, redelivered, trackCrashes>>
          /\ posted[p].pc = "publish" /\ notice[p].pc = "none" /\ notice[p].left = NothingLeft
          /\ p \notin redelivered
        BY DEF TrackingTypeOK, PostInOrder, PublishLinks, toldVars
    <1>1. /\ posted' = [posted EXCEPT ![p] = [posted[p] EXCEPT !.pc = "done"]]
          /\ notice' = [notice EXCEPT ![p] = [notice[p] EXCEPT !.pc = "queued"]]
        BY DEF PublishLinks
    <1>2. /\ [posted[p] EXCEPT !.pc = "done"] \in PostState
          /\ [notice[p] EXCEPT !.pc = "queued"] \in NoticeState
        <2>1. posted[p] \in PostState /\ notice[p] \in NoticeState
            BY <1>0
        <2>2. [posted[p] EXCEPT !.pc = "done"] \in PostState
            BY <2>1 DEF PostState
        <2>3. [notice[p] EXCEPT !.pc = "queued"] \in NoticeState
            BY <2>1 DEF NoticeState
        <2> QED
            BY <2>2, <2>3
    <1>3. /\ posted' \in [Batch -> PostState] /\ notice' \in [Batch -> NoticeState]
          /\ posted'[p].pc = "done" /\ posted'[p].new = posted[p].new /\ posted'[p].tracker = posted[p].tracker
          /\ notice'[p].pc = "queued" /\ notice'[p].left = NothingLeft
        BY <1>0, <1>1, <1>2 DEF PostState, NoticeState
    <1>4. \A q \in Batch : q # p => posted'[q] = posted[q] /\ notice'[q] = notice[q]
        BY <1>0, <1>1
    <1>5. TrackingTypeOK'
        BY <1>0, <1>3 DEF TrackingTypeOK, greetVars
    <1>6. \A q \in Batch : PostInOrder(q)'
        <2>1. PostInOrder(p)'
            BY <1>0, <1>3 DEF PostInOrder, NothingLeft
        <2>2. ASSUME NEW q \in Batch, q # p PROVE PostInOrder(q)'
            <3>1. posted'[q] = posted[q] /\ notice'[q] = notice[q] /\ PostInOrder(q)
                BY <1>4, <2>2
            <3> QED
                BY <1>0, <3>1 DEF PostInOrder
        <2> QED
            BY <2>1, <2>2
    <1>7. \A q \in Batch, w \in Tracker, l \in Link : Carries(q, w, l)' = Carries(q, w, l)
        BY <1>0, <1>3, <1>4 DEF Carries
    <1>8. \A w \in Tracker, l \in Link : OneCarries(w, l)'
        BY <1>0, <1>7 DEF OneCarries
    <1>9. ASSUME NEW w \in Tracker, NEW l \in Link, ToldBy(w, l) PROVE ToldBy(w, l)'
        BY <1>0, <1>3, <1>4, <1>7, <1>9 DEF ToldBy, NothingLeft
    <1>10. \A w \in Tracker, l \in Link : OnItsWay(w, l) => OnItsWay(w, l)'
        BY <1>0, <1>3, <1>4 DEF OnItsWay, NewOf, NothingLeft
    <1>11. StoredIsTold'
        BY <1>0, <1>10 DEF StoredIsTold, TrackingTypeOK
    <1> QED
        BY <1>0, <1>5, <1>6, <1>8, <1>9, <1>11, SingleKept

\* A notice that its message is told of stays one, and carries what it carried.
LEMMA NoticeMoves ==
    ASSUME TrackingInv, NEW p \in Batch, UNCHANGED <<postVars, greetVars, redelivered>>,
           notice' \in [Batch -> NoticeState], told' \in [Tracker \X Link -> Nat],
           unheard' \subseteq Tracker \X Link, unsent' \subseteq Tracker \X Link,
           \A q \in Batch : q # p => notice'[q] = notice[q],
           notice[p].pc # "none", notice'[p].pc # "none", PostInOrder(p)',
           \A w \in Tracker, l \in Link : Unmistaken(w) => ToldBy(w, l)',
           StoredIsTold'
    PROVE  TrackingInv'
    <1>1. /\ UNCHANGED <<known, posted, unannounced, trackCrashes, redelivered, runOf, greeting, raced>>
          /\ TrackingTypeOK /\ \A q \in Batch : PostInOrder(q)
          /\ \A w \in Tracker, l \in Link : OneCarries(w, l)
        BY DEF TrackingInv, postVars, greetVars
    <1>2. TrackingTypeOK'
        BY <1>1 DEF TrackingTypeOK
    <1>3. \A q \in Batch : PostInOrder(q)'
        <2> SUFFICES ASSUME NEW q \in Batch, q # p PROVE PostInOrder(q)'
            OBVIOUS
        <2>1. posted'[q] = posted[q] /\ notice'[q] = notice[q] /\ PostInOrder(q) /\ redelivered' = redelivered
            BY <1>1
        <2> QED
            BY <2>1 DEF PostInOrder
    <1>4. \A q \in Batch, w \in Tracker, l \in Link : Carries(q, w, l)' = Carries(q, w, l)
        BY <1>1 DEF Carries
    <1>5. \A w \in Tracker, l \in Link : OneCarries(w, l)'
        BY <1>1, <1>4 DEF OneCarries
    <1> QED
        BY <1>2, <1>3, <1>5, SingleKept DEF TrackingInv

\* What has been told of a link stays in order when nothing is told of it.
LEMMA ToldByKept ==
    ASSUME NEW w \in Tracker, NEW l \in Link, ToldBy(w, l), UNCHANGED <<posted, redelivered>>,
           told'[<<w, l>>] = told[<<w, l>>],
           \A q \in Batch : Carries(q, w, l)' = Carries(q, w, l),
           \A q \in Batch : notice'[q].pc = "queued" => notice[q].pc = "queued",
           \A q \in Batch, r \in TrackRun : l \in notice'[q].left[r] => l \in notice[q].left[r]
    PROVE  ToldBy(w, l)'
    <1>1. told'[<<w, l>>] > 0 => \E q \in Batch : Carries(q, w, l)'
        BY DEF ToldBy
    <1>2. ASSUME NEW q \in Batch, Carries(q, w, l)', q \notin redelivered'
          PROVE  /\ told'[<<w, l>>] <= 1
                 /\ posted'[q].pc = "publish" \/ notice'[q].pc = "queued" => told'[<<w, l>>] = 0
                 /\ \A r \in TrackRun : l \in notice'[q].left[r] =>
                      told'[<<w, l>>] = 0 /\ \A s \in TrackRun : l \in notice'[q].left[s] => s = r
        <2>1. Carries(q, w, l) /\ q \notin redelivered
            BY <1>2
        <2> QED
            BY <2>1 DEF ToldBy
    <1> QED
        BY <1>1, <1>2 DEF ToldBy

\* Telling: a link that is left to tell to a run has not been told, and each
\* chunk takes the links it tells of from what is left.
LEMMA NoticeSteps ==
    ASSUME TrackingInv, NEW p \in Batch, Telling(p)
    PROVE  TrackingInv'
    <1>0. /\ posted \in [Batch -> PostState] /\ notice \in [Batch -> NoticeState]
          /\ told \in [Tracker \X Link -> Nat] /\ unheard \subseteq Tracker \X Link /\ unsent \subseteq Tracker \X Link
          /\ posted[p] \in PostState /\ notice[p] \in NoticeState
          /\ NothingLeft \in [TrackRun -> SUBSET Link]
          /\ NewOf(p) \subseteq Tracker \X Link
          /\ \A r \in TrackRun : notice[p].left[r] \subseteq posted[p].new
          /\ \A w \in Tracker, l \in Link : OneCarries(w, l)
          /\ \A w \in Tracker : Unmistaken(w) => Single(w) /\ \A l \in Link : ToldBy(w, l)
          /\ StoredIsTold
        BY DEF TrackingInv, TrackingTypeOK, NothingLeft, PostInOrder, PostState, NewOf
    <1>1. /\ UNCHANGED <<postVars, greetVars, redelivered>>
          /\ UNCHANGED <<posted, known, unannounced, runOf, redelivered>>
          /\ notice[p].pc \in {"queued", "telling"} /\ posted[p].pc = "done"
        BY DEF TrackingInv, Telling, TakeNotice, TellChunk, AckNotice, FailToTell, postVars, greetVars, PostInOrder
    <1> DEFINE Only(pc) == /\ notice' \in [Batch -> NoticeState] /\ notice'[p].pc = pc
                           /\ \A q \in Batch : q # p => notice'[q] = notice[q]
    <1>2. \A w \in Tracker, l \in Link, q \in Batch :
            notice'[p].pc # "none" /\ (\A b \in Batch : b # p => notice'[b] = notice[b])
              => Carries(q, w, l)' = Carries(q, w, l)
        BY <1>1 DEF Carries
    <1>3. ASSUME Only("telling") \/ (Only("acked") /\ notice'[p].left = NothingLeft),
                 \A r \in TrackRun : notice'[p].left[r] \subseteq posted[p].new
          PROVE  PostInOrder(p)'
        BY <1>1, <1>3 DEF PostInOrder
    <1>4. CASE TakeNotice(p)
        <2>1. PICK runs : runs = RunsOf(posted[p].tracker)
            OBVIOUS
        <2> DEFINE left == [r \in TrackRun |-> IF r \in runs THEN posted[p].new ELSE {}]
                   taken == [notice[p] EXCEPT !.pc = "telling", !.left = left]
        <2>2. /\ notice' = [notice EXCEPT ![p] = taken] /\ UNCHANGED <<told, unsent>>
              /\ unheard' = IF runs = {} THEN unheard \cup NewOf(p) ELSE unheard
              /\ notice[p].pc = "queued"
            BY <1>4, <2>1 DEF TakeNotice
        <2>3. taken \in NoticeState /\ taken.pc = "telling" /\ taken.left = left
            BY <1>0 DEF NoticeState, PostState
        <2> HIDE DEF taken
        <2>4. Only("telling") /\ notice'[p].left = left
            BY <1>0, <2>2, <2>3
        <2>5. unheard' \subseteq Tracker \X Link
            BY <1>0, <2>2
        <2>6. PostInOrder(p)'
            BY <1>3, <2>4
        <2>7. ASSUME NEW w \in Tracker, NEW l \in Link, Unmistaken(w) PROVE ToldBy(w, l)'
            <3>1. ToldBy(w, l) /\ Single(w)
                BY <1>0, <2>7
            <3>2. \A r \in TrackRun : l \in left[r] /\ Carries(p, w, l) => r \in RunsOf(w)
                BY <2>1 DEF Carries
            <3>3. \A q \in Batch : Carries(q, w, l)' = Carries(q, w, l)
                BY <1>2, <2>4
            <3> HIDE DEF left
            <3> QED
                BY <1>1, <2>2, <2>4, <3>1, <3>2, <3>3 DEF ToldBy, Single
        <2>8. StoredIsTold'
            <3> SUFFICES ASSUME NEW w \in Tracker, NEW l \in known[w], OnItsWay(w, l),
                                <<w, l>> \notin unheard'
                         PROVE  OnItsWay(w, l)'
                BY <1>0, <1>1, <2>2 DEF StoredIsTold
            <3>1. PICK q \in Batch :
                    /\ <<w, l>> \in NewOf(q)
                    /\ posted[q].pc = "publish" \/ notice[q].pc = "queued" \/ \E r \in TrackRun : l \in notice[q].left[r]
                BY DEF OnItsWay
            <3>2. CASE q = p
                <4>1. PICK r \in TrackRun : r \in runs
                    BY <2>1, <2>2, <3>1, <3>2 DEF RunsOf
                <4> QED
                    BY <1>1, <2>4, <3>1, <3>2, <4>1 DEF OnItsWay, NewOf
            <3>3. CASE q # p
                BY <1>1, <2>4, <3>1, <3>3 DEF OnItsWay, NewOf
            <3> QED
                BY <3>2, <3>3
        <2> QED
            BY <1>0, <1>1, <2>2, <2>4, <2>5, <2>6, <2>7, <2>8, NoticeMoves
    <1>5. CASE TellChunk(p)
        <2>1. PICK r \in TrackRun, chunk \in SUBSET Link :
                /\ chunk \subseteq notice[p].left[r]
                /\ notice' = [notice EXCEPT ![p].left[r] = @ \ chunk]
                /\ told' = [wl \in DOMAIN told |->
                              told[wl] + IF wl[1] = posted[p].tracker /\ wl[2] \in chunk THEN 1 ELSE 0]
            BY <1>0, <1>5, ZenonT(30) DEF TellChunk, NoticeState
        <2> DEFINE rest == [notice[p].left EXCEPT ![r] = @ \ chunk]
                   telling == [notice[p] EXCEPT !.left = rest]
        <2>2. /\ notice' = [notice EXCEPT ![p] = telling] /\ UNCHANGED <<unheard, unsent>> /\ notice[p].pc = "telling"
            BY <1>5, <2>1 DEF TellChunk
        <2>3. /\ rest \in [TrackRun -> SUBSET Link] /\ rest[r] = notice[p].left[r] \ chunk
              /\ \A s \in TrackRun : s # r => rest[s] = notice[p].left[s]
            BY <1>0 DEF NoticeState
        <2> HIDE DEF rest
        <2>4. telling \in NoticeState /\ telling.pc = "telling" /\ telling.left = rest
            BY <1>0, <2>2, <2>3 DEF NoticeState
        <2> HIDE DEF telling
        <2>5. Only("telling") /\ notice'[p].left = rest
            BY <1>0, <2>2, <2>4
        <2>6. \A w \in Tracker, l \in Link :
                /\ told'[<<w, l>>] = told[<<w, l>>] + IF w = posted[p].tracker /\ l \in chunk THEN 1 ELSE 0
            BY <1>0, <2>1
        <2>7. told' \in [Tracker \X Link -> Nat]
            BY <1>0, <2>1
        <2>8. PostInOrder(p)'
            BY <1>0, <1>3, <2>3, <2>5
        <2>9. ASSUME NEW w \in Tracker, NEW l \in Link, Unmistaken(w) PROVE ToldBy(w, l)'
            <3>1. ToldBy(w, l) /\ OneCarries(w, l)
                BY <1>0, <2>9
            <3>2. \A q \in Batch : Carries(q, w, l)' = Carries(q, w, l)
                BY <1>2, <2>5
            <3>3. CASE w = posted[p].tracker /\ l \in chunk
                <4>0. told'[<<w, l>>] = told[<<w, l>>] + 1 /\ told[<<w, l>>] \in Nat
                    BY <1>0, <2>6, <3>3
                <4>1. Carries(p, w, l)
                    BY <1>0, <1>1, <2>1, <3>3 DEF Carries
                <4>2. p \notin redelivered => told[<<w, l>>] = 0 /\ \A s \in TrackRun : l \notin rest[s]
                    BY <2>1, <2>3, <3>1, <3>3, <4>1 DEF ToldBy
                <4>3. \A q \in Batch : Carries(q, w, l)' => q = p
                    BY <3>1, <3>2, <4>1 DEF OneCarries
                <4> QED
                    BY <1>1, <2>2, <2>5, <3>2, <4>0, <4>1, <4>2, <4>3 DEF ToldBy
            <3>4. CASE ~ (w = posted[p].tracker /\ l \in chunk)
                <4>1. told'[<<w, l>>] = told[<<w, l>>] /\ told[<<w, l>>] \in Nat
                    BY <1>0, <2>6, <3>4
                <4>2. \A s \in TrackRun : rest[s] \subseteq notice[p].left[s]
                    BY <2>3
                <4>3. \A q \in Batch, s \in TrackRun : l \in notice'[q].left[s] => l \in notice[q].left[s]
                    BY <2>5, <4>2
                <4>4. \A q \in Batch : notice'[q].pc = "queued" => notice[q].pc = "queued"
                    BY <2>5
                <4> QED
                    BY <1>1, <3>1, <3>2, <4>1, <4>3, <4>4, ToldByKept
            <3> QED
                BY <3>3, <3>4
        <2>10. StoredIsTold'
            <3> SUFFICES ASSUME NEW w \in Tracker, NEW l \in known[w], l \in Link, OnItsWay(w, l),
                                ~ (told'[<<w, l>>] > 0)
                         PROVE  OnItsWay(w, l)'
                <4>1. \A w \in Tracker : known[w] \subseteq Link
                    BY DEF TrackingInv, TrackingTypeOK
                <4>2. \A w \in Tracker, l \in Link : told[<<w, l>>] > 0 => told'[<<w, l>>] > 0
                    BY <1>0, <2>6
                <4> QED
                    BY <1>0, <1>1, <2>2, <4>1, <4>2 DEF StoredIsTold
            <3>1. PICK q \in Batch :
                    /\ <<w, l>> \in NewOf(q)
                    /\ posted[q].pc = "publish" \/ notice[q].pc = "queued" \/ \E s \in TrackRun : l \in notice[q].left[s]
                BY DEF OnItsWay
            <3>2. CASE q = p
                <4>1. PICK s \in TrackRun : l \in notice[p].left[s]
                    BY <1>1, <2>2, <3>1, <3>2
                <4>2. w = posted[p].tracker
                    BY <3>1, <3>2 DEF NewOf
                <4>3. l \notin chunk
                    BY <1>0, <2>6, <4>2
                <4>4. l \in rest[s]
                    BY <2>3, <4>1, <4>3
                <4> QED
                    BY <1>1, <2>5, <3>1, <3>2, <4>4 DEF OnItsWay, NewOf
            <3>3. CASE q # p
                BY <1>1, <2>5, <3>1, <3>3 DEF OnItsWay, NewOf
            <3> QED
                BY <3>2, <3>3
        <2> QED
            BY <1>0, <1>1, <2>2, <2>5, <2>7, <2>8, <2>9, <2>10, NoticeMoves
    <1>6. CASE AckNotice(p)
        <2> DEFINE acked == [notice[p] EXCEPT !.pc = "acked"]
        <2>1. /\ notice' = [notice EXCEPT ![p] = acked] /\ UNCHANGED <<told, unheard, unsent>>
              /\ notice[p].pc = "telling" /\ notice[p].left = NothingLeft
            BY <1>6 DEF AckNotice
        <2>2. acked \in NoticeState /\ acked.pc = "acked" /\ acked.left = NothingLeft
            BY <1>0, <2>1 DEF NoticeState
        <2> HIDE DEF acked
        <2>3. Only("acked") /\ notice'[p].left = NothingLeft
            BY <1>0, <2>1, <2>2
        <2>4. PostInOrder(p)'
            BY <1>3, <2>3 DEF NothingLeft
        <2>5. \A q \in Batch, w \in Tracker, l \in Link : Carries(q, w, l)' = Carries(q, w, l)
            BY <1>2, <2>3
        <2>6. ASSUME NEW w \in Tracker, NEW l \in Link, Unmistaken(w) PROVE ToldBy(w, l)'
            <3>1. ToldBy(w, l) /\ told'[<<w, l>>] = told[<<w, l>>] /\ told[<<w, l>>] \in Nat
                BY <1>0, <2>1, <2>6
            <3>2. \A q \in Batch : notice'[q].pc = "queued" => notice[q].pc = "queued"
                BY <2>3
            <3>4. \A q \in Batch, r \in TrackRun : l \in notice'[q].left[r] => l \in notice[q].left[r]
                BY <2>3 DEF NothingLeft
            <3>3. \A q \in Batch : Carries(q, w, l)' = Carries(q, w, l)
                BY <2>5
            <3> QED
                BY <1>1, <3>1, <3>2, <3>3, <3>4, ToldByKept
        <2>7. \A w \in Tracker : \A l \in known[w] : OnItsWay(w, l) => OnItsWay(w, l)'
            BY <1>1, <2>1, <2>3 DEF OnItsWay, NewOf, NothingLeft
        <2>8. StoredIsTold'
            BY <1>0, <1>1, <2>1, <2>7 DEF StoredIsTold
        <2> QED
            BY <1>0, <1>1, <2>1, <2>3, <2>4, <2>6, <2>8, NoticeMoves
    <1>7. CASE FailToTell(p)
        <2> DEFINE failed == [pc |-> "acked", left |-> NothingLeft]
        <2>1. /\ notice' = [notice EXCEPT ![p] = failed] /\ UNCHANGED <<told, unheard>>
              /\ notice[p].pc = "telling"
              /\ unsent' = unsent \cup {wl \in NewOf(p) : \E r \in TrackRun : wl[2] \in notice[p].left[r]}
            BY <1>7 DEF FailToTell
        <2>2. failed \in NoticeState /\ failed.pc = "acked" /\ failed.left = NothingLeft
            BY <1>0, <2>1 DEF NoticeState
        <2> HIDE DEF failed
        <2>3. Only("acked") /\ notice'[p].left = NothingLeft
            BY <1>0, <2>1, <2>2
        <2>4. PostInOrder(p)' /\ unsent' \subseteq Tracker \X Link
            BY <1>0, <1>3, <2>1, <2>3 DEF NothingLeft
        <2>5. \A q \in Batch, w \in Tracker, l \in Link : Carries(q, w, l)' = Carries(q, w, l)
            BY <1>2, <2>3
        <2>6. ASSUME NEW w \in Tracker, NEW l \in Link, Unmistaken(w) PROVE ToldBy(w, l)'
            <3>1. ToldBy(w, l) /\ told'[<<w, l>>] = told[<<w, l>>] /\ told[<<w, l>>] \in Nat
                BY <1>0, <2>1, <2>6
            <3>2. \A q \in Batch : notice'[q].pc = "queued" => notice[q].pc = "queued"
                BY <2>3
            <3>4. \A q \in Batch, r \in TrackRun : l \in notice'[q].left[r] => l \in notice[q].left[r]
                BY <2>3 DEF NothingLeft
            <3>3. \A q \in Batch : Carries(q, w, l)' = Carries(q, w, l)
                BY <2>5
            <3> QED
                BY <1>1, <3>1, <3>2, <3>3, <3>4, ToldByKept
        <2>7. \A w \in Tracker : \A l \in known[w] : OnItsWay(w, l) => OnItsWay(w, l)' \/ <<w, l>> \in unsent'
            BY <1>1, <2>1, <2>3 DEF OnItsWay, NewOf, NothingLeft
        <2>8. StoredIsTold'
            BY <1>0, <1>1, <2>1, <2>7 DEF StoredIsTold
        <2> QED
            BY <1>0, <1>1, <2>1, <2>3, <2>4, <2>6, <2>8, NoticeMoves
    <1> QED
        BY <1>4, <1>5, <1>6, <1>7 DEF Telling

\* A restart: what was to be announced is recorded as lost, and what was being
\* told will be told again.
LEMMA TrackCrashStep ==
    ASSUME TrackingInv, TrackCrash
    PROVE  TrackingInv'
    <1>0. /\ posted \in [Batch -> PostState] /\ notice \in [Batch -> NoticeState]
          /\ greeting \in [Greeting -> GreetingState] /\ TrackingTypeOK
          /\ NothingLeft \in [TrackRun -> SUBSET Link]
          /\ \A p \in Batch : NewOf(p) \subseteq Tracker \X Link /\ PostInOrder(p)
          /\ \A w \in Tracker, l \in Link : OneCarries(w, l)
          /\ \A w \in Tracker : Unmistaken(w) => Single(w) /\ \A l \in Link : ToldBy(w, l)
          /\ StoredIsTold
        BY DEF TrackingInv, TrackingTypeOK, NothingLeft, PostState, NewOf
    <1>1. /\ UNCHANGED <<known, runOf, told, unheard, unsent, raced>>
          /\ trackCrashes' \in 0..MaxTrackCrashes
          /\ unannounced' = unannounced \cup UNION {NewOf(p) : p \in {q \in Batch : posted[q].pc = "publish"}}
          /\ redelivered' = redelivered \cup {p \in Batch : notice[p].pc = "telling"}
        BY <1>0, TrackingAssumption DEF TrackCrash, TrackingTypeOK, TrackingAssumption
    <1>2. \A p \in Batch : /\ posted'[p] \in PostState
                           /\ posted'[p].pc = (IF posted[p].pc = "idle" THEN "idle" ELSE "done")
                           /\ posted'[p].new = posted[p].new /\ posted'[p].tracker = posted[p].tracker
        <2> SUFFICES ASSUME NEW p \in Batch
                     PROVE  /\ posted'[p] \in PostState
                            /\ posted'[p].pc = (IF posted[p].pc = "idle" THEN "idle" ELSE "done")
                            /\ posted'[p].new = posted[p].new /\ posted'[p].tracker = posted[p].tracker
            OBVIOUS
        <2>1. posted[p] \in PostState
            BY <1>0
        <2>2. posted'[p] = IF posted[p].pc = "idle" THEN posted[p] ELSE [posted[p] EXCEPT !.pc = "done"]
            BY DEF TrackCrash
        <2> QED
            BY <2>1, <2>2 DEF PostState
    <1>3. \A p \in Batch : notice'[p] = IF notice[p].pc = "telling"
                                          THEN [pc |-> "queued", left |-> NothingLeft] ELSE notice[p]
        BY DEF TrackCrash
    <1>4. posted' \in [Batch -> PostState] /\ notice' \in [Batch -> NoticeState]
        <2>1. posted' \in [Batch -> PostState]
            BY <1>2 DEF TrackCrash
        <2>2. [pc |-> "queued", left |-> NothingLeft] \in NoticeState
            BY <1>0 DEF NoticeState
        <2> QED
            BY <1>0, <2>1, <2>2 DEF TrackCrash
    <1>5. greeting' \in [Greeting -> GreetingState] /\ \A g \in Greeting : greeting'[g].pc # "create"
        <2>1. AnyTracker \in Tracker
            BY TrackingAssumption DEF TrackingAssumption, AnyTracker
        <2> SUFFICES ASSUME NEW g \in Greeting PROVE greeting'[g] \in GreetingState /\ greeting'[g].pc # "create"
            BY DEF TrackCrash
        <2>2. greeting[g] \in GreetingState
            BY <1>0
        <2>3. greeting'[g] = IF StillLooking(g) THEN Abandoned(greeting[g]) ELSE greeting[g]
            BY DEF TrackCrash
        <2>4. Abandoned(greeting[g]) \in GreetingState /\ Abandoned(greeting[g]).pc = "find"
            BY <2>1, <2>2 DEF Abandoned, GreetingState
        <2> QED
            BY <2>2, <2>3, <2>4 DEF StillLooking
    <1>6. TrackingTypeOK'
        <2>1. unannounced' \subseteq Tracker \X Link
            BY <1>0, <1>1 DEF TrackingTypeOK
        <2>2. redelivered' \subseteq Batch
            BY <1>0, <1>1 DEF TrackingTypeOK
        <2> QED
            BY <1>0, <1>1, <1>4, <1>5, <2>1, <2>2 DEF TrackingTypeOK
    <1>7. ASSUME NEW p \in Batch PROVE PostInOrder(p)'
        <2>1. PostInOrder(p) /\ posted[p] \in PostState
            BY <1>0
        <2>2. /\ notice'[p].pc # "none" <=> notice[p].pc # "none"
              /\ notice'[p].pc # "telling" /\ notice'[p].left = NothingLeft
            BY <1>3, <2>1 DEF PostInOrder
        <2>3. p \in redelivered' => notice[p].pc # "none"
            BY <1>1, <2>1 DEF PostInOrder
        <2>4. posted'[p].pc \in {"idle", "read"} => posted'[p].new = {}
            BY <1>2, <2>1 DEF PostInOrder
        <2>5. notice'[p].pc # "none" => posted'[p].pc = "done"
            BY <1>2, <2>1, <2>2 DEF PostInOrder
        <2> QED
            BY <2>2, <2>3, <2>4, <2>5 DEF PostInOrder, NothingLeft
    <1>8. ASSUME NEW p \in Batch, NEW w \in Tracker, NEW l \in Link
          PROVE  /\ Carries(p, w, l)' => Carries(p, w, l)
                 /\ Carries(p, w, l) /\ posted[p].pc # "publish" => Carries(p, w, l)'
        <2>1. posted'[p].new = posted[p].new /\ posted'[p].tracker = posted[p].tracker /\ posted'[p].pc # "publish"
            BY <1>2
        <2>2. notice'[p].pc # "none" <=> notice[p].pc # "none"
            BY <1>3
        <2> QED
            BY <2>1, <2>2 DEF Carries
    <1>9. ASSUME NEW w \in Tracker, NEW l \in Link PROVE OneCarries(w, l)'
        <2>1. OneCarries(w, l)
            BY <1>0
        <2>2. \A p \in Batch : Carries(p, w, l)' => Carries(p, w, l)
            BY <1>8
        <2> QED
            BY <1>1, <2>1, <2>2 DEF OneCarries
    <1>10. ASSUME NEW w \in Tracker, Unmistaken(w)' PROVE Single(w)' /\ \A l \in Link : ToldBy(w, l)'
        <2>1. Single(w) /\ \A l \in Link : ToldBy(w, l)
            BY <1>0, <1>1, <1>10 DEF Unmistaken, Alike
        <2>2. Single(w)'
            BY <1>1, <1>5, <2>1 DEF Single, RunsOf, Creating
        <2>3. ASSUME NEW l \in Link PROVE ToldBy(w, l)'
            <3>1. ToldBy(w, l) /\ told'[<<w, l>>] = told[<<w, l>>] /\ told[<<w, l>>] \in Nat
                BY <1>0, <1>1, <2>1 DEF TrackingTypeOK
            <3>2. ASSUME NEW p \in Batch, Carries(p, w, l), posted[p].pc = "publish"
                  PROVE  told[<<w, l>>] = 0
                BY <1>0, <3>1, <3>2 DEF ToldBy, PostInOrder
            <3>3. told[<<w, l>>] > 0 => \E p \in Batch : Carries(p, w, l)'
                <4> SUFFICES ASSUME told[<<w, l>>] > 0 PROVE \E p \in Batch : Carries(p, w, l)'
                    OBVIOUS
                <4>1. PICK p \in Batch : Carries(p, w, l)
                    BY <3>1 DEF ToldBy
                <4> QED
                    BY <1>8, <3>1, <3>2, <4>1
            <3>4. ASSUME NEW p \in Batch, Carries(p, w, l)', p \notin redelivered'
                  PROVE  /\ Carries(p, w, l) /\ p \notin redelivered
                         /\ posted'[p].pc # "publish" /\ notice'[p] = notice[p]
                BY <1>1, <1>2, <1>3, <1>8, <3>4
            <3> QED
                BY <3>1, <3>3, <3>4 DEF ToldBy
        <2> QED
            BY <2>2, <2>3
    <1>11. StoredIsTold'
        <2> SUFFICES ASSUME NEW w \in Tracker, NEW l \in known[w], OnItsWay(w, l), <<w, l>> \notin unannounced'
                     PROVE  OnItsWay(w, l)'
            BY <1>0, <1>1 DEF StoredIsTold
        <2>1. PICK p \in Batch :
                /\ <<w, l>> \in NewOf(p)
                /\ posted[p].pc = "publish" \/ notice[p].pc = "queued" \/ \E r \in TrackRun : l \in notice[p].left[r]
            BY DEF OnItsWay
        <2>2. posted[p].pc # "publish"
            BY <1>1, <2>1
        <2>3. notice'[p].pc = "queued"
            BY <1>0, <1>3, <2>1, <2>2 DEF PostInOrder, NothingLeft
        <2>4. <<w, l>> \in NewOf(p)'
            BY <1>2, <2>1 DEF NewOf
        <2> QED
            BY <2>3, <2>4 DEF OnItsWay
    <1> QED
        BY <1>6, <1>7, <1>9, <1>10, <1>11 DEF TrackingInv

LEMMA TrackingInductive == TrackingSpec => []TrackingInv
    <1>1. TrackingInit => TrackingInv
        <2> SUFFICES ASSUME TrackingInit PROVE TrackingInv
            OBVIOUS
        <2>1. AnyTracker \in Tracker
            BY TrackingAssumption DEF TrackingAssumption, AnyTracker
        <2>2. NothingLeft \in [TrackRun -> SUBSET Link]
            BY DEF NothingLeft
        <2>3. \A p \in Batch : /\ posted[p].pc = "idle" /\ posted[p].new = {}
                               /\ notice[p].pc = "none" /\ notice[p].left = NothingLeft
            BY DEF TrackingInit
        <2>4. TrackingTypeOK
            <3>1. posted \in [Batch -> PostState] /\ greeting \in [Greeting -> GreetingState]
                BY <2>1 DEF TrackingInit, PostState, GreetingState
            <3>2. notice \in [Batch -> NoticeState]
                BY <2>2 DEF TrackingInit, NoticeState
            <3>3. /\ known \in [Tracker -> SUBSET Link] /\ runOf \in [TrackRun -> Tracker \cup {Nobody}]
                  /\ told \in [Tracker \X Link -> Nat]
                BY DEF TrackingInit
            <3>4. /\ unannounced = {} /\ unheard = {} /\ unsent = {} /\ redelivered = {} /\ raced = {}
                  /\ trackCrashes \in 0..MaxTrackCrashes
                BY TrackingAssumption DEF TrackingInit, TrackingAssumption
            <3> QED
                BY <3>1, <3>2, <3>3, <3>4 DEF TrackingTypeOK
        <2>5. \A p \in Batch : PostInOrder(p)
            BY <2>3 DEF TrackingInit, PostInOrder, NothingLeft
        <2>6. \A p \in Batch, w \in Tracker, l \in Link : ~ Carries(p, w, l)
            BY <2>3 DEF Carries
        <2>7. \A w \in Tracker : RunsOf(w) = {} \/ w = Nobody
            BY DEF TrackingInit, RunsOf
        <2>8. \A w \in Tracker : Single(w)
            BY <2>7, TrackingAssumption DEF TrackingInit, Single, Creating, TrackingAssumption, Nobody
        <2>9. \A w \in Tracker, l \in Link : ToldBy(w, l)
            BY <2>6 DEF ToldBy, TrackingInit
        <2>10. StoredIsTold
            BY DEF TrackingInit, StoredIsTold
        <2> QED
            BY <2>4, <2>5, <2>6, <2>8, <2>9, <2>10 DEF TrackingInv, OneCarries
    <1>2. TrackingInv /\ [TrackingNext]_trackingVars => TrackingInv'
        <2> SUFFICES ASSUME TrackingInv, [TrackingNext]_trackingVars PROVE TrackingInv'
            OBVIOUS
        <2>1. CASE UNCHANGED trackingVars
            <3>1. /\ UNCHANGED <<known, posted, notice, told, unannounced, unheard, unsent, redelivered>>
                  /\ UNCHANGED <<trackCrashes, runOf, greeting, raced>>
                BY <2>1 DEF trackingVars
            <3>2. TrackingTypeOK' /\ \A p \in Batch : PostInOrder(p)'
                BY <3>1 DEF TrackingInv, TrackingTypeOK, PostInOrder
            <3>3. ASSUME NEW w \in Tracker, NEW l \in Link
                  PROVE  OneCarries(w, l)' /\ (ToldBy(w, l) => ToldBy(w, l)')
                <4>1. \A q \in Batch : Carries(q, w, l)' = Carries(q, w, l)
                    BY <3>1 DEF Carries
                <4> QED
                    BY <3>1, <4>1, ToldByKept DEF TrackingInv, OneCarries
            <3>4. StoredIsTold'
                BY <3>1 DEF TrackingInv, StoredIsTold, OnItsWay, NewOf
            <3>5. \A w \in Tracker : Unmistaken(w)' = Unmistaken(w) /\ (Unmistaken(w) => Single(w)')
                BY <3>1, SingleKept DEF greetVars
            <3> QED
                BY <3>2, <3>3, <3>4, <3>5 DEF TrackingInv
        <2>2. CASE TrackingNext
            BY <2>2, PostSteps, PublishStep, NoticeSteps, GreetSteps, TrackCrashStep DEF TrackingNext, Posting, Greeted
        <2> QED
            BY <2>1, <2>2
    <1>3. TrackingSpec => TrackingInit /\ [][TrackingNext]_trackingVars
        BY DEF TrackingSpec
    <1> QED
        BY <1>1, <1>2, <1>3, PTL

\* For any trackers, links, posts and messages: the chat is told of a link once,
\* a link that is known is told, on its way or among the named losses, and a
\* user has one run, outside of the named races and likenesses.
THEOREM NoticesAreTold == TrackingSpec => []NoticesAreSound
    <1>1. TrackingInv => NoticesAreSound
        <2> SUFFICES ASSUME TrackingInv PROVE NoticesAreSound
            OBVIOUS
        <2>1. OneTrackRun
            BY AtMostOne DEF TrackingInv, Unmistaken, Single, OneTrackRun
        <2>2. ToldOnce
            <3> SUFFICES ASSUME NEW w \in Tracker, NEW l \in Link, Unmistaken(w), ~ (told[<<w, l>>] <= 1)
                         PROVE  \E p \in redelivered : posted[p].tracker = w /\ l \in posted[p].new
                BY DEF ToldOnce, Unmistaken
            <3>1. ToldBy(w, l) /\ told[<<w, l>>] \in Nat
                BY DEF TrackingInv, TrackingTypeOK
            <3>2. PICK p \in Batch : Carries(p, w, l)
                BY <3>1 DEF ToldBy
            <3> QED
                BY <3>1, <3>2 DEF ToldBy, Carries
        <2> QED
            BY <2>1, <2>2 DEF TrackingInv, NoticesAreSound
    <1> QED
        BY <1>1, TrackingInductive, PTL

-----------------------------------------------------------------------------
(* UserAccounts *)

\* A demand between the verification of its code and the removal of it.
Uses(d, c) == HasCode(d) /\ demand[d].code.value = c

\* The code a demand has verified was good, and is the row's for as long as the
\* row has that value; once the password is set, the demand is among its users.
CodeInHand(d) ==
    /\ HasCode(d) =>
         /\ demand[d].code.value \in Demand /\ ~ demand[d].code.expired
         /\ code.value = demand[d].code.value => code.row = demand[d].code.row
    /\ demand[d].pc \in {"update", "remove", "refresh"} => HasCode(d)
    /\ demand[d].pc = "remove" => d \in users[demand[d].code.value]

\* The demand has issued its code, or never will.
HasIssued(c) == demand[c].pc \in {"update", "remove", "done"}

\* A code comes into the world when the demand that issues it has saved it.
CodeIsIssued(c) ==
    \/ code.value = c \/ mailed = c \/ users[c] # {} \/ \E d \in Demand : Uses(d, c)
    => HasIssued(c)

\* Outside of a reuse one demand has a code in hand, no password has been set
\* with it before that demand sets one, and it is about to be removed after.
OneUse(c) ==
    /\ \A d, e \in Demand : Uses(d, c) /\ Uses(e, c) => d = e
    /\ \A d, e \in users[c] : d = e
    /\ \A d \in Demand : Uses(d, c) /\ demand[d].pc # "remove" => users[c] = {}
    /\ users[c] # {} /\ code.value = c => \E d \in Demand : Uses(d, c)

\* Outside of the named races one account is live, and who is about to insert
\* one has found none.
OneLive ==
    /\ \A i, j \in LiveAccounts : i = j
    /\ \A d, e \in Demand : demand[d].pc = "insert" /\ demand[e].pc = "insert" => d = e
    /\ \A d \in Demand : demand[d].pc = "insert" => demand[d].kind = "create" /\ LiveAccounts = {}

CodesInv ==
    /\ \A d \in Demand : CodeInHand(d)
    /\ \A c \in Demand : CodeIsIssued(c)
    /\ \A c \in Demand : c \notin reused => OneUse(c)
    /\ MailedCodeStands

RowsInv ==
    /\ AccountAsMeant
    /\ ~twins /\ ~seized /\ muddled = {} => OneLive

AccountsInv == AccountsTypeOK /\ CodesInv /\ RowsInv

\* A demand that goes on with what it has read is a demand.
LEMMA HoldsType ==
    ASSUME AccountsTypeOK, NEW d \in Demand, NEW kind \in DemandKind, NEW i \in AccountId,
           NEW pc \in {"write", "move"}, Hold(d, kind, i, pc)
    PROVE  /\ demand' \in [Demand -> DemandState]
           /\ demand'[d].pc = pc /\ demand'[d].kind = kind /\ demand'[d].code = demand[d].code
           /\ demand'[d].held = account[i] /\ demand'[d].of = i
           /\ \A e \in Demand : e # d => demand'[e] = demand[e]
    <1>1. demand \in [Demand -> DemandState] /\ demand[d] \in DemandState /\ account[i] \in Account
        BY DEF AccountsTypeOK
    <1> DEFINE next == [demand[d] EXCEPT !.kind = kind, !.pc = pc, !.of = i, !.held = account[i]]
    <1>2. demand' = [demand EXCEPT ![d] = next]
        BY DEF Hold
    <1>3. next \in DemandState /\ next.pc = pc /\ next.kind = kind /\ next.code = demand[d].code
          /\ next.held = account[i] /\ next.of = i
        BY <1>1 DEF DemandState
    <1> HIDE DEF next
    <1> QED
        BY <1>1, <1>2, <1>3

\* A demand that reads the row of otp is a demand.
LEMMA ReadsType ==
    ASSUME AccountsTypeOK, NEW d \in Demand, IssueCode(d) \/ IssueMoved(d)
    PROVE  /\ demand' \in [Demand -> DemandState]
           /\ demand'[d].pc = "save" /\ demand'[d].code = demand[d].code
           /\ IssueCode(d) => demand'[d].kind = "issue"
           /\ IssueMoved(d) => demand'[d].kind = demand[d].kind
           /\ \A e \in Demand : e # d => demand'[e] = demand[e]
    <1>1. demand \in [Demand -> DemandState] /\ demand[d] \in DemandState /\ code \in Code
        BY DEF AccountsTypeOK
    <1>2. CASE IssueCode(d)
        <2> DEFINE next == [demand[d] EXCEPT !.kind = "issue", !.pc = "save", !.otp = code]
        <2>1. demand' = [demand EXCEPT ![d] = next]
            BY <1>2 DEF IssueCode
        <2>2. next \in DemandState /\ next.pc = "save" /\ next.kind = "issue" /\ next.code = demand[d].code
            BY <1>1 DEF DemandState, DemandKind
        <2>3. ~ IssueMoved(d)
            BY <1>2 DEF IssueCode, IssueMoved, Unmade, DemandAt
        <2> HIDE DEF next
        <2> QED
            BY <1>1, <2>1, <2>2, <2>3
    <1>3. CASE IssueMoved(d)
        <2> DEFINE next == [demand[d] EXCEPT !.pc = "save", !.otp = code]
        <2>1. demand' = [demand EXCEPT ![d] = next]
            BY <1>3 DEF IssueMoved
        <2>2. next \in DemandState /\ next.pc = "save" /\ next.kind = demand[d].kind /\ next.code = demand[d].code
            BY <1>1 DEF DemandState
        <2>3. ~ IssueCode(d)
            BY <1>3 DEF IssueCode, IssueMoved, Unmade, DemandAt
        <2> HIDE DEF next
        <2> QED
            BY <1>1, <2>1, <2>2, <2>3
    <1> QED
        BY <1>2, <1>3

\* A demand that has verified a code has it in hand.
LEMMA VerifiesType ==
    ASSUME AccountsTypeOK, NEW d \in Demand, VerifyCode(d)
    PROVE  /\ demand' \in [Demand -> DemandState]
           /\ demand'[d].pc \in {"refresh", "update"} /\ demand'[d].code = code /\ demand'[d].kind = "reset"
           /\ \A e \in Demand : e # d => demand'[e] = demand[e]
    <1>1. demand \in [Demand -> DemandState] /\ demand[d] \in DemandState /\ code \in Code
          /\ \A i \in AccountId : account[i] \in Account
        BY DEF AccountsTypeOK
    <1>2. PICK i, pc : /\ i \in AccountId /\ pc \in {"refresh", "update"}
                       /\ demand' = [demand EXCEPT ![d] = [@ EXCEPT !.kind = "reset", !.pc = pc,
                                                                    !.of = i, !.code = code]]
        BY DEF VerifyCode, LiveAccounts
    <1> DEFINE next == [demand[d] EXCEPT !.kind = "reset", !.pc = pc, !.of = i, !.code = code]
    <1>3. demand' = [demand EXCEPT ![d] = next]
        BY <1>2
    <1>4. next \in DemandState /\ next.pc = pc /\ next.kind = "reset" /\ next.code = code
        BY <1>1, <1>2 DEF DemandState, DemandKind
    <1> HIDE DEF next
    <1>5. demand' \in [Demand -> DemandState] /\ demand'[d] = next
          /\ \A e \in Demand : e # d => demand'[e] = demand[e]
        BY <1>1, <1>3, <1>4
    <1> QED
        BY <1>2, <1>4, <1>5

\* A demand that has found the address free is about to insert.
LEMMA ChecksType ==
    ASSUME AccountsTypeOK, NEW d \in Demand, CheckAddress(d)
    PROVE  /\ demand' \in [Demand -> DemandState]
           /\ demand'[d].pc = "insert" /\ demand'[d].kind = "create"
           /\ \A e \in Demand : e # d => demand'[e] = demand[e]
    <1>1. demand \in [Demand -> DemandState] /\ demand[d] \in DemandState /\ code \in Code
          /\ \A i \in AccountId : account[i] \in Account
        BY DEF AccountsTypeOK
    <1> DEFINE next == [demand[d] EXCEPT !.kind = "create", !.pc = "insert"]
    <1>3. demand' = [demand EXCEPT ![d] = next]
        BY DEF CheckAddress
    <1>4. next \in DemandState /\ next.pc = "insert" /\ next.kind = "create"
        BY <1>1 DEF DemandState, DemandKind
    <1> HIDE DEF next
    <1>5. demand' \in [Demand -> DemandState] /\ demand'[d] = next
          /\ \A e \in Demand : e # d => demand'[e] = demand[e]
        BY <1>1, <1>3, <1>4
    <1> QED
        BY <1>4, <1>5

\* A demand that has found the account is about to compare.
LEMMA FindsType ==
    ASSUME AccountsTypeOK, NEW d \in Demand, FindAccount(d)
    PROVE  /\ demand' \in [Demand -> DemandState]
           /\ demand'[d].pc = "compare" /\ demand'[d].kind = "login"
           /\ \A e \in Demand : e # d => demand'[e] = demand[e]
    <1>1. demand \in [Demand -> DemandState] /\ demand[d] \in DemandState /\ code \in Code
          /\ \A i \in AccountId : account[i] \in Account
        BY DEF AccountsTypeOK
    <1>2. PICK i, right : /\ i \in AccountId /\ right \in BOOLEAN
                          /\ demand' = [demand EXCEPT ![d] = [@ EXCEPT !.kind = "login", !.pc = "compare",
                                            !.of = i, !.held = account[i], !.right = right]]
        BY DEF FindAccount, Accounts
    <1> DEFINE next == [demand[d] EXCEPT !.kind = "login", !.pc = "compare", !.of = i,
                                         !.held = account[i], !.right = right]
    <1>3. demand' = [demand EXCEPT ![d] = next]
        BY <1>2
    <1>4. next \in DemandState /\ next.pc = "compare" /\ next.kind = "login"
        BY <1>1, <1>2 DEF DemandState, DemandKind
    <1> HIDE DEF next
    <1>5. demand' \in [Demand -> DemandState] /\ demand'[d] = next
          /\ \A e \in Demand : e # d => demand'[e] = demand[e]
        BY <1>1, <1>3, <1>4
    <1> QED
        BY <1>4, <1>5

\* What a request about an account reads, it reads of one that is there.
LEMMA ReadsAccount ==
    ASSUME NEW d \in Demand, ReadAccount(d)
    PROVE  /\ \E i \in AccountId, kind \in {"unlock", "switch", "delete", "update"}, pc \in {"write", "move"} :
                Hold(d, kind, i, pc)
           /\ UNCHANGED <<account, meant, muddled, restVars>>
    BY DEF ReadAccount, Accounts

\* The types, whatever a demand does.
LEMMA AccountTypes ==
    ASSUME AccountsTypeOK, CodesInv, [AccountsNext]_accountVars
    PROVE  AccountsTypeOK'
    <1>0. /\ account \in [AccountId -> Account] /\ code \in Code /\ demand \in [Demand -> DemandState]
          /\ mailed \in Demand \cup {Nothing} /\ users \in [Demand -> SUBSET Demand]
          /\ meant \in [AccountId -> [active : BOOLEAN, password : Password, failed : Nat]]
          /\ muddled \subseteq AccountId /\ reused \subseteq Demand /\ mixed \in BOOLEAN /\ twins \in BOOLEAN
          /\ seized \in BOOLEAN
        BY DEF AccountsTypeOK
    <1>1. NoCode \in Code /\ Nothing \in Password /\ 0 \in 0..MaxFailed
          /\ \A d \in Demand, key \in Demand : NewCode(d, key) \in Code
        BY AccountsAssumption DEF NoCode, Code, Password, NewCode, AccountsAssumption
    <1> DEFINE Moved(d, pc) == demand' = [demand EXCEPT ![d].pc = pc]
    <1>2. ASSUME NEW d \in Demand,
                 \E pc \in {"done", "remove", "otp", "update", "issue"} : Moved(d, pc)
          PROVE  demand' \in [Demand -> DemandState]
        BY <1>0, <1>2 DEF DemandState
    <1>3. ASSUME NEW d \in Demand PROVE demand[d] \in DemandState
        BY <1>0
    <1>4. ASSUME NEW d \in Demand,
                 \/ IssueCode(d) \/ IssueMoved(d) \/ VerifyCode(d) \/ CheckAddress(d) \/ FindAccount(d)
                 \/ ReadAccount(d)
          PROVE  demand' \in [Demand -> DemandState]
        <2>1. CASE IssueCode(d) \/ IssueMoved(d)
            BY <2>1, ReadsType
        <2>2. CASE VerifyCode(d) \/ CheckAddress(d) \/ FindAccount(d)
            BY <2>2, VerifiesType, ChecksType, FindsType
        <2>3. CASE ReadAccount(d)
            <3>1. PICK i, kind, pc : /\ i \in AccountId /\ kind \in {"unlock", "switch", "delete", "update"}
                                     /\ pc \in {"write", "move"} /\ Hold(d, kind, i, pc)
                BY <2>3, ReadsAccount
            <3>2. kind \in DemandKind
                BY <3>1 DEF DemandKind
            <3> QED
                BY <3>1, <3>2, HoldsType
        <2> QED
            BY <1>4, <2>1, <2>2, <2>3
    <1>5. ASSUME NEW d \in Demand, NEW a \in Account, WriteBack(d, a)
          PROVE  account' \in [AccountId -> Account] /\ muddled' \subseteq AccountId
                 /\ Moved(d, "done") /\ UNCHANGED <<twins, seized, codeVars>>
        BY <1>0, <1>3, <1>5 DEF WriteBack, Move, DemandState, restVars
    <1>6. ASSUME NEW d \in Demand,
                 \/ IssueCode(d) \/ IssueMoved(d) \/ VerifyCode(d) \/ CheckAddress(d) \/ FindAccount(d)
                 \/ ReadAccount(d)
          PROVE  AccountsTypeOK'
        <2>1. UNCHANGED <<account, code, mailed, users, meant, muddled, seized>>
            BY <1>6 DEF IssueCode, IssueMoved, VerifyCode, CheckAddress, FindAccount, ReadAccount, accountHistory,
                        codeVars, restVars
        <2>2. mixed' \in BOOLEAN /\ twins' \in BOOLEAN
            BY <1>0, <1>6
               DEF IssueCode, IssueMoved, VerifyCode, CheckAddress, FindAccount, ReadAccount, accountHistory,
                   codeVars, restVars
        <2>3. reused' \subseteq Demand
            <3>1. VerifyCode(d) => code.value \in Demand
                BY <1>0 DEF VerifyCode, Code
            <3> QED
                BY <1>0, <1>6, <3>1
                   DEF IssueCode, IssueMoved, VerifyCode, CheckAddress, FindAccount, ReadAccount, accountHistory,
                       codeVars, restVars
        <2> QED
            BY <1>0, <1>4, <1>6, <2>1, <2>2, <2>3 DEF AccountsTypeOK
    <1>7. ASSUME NEW d \in Demand, SaveCode(d) \/ RemoveCode(d) \/ InsertCode(d) PROVE AccountsTypeOK'
        <2>1. code' \in Code /\ mailed' \in Demand \cup {Nothing}
            <3>1. code.row \in Demand \cup {Nothing} /\ demand[d].otp.row \in Demand \cup {Nothing}
                BY <1>0, <1>3 DEF Code, DemandState
            <3> QED
                BY <1>0, <1>1, <1>7, <3>1 DEF SaveCode, RemoveCode, InsertCode
        <2>2. Moved(d, "done") \/ Moved(d, "update")
            BY <1>7 DEF SaveCode, RemoveCode, InsertCode, Move
        <2>3. UNCHANGED <<account, users, meant, muddled, reused, mixed, twins, seized>>
            BY <1>7 DEF SaveCode, RemoveCode, InsertCode, accountHistory
        <2> QED
            BY <1>0, <1>2, <2>1, <2>2, <2>3 DEF AccountsTypeOK
    <1>8. ASSUME ExpireCode PROVE AccountsTypeOK'
        BY <1>0, <1>8 DEF ExpireCode, AccountsTypeOK, Code, accountHistory
    <1>9. ASSUME NEW d \in Demand, SetPassword(d) PROVE AccountsTypeOK'
        <2>1. PICK i \in AccountId : i = demand[d].of
            BY <1>3 DEF DemandState
        <2>2. account' \in [AccountId -> Account]
            BY <1>0, <1>9, <2>1, SMTT(20) DEF SetPassword, Account, Password
        <2>3. meant' \in [AccountId -> [active : BOOLEAN, password : Password, failed : Nat]]
            BY <1>0, <1>9, <2>1 DEF SetPassword, Password
        <2>4. Moved(d, "remove") /\ users' \in [Demand -> SUBSET Demand]
              /\ UNCHANGED <<code, mailed, muddled, reused, mixed, twins, seized>>
            BY <1>0, <1>9 DEF SetPassword, Move
        <2> QED
            BY <1>0, <1>2, <2>2, <2>3, <2>4 DEF AccountsTypeOK
    <1>10. ASSUME NEW d \in Demand, InsertAccount(d) PROVE AccountsTypeOK'
        <2>1. account' \in [AccountId -> Account]
            BY <1>0, <1>10 DEF InsertAccount, Account
        <2>2. Moved(d, "otp") /\ UNCHANGED <<meant, muddled, twins, seized, code, mailed, users, reused, mixed>>
            BY <1>10 DEF InsertAccount, Move, codeVars, restVars
        <2> QED
            BY <1>0, <1>2, <2>1, <2>2 DEF AccountsTypeOK
    <1>11. ASSUME NEW d \in Demand, RefusePassword(d) PROVE AccountsTypeOK'
        <2>1. PICK i \in AccountId : i = demand[d].of
            BY <1>3 DEF DemandState
        <2>2. account' \in [AccountId -> Account]
            <3>1. account' = [account EXCEPT ![i].failed = @ + 1] /\ account[i].failed < MaxFailed
                BY <1>11, <2>1 DEF RefusePassword
            <3>2. account[i] \in Account /\ account[i].failed + 1 \in 0..MaxFailed
                BY <1>0, <3>1, AccountsAssumption DEF Account, AccountsAssumption
            <3>3. [account[i] EXCEPT !.failed = @ + 1] \in Account
                BY <3>2 DEF Account
            <3> QED
                BY <1>0, <3>1, <3>3
        <2>3. meant' \in [AccountId -> [active : BOOLEAN, password : Password, failed : Nat]]
            BY <1>0, <1>11, <2>1, SMTT(20) DEF RefusePassword
        <2>4. Moved(d, "done") /\ UNCHANGED <<muddled, twins, seized, code, mailed, users, reused, mixed>>
            BY <1>11 DEF RefusePassword, Move, codeVars, restVars
        <2> QED
            BY <1>0, <1>2, <2>2, <2>3, <2>4 DEF AccountsTypeOK
    <1>12. ASSUME NEW d \in Demand, AcceptPassword(d) \/ Unlock(d) \/ Switch(d) PROVE AccountsTypeOK'
        <2>1. PICK i \in AccountId : i = demand[d].of
            BY <1>3 DEF DemandState
        <2>2. \A on \in BOOLEAN : [demand[d].held EXCEPT !.failed = 0] \in Account
                                  /\ [demand[d].held EXCEPT !.active = on] \in Account
            BY <1>1, <1>3 DEF DemandState, Account
        <2>3. \E a \in Account : WriteBack(d, a)
            BY <1>12, <2>2 DEF AcceptPassword, Unlock, Switch
        <2>4. /\ account' \in [AccountId -> Account] /\ muddled' \subseteq AccountId
              /\ Moved(d, "done") /\ UNCHANGED <<twins, seized, code, mailed, users, reused, mixed>>
            BY <1>5, <2>3 DEF codeVars, restVars
        <2>5. meant' \in [AccountId -> [active : BOOLEAN, password : Password, failed : Nat]]
            <3>1. \/ meant' = [meant EXCEPT ![i].failed = 0]
                  \/ \E on \in BOOLEAN : meant' = [meant EXCEPT ![i].active = on]
                BY <1>12, <2>1 DEF AcceptPassword, Unlock, Switch
            <3>2. CASE meant' = [meant EXCEPT ![i].failed = 0]
                BY <1>0, <3>2
            <3>3. ASSUME NEW on \in BOOLEAN, meant' = [meant EXCEPT ![i].active = on]
                  PROVE  meant' \in [AccountId -> [active : BOOLEAN, password : Password, failed : Nat]]
                BY <1>0, <3>3
            <3> QED
                BY <3>1, <3>2, <3>3
        <2> QED
            BY <1>0, <1>2, <2>4, <2>5 DEF AccountsTypeOK
    <1>13. ASSUME NEW d \in Demand, DeleteAccount(d) \/ UpdateAccount(d) PROVE AccountsTypeOK'
        <2>1. PICK i \in AccountId, on \in BOOLEAN :
                /\ \/ account' = [account EXCEPT ![i].state = "deleted", ![i].active = FALSE]
                   \/ account' = [account EXCEPT ![i].active = on]
                /\ meant' = [meant EXCEPT ![i].active = FALSE] \/ meant' = [meant EXCEPT ![i].active = on]
            <3>1. demand[d].of \in AccountId
                BY <1>3 DEF DemandState
            <3> QED
                BY <1>3, <1>13, <3>1 DEF DeleteAccount, UpdateAccount, DemandState, Account
        <2>2. account' \in [AccountId -> Account]
            <3>1. account[i] \in Account
                BY <1>0
            <3>2. /\ [account[i] EXCEPT !.state = "deleted", !.active = FALSE] \in Account
                  /\ [account[i] EXCEPT !.active = on] \in Account
                BY <3>1 DEF Account
            <3>3. account' = [account EXCEPT ![i] = [account[i] EXCEPT !.state = "deleted", !.active = FALSE]]
                  \/ account' = [account EXCEPT ![i] = [account[i] EXCEPT !.active = on]]
                BY <2>1
            <3> QED
                BY <1>0, <3>2, <3>3
        <2>3. meant' \in [AccountId -> [active : BOOLEAN, password : Password, failed : Nat]]
            <3>1. /\ [meant[i] EXCEPT !.active = FALSE] \in [active : BOOLEAN, password : Password, failed : Nat]
                  /\ [meant[i] EXCEPT !.active = on] \in [active : BOOLEAN, password : Password, failed : Nat]
                BY <1>0
            <3>2. meant' = [meant EXCEPT ![i] = [meant[i] EXCEPT !.active = FALSE]]
                  \/ meant' = [meant EXCEPT ![i] = [meant[i] EXCEPT !.active = on]]
                BY <2>1
            <3> QED
                BY <1>0, <3>1, <3>2
        <2>4. Moved(d, "done") /\ UNCHANGED <<muddled, twins, seized, code, mailed, users, reused, mixed>>
            BY <1>13 DEF DeleteAccount, UpdateAccount, Move, codeVars, restVars
        <2> QED
            BY <1>0, <1>2, <2>2, <2>3, <2>4 DEF AccountsTypeOK
    <1>14. ASSUME NEW d \in Demand, FailDemand(d) PROVE AccountsTypeOK'
        <2>1. demand[d].pc = "remove" => demand[d].code.value \in Demand
            BY DEF CodesInv, CodeInHand
        <2>2. Moved(d, "done") /\ UNCHANGED <<account, code, mailed, users, meant, muddled, mixed, twins, seized>>
              /\ reused' \subseteq Demand
            BY <1>0, <1>14, <2>1 DEF FailDemand, Move, DemandAt
        <2> QED
            BY <1>0, <1>2, <2>2 DEF AccountsTypeOK
    <1>15. ASSUME NEW d \in Demand, MoveAccount(d) PROVE AccountsTypeOK'
        <2>1. PICK i \in AccountId : i = demand[d].of
            BY <1>3 DEF DemandState
        <2>2. account' \in [AccountId -> Account]
            <3>1. PICK s \in {"live", "elsewhere", "deleted"} : account' = [account EXCEPT ![i].state = s]
                BY <1>15, <2>1 DEF MoveAccount
            <3>2. [account[i] EXCEPT !.state = s] \in Account
                BY <1>0, <3>1 DEF Account
            <3>3. account' = [account EXCEPT ![i] = [account[i] EXCEPT !.state = s]]
                BY <3>1
            <3> QED
                BY <1>0, <3>2, <3>3
        <2>3. Moved(d, "done") \/ Moved(d, "issue")
            BY <1>15 DEF MoveAccount, Move
        <2>4. seized' \in BOOLEAN /\ UNCHANGED <<meant, muddled, twins, code, mailed, users, reused, mixed>>
            BY <1>0, <1>15 DEF MoveAccount, codeVars
        <2> QED
            BY <1>0, <1>2, <2>2, <2>3, <2>4 DEF AccountsTypeOK
    <1>16. ASSUME NEW d \in Demand, Refresh(d) PROVE AccountsTypeOK'
        <2>1. PICK i \in AccountId : i = demand[d].of
            BY <1>3 DEF DemandState
        <2>2. demand' \in [Demand -> DemandState]
            <3>1. Moved(d, "update") \/ Hold(d, "reset", i, "move")
                BY <1>16, <2>1 DEF Refresh, Move
            <3>2. "reset" \in DemandKind
                BY DEF DemandKind
            <3> QED
                BY <1>2, <3>1, <3>2, HoldsType
        <2>3. UNCHANGED <<account, code, mailed, users, meant, muddled, reused, mixed, twins, seized>>
            BY <1>16 DEF Refresh, accountHistory
        <2> QED
            BY <1>0, <2>2, <2>3 DEF AccountsTypeOK
    <1>17. CASE UNCHANGED accountVars
        BY <1>0, <1>17 DEF AccountsTypeOK, accountVars
    <1> QED
        BY <1>6, <1>7, <1>8, <1>9, <1>10, <1>11, <1>12, <1>13, <1>14, <1>15, <1>16, <1>17 DEF AccountsNext

\* Only demand d moves, from one step to another.
\* Only demand d moves, from one step to another.
DemandMoves(d, from, to) ==
    /\ demand' \in [Demand -> DemandState]
    /\ demand[d].pc \in from /\ demand'[d].pc = to
    /\ \A e \in Demand : e # d => demand'[e] = demand[e]

LEMMA MovesDemand ==
    ASSUME AccountsTypeOK, NEW d \in Demand, NEW from, demand[d].pc \in from,
           NEW to \in {"otp", "issue", "update", "remove", "done"},
           Move(d, to)
    PROVE  /\ DemandMoves(d, from, to)
           /\ demand'[d].code = demand[d].code /\ demand'[d].kind = demand[d].kind
           /\ demand'[d].held = demand[d].held
    <1>1. demand \in [Demand -> DemandState] /\ demand[d] \in DemandState
        BY DEF AccountsTypeOK
    <1> DEFINE next == [demand[d] EXCEPT !.pc = to]
    <1>2. demand' = [demand EXCEPT ![d] = next]
        BY DEF Move
    <1>3. next \in DemandState /\ next.pc = to /\ next.code = demand[d].code /\ next.kind = demand[d].kind
          /\ next.held = demand[d].held
        BY <1>1 DEF DemandState
    <1> HIDE DEF next
    <1> QED
        BY <1>1, <1>2, <1>3 DEF DemandMoves

\* Who has set no password yet does not disturb those who have a code in hand.
LEMMA CodesKept ==
    ASSUME CodesInv, NEW d \in Demand, UNCHANGED <<code, mailed, users, reused>>, mixed => mixed',
           \A e \in Demand : e # d => demand'[e] = demand[e],
           demand[d].pc \notin {"update", "remove", "done"}, demand'[d].pc # "remove",
           demand'[d].pc \in {"update", "refresh"} => HasCode(d)',
           HasCode(d)' => HasCode(d) /\ demand'[d].code = demand[d].code
    PROVE  CodesInv'
    <1>1. \A e, c \in Demand : /\ Uses(e, c)' => Uses(e, c)
                               /\ e # d => Uses(e, c)' = Uses(e, c)
        BY DEF Uses, HasCode
    <1>2. ASSUME NEW e \in Demand PROVE CodeInHand(e)'
        <2>1. CodeInHand(e)
            BY DEF CodesInv
        <2>2. CASE e = d
            BY <2>1, <2>2 DEF CodeInHand
        <2>3. CASE e # d
            BY <2>1, <2>3 DEF CodeInHand, HasCode
        <2> QED
            BY <2>2, <2>3
    <1>3. \A c \in Demand : HasIssued(c) => HasIssued(c)'
        BY DEF HasIssued
    <1>4. \A c \in Demand : CodeIsIssued(c)'
        BY <1>1, <1>3 DEF CodesInv, CodeIsIssued
    <1>6. ASSUME NEW c \in Demand, c \notin reused PROVE OneUse(c)'
        <2>1. OneUse(c)
            BY <1>6 DEF CodesInv
        <2>2. \A e \in Demand : (Uses(e, c)' => Uses(e, c)) /\ (e # d => Uses(e, c)' = Uses(e, c))
            BY <1>1
        <2>3. Uses(d, c) => users[c] = {}
            BY <2>1 DEF OneUse
        <2>4. \A e \in Demand : Uses(e, c)' /\ demand'[e].pc # "remove" => users'[c] = {}
            BY <2>1, <2>2, <2>3 DEF OneUse
        <2>5. users'[c] # {} /\ code'.value = c => \E e \in Demand : Uses(e, c)'
            BY <2>1, <2>2, <2>3 DEF OneUse
        <2> QED
            BY <2>1, <2>2, <2>4, <2>5 DEF OneUse
    <1>7. MailedCodeStands'
        BY DEF CodesInv, MailedCodeStands
    <1> QED
        BY <1>2, <1>4, <1>6, <1>7 DEF CodesInv

\* The code that a demand issues is new: nobody has it in hand or has used it.
LEMMA CodeIssued ==
    ASSUME AccountsTypeOK, CodesInv, NEW d \in Demand, NEW key \in Demand,
           code' = NewCode(d, key), mailed' = d, UNCHANGED <<users, reused>>,
           \A e \in Demand : e # d => demand'[e] = demand[e],
           demand[d].pc \in {"save", "otp"}, demand'[d].pc \in {"update", "done"},
           demand'[d].pc = "update" => HasCode(d)',
           HasCode(d)' => HasCode(d) /\ demand'[d].code = demand[d].code
    PROVE  CodesInv'
    <1>1. \A e, c \in Demand : /\ Uses(e, c)' => Uses(e, c)
                               /\ e # d => Uses(e, c)' = Uses(e, c)
        BY DEF Uses, HasCode
    <1>2. ~ HasIssued(d) /\ code'.value = d /\ HasIssued(d)'
        BY DEF HasIssued, NewCode
    <1>3. users[d] = {} /\ \A e \in Demand : ~ Uses(e, d)
        BY <1>2 DEF CodesInv, CodeIsIssued
    <1>5. ASSUME NEW e \in Demand PROVE CodeInHand(e)'
        <2>1. CodeInHand(e) /\ ~ Uses(e, d)
            BY <1>3 DEF CodesInv
        <2>2. HasCode(e)' => HasCode(e) /\ demand'[e].code = demand[e].code
            BY DEF HasCode
        <2>3. HasCode(e)' => code'.value # demand'[e].code.value
            BY <1>2, <2>1, <2>2 DEF Uses
        <2>4. demand'[e].pc \in {"update", "remove", "refresh"} => HasCode(e)'
            BY <2>1 DEF CodeInHand, HasCode
        <2>5. demand'[e].pc = "remove" => e \in users'[demand'[e].code.value]
            BY <2>1 DEF CodeInHand
        <2> QED
            BY <2>1, <2>2, <2>3, <2>4, <2>5 DEF CodeInHand
    <1>6. ASSUME NEW c \in Demand PROVE CodeIsIssued(c)'
        <2>1. CodeIsIssued(c)
            BY DEF CodesInv
        <2>2. c # d => HasIssued(c)' = HasIssued(c)
            BY DEF HasIssued
        <2> QED
            BY <1>1, <1>2, <2>1, <2>2 DEF CodeIsIssued
    <1>7. ASSUME NEW c \in Demand, c \notin reused PROVE OneUse(c)'
        <2>1. OneUse(c)
            BY <1>7 DEF CodesInv
        <2>2. \A e \in Demand : (Uses(e, c)' => Uses(e, c)) /\ (e # d => Uses(e, c)' = Uses(e, c))
            BY <1>1
        <2>3. Uses(d, c) => users[c] = {}
            BY <2>1 DEF OneUse
        <2>4. \A e \in Demand : Uses(e, c)' /\ demand'[e].pc # "remove" => users'[c] = {}
            BY <2>1, <2>2, <2>3 DEF OneUse
        <2>5. ~ (users'[c] # {} /\ code'.value = c)
            BY <1>2, <1>3
        <2> QED
            BY <2>1, <2>2, <2>4, <2>5 DEF OneUse
    <1>8. MailedCodeStands'
        BY <1>2 DEF MailedCodeStands
    <1> QED
        BY <1>5, <1>6, <1>7, <1>8 DEF CodesInv

\* The steps of a code: verified, used, removed, or left behind by a failure.
LEMMA CodeSteps ==
    ASSUME AccountsTypeOK, CodesInv, NEW d \in Demand,
           VerifyCode(d) \/ SetPassword(d) \/ RemoveCode(d) \/ FailDemand(d)
    PROVE  CodesInv'
    <1>0. /\ demand \in [Demand -> DemandState] /\ demand[d] \in DemandState /\ "nothing" \notin Demand
          /\ users \in [Demand -> SUBSET Demand] /\ code \in Code
          /\ \A e \in Demand : CodeInHand(e) /\ CodeIsIssued(e) /\ (e \notin reused => OneUse(e))
          /\ MailedCodeStands /\ mailed \in Demand \cup {Nothing}
        BY AccountsAssumption DEF AccountsTypeOK, AccountsAssumption, CodesInv
    <1>1. CASE VerifyCode(d)
        <2>2. /\ code.value \in Demand /\ ~ code.expired /\ UNCHANGED <<code, mailed, users, mixed>>
              /\ demand[d].pc = "idle" /\ reused \subseteq reused'
              /\ code.value \notin reused' => \A q \in Demand : ~ (HasCode(q) /\ demand[q].code = code)
            BY <1>0, <1>1 DEF VerifyCode, Code, Unmade
        <2>3. /\ demand'[d].pc \in {"refresh", "update"} /\ demand'[d].code = code /\ demand'[d].kind = "reset"
              /\ \A e \in Demand : e # d => demand'[e] = demand[e]
            BY <1>1, VerifiesType
        <2>4. ASSUME NEW e \in Demand PROVE CodeInHand(e)'
            <3>1. CodeInHand(e)
                BY <1>0
            <3>2. CASE e = d
                BY <2>2, <2>3, <3>2 DEF CodeInHand, HasCode
            <3>3. CASE e # d
                BY <2>2, <2>3, <3>1, <3>3 DEF CodeInHand, HasCode
            <3> QED
                BY <3>2, <3>3
        <2>5. \A e, c \in Demand : /\ e # d => Uses(e, c)' = Uses(e, c)
                                   /\ Uses(d, c)' <=> c = code.value
                                   /\ ~ Uses(d, c)
            BY <2>2, <2>3 DEF Uses, HasCode
        <2>6. ASSUME NEW c \in Demand PROVE CodeIsIssued(c)'
            <3>1. CodeIsIssued(c) /\ (HasIssued(c) => HasIssued(c)')
                BY <1>0, <2>2, <2>3 DEF HasIssued
            <3> QED
                BY <2>2, <2>5, <3>1 DEF CodeIsIssued
        <2>7. ASSUME NEW c \in Demand, c \notin reused' PROVE OneUse(c)'
            <3>1. OneUse(c)
                BY <1>0, <2>2, <2>7
            <3>2. c = code.value => \A e \in Demand : ~ Uses(e, c)
                <4> SUFFICES ASSUME c = code.value, NEW e \in Demand, Uses(e, c) PROVE FALSE
                    OBVIOUS
                <4>1. demand[e].code \in Code /\ demand[e] \in DemandState
                    BY <1>0 DEF DemandState
                <4>2. demand[e].code.row = code.row /\ demand[e].code.value = code.value
                      /\ demand[e].code.expired = code.expired
                    BY <1>0, <2>2, <4>1 DEF Uses, CodeInHand, Code
                <4>3. demand[e].code = code
                    BY <1>0, <4>1, <4>2 DEF Code
                <4> QED
                    BY <2>2, <2>7, <4>3 DEF Uses
            <3>3. c = code.value => users[c] = {}
                BY <3>1, <3>2 DEF OneUse
            <3>4. \A e \in Demand : e # d => demand'[e] = demand[e]
                BY <2>3
            <3>5. \A e \in Demand : (e # d => Uses(e, c)' = Uses(e, c)) /\ (Uses(d, c)' <=> c = code.value) /\ ~ Uses(d, c)
                BY <2>5
            <3>6. CASE c = code.value
                BY <2>2, <3>2, <3>3, <3>5, <3>6 DEF OneUse
            <3>7. CASE c # code.value
                BY <2>2, <3>1, <3>4, <3>5, <3>7 DEF OneUse
            <3> QED
                BY <3>6, <3>7
        <2>8. MailedCodeStands'
            BY <1>0, <2>2 DEF MailedCodeStands
        <2> QED
            BY <2>4, <2>6, <2>7, <2>8 DEF CodesInv
    <1>2. CASE SetPassword(d)
        <2>0. demand[d].pc = "update" /\ Move(d, "remove")
            BY <1>2 DEF SetPassword, DemandAt
        <2>1. PICK u \in Demand : u = demand[d].code.value /\ Uses(d, u)
            BY <1>0, <2>0 DEF CodeInHand, Uses
        <2>2. /\ users' = [users EXCEPT ![u] = @ \cup {d}] /\ UNCHANGED <<code, mailed, reused, mixed>>
            BY <1>2, <2>1 DEF SetPassword
        <2>3. DemandMoves(d, {"update"}, "remove") /\ demand'[d].code = demand[d].code
              /\ demand'[d].kind = demand[d].kind
            BY <2>0, MovesDemand
        <2>4. /\ demand'[d].pc = "remove" /\ users'[u] = users[u] \cup {d}
              /\ \A c \in Demand : c # u => users'[c] = users[c]
              /\ \A e \in Demand : e # d => demand'[e] = demand[e]
            BY <1>0, <2>2, <2>3 DEF DemandMoves
        <2>5. \A e, c \in Demand : Uses(e, c)' = Uses(e, c)
            BY <2>0, <2>3, <2>4 DEF Uses, HasCode
        <2>6. ASSUME NEW e \in Demand PROVE CodeInHand(e)'
            <3>1. CodeInHand(e) /\ (e # d => demand'[e] = demand[e])
                BY <1>0, <2>4
            <3>2. \A c \in Demand : users[c] \subseteq users'[c]
                BY <2>4
            <3>3. CASE e = d
                BY <2>0, <2>1, <2>2, <2>3, <2>4, <3>1, <3>3 DEF CodeInHand, HasCode
            <3>4. CASE e # d
                BY <2>2, <3>1, <3>2, <3>4 DEF CodeInHand, HasCode
            <3> QED
                BY <3>3, <3>4
        <2>7. ASSUME NEW c \in Demand PROVE CodeIsIssued(c)'
            <3>1. CodeIsIssued(c) /\ (HasIssued(c) => HasIssued(c)')
                BY <1>0, <2>0, <2>4 DEF HasIssued
            <3> QED
                BY <2>1, <2>2, <2>4, <2>5, <3>1 DEF CodeIsIssued
        <2>8. ASSUME NEW c \in Demand, c \notin reused' PROVE OneUse(c)'
            <3>1. OneUse(c)
                BY <1>0, <2>2, <2>8
            <3>2. \A e \in Demand : Uses(e, c)' = Uses(e, c) /\ (e # d => demand'[e] = demand[e])
                BY <2>4, <2>5
            <3>3. CASE c = u
                <4>1. Uses(d, c) /\ users[c] = {}
                    BY <2>0, <2>1, <3>1, <3>3 DEF OneUse
                <4>2. users'[c] = {d} /\ \A e \in Demand : Uses(e, c) => e = d
                    BY <2>4, <3>1, <3>3, <4>1 DEF OneUse
                <4> QED
                    BY <2>2, <2>4, <3>1, <3>2, <4>1, <4>2 DEF OneUse
            <3>4. CASE c # u
                <4>1. ~ Uses(d, c) /\ users'[c] = users[c]
                    BY <2>1, <2>4, <3>4 DEF Uses
                <4> QED
                    BY <2>2, <3>1, <3>2, <4>1 DEF OneUse
            <3> QED
                BY <3>3, <3>4
        <2>9. MailedCodeStands'
            <3>1. mailed \in Demand => users[mailed] \subseteq users'[mailed]
                BY <2>4
            <3> QED
                BY <1>0, <2>2, <3>1 DEF MailedCodeStands
        <2> QED
            BY <2>6, <2>7, <2>8, <2>9 DEF CodesInv
    <1>3. CASE RemoveCode(d) \/ FailDemand(d)
        <2>0. Move(d, "done") /\ demand[d].pc # "done" /\ UNCHANGED <<mailed, mixed, users>>
            BY <1>3 DEF RemoveCode, FailDemand, DemandAt, accountHistory
        <2>1. PICK u : u = demand[d].code.value
            OBVIOUS
        <2>2. DemandMoves(d, {demand[d].pc}, "done")
            BY <2>0, MovesDemand
        <2>3. demand'[d].pc = "done" /\ \A e \in Demand : e # d => demand'[e] = demand[e]
            BY <2>2 DEF DemandMoves
        <2>4. \A e, c \in Demand : Uses(e, c)' <=> (Uses(e, c) /\ e # d)
            BY <2>3 DEF Uses, HasCode
        <2>5. /\ reused \subseteq reused'
              /\ demand[d].pc = "remove" => code'.value # u \/ u \in reused'
              /\ \/ code'.value = code.value /\ code'.row = code.row
                 \/ code' = NoCode /\ demand[d].pc = "remove" /\ code.value = u
            <3>1. CASE RemoveCode(d)
                <4>1. /\ demand[d].pc = "remove" /\ UNCHANGED reused
                      /\ code' = IF code.row = demand[d].code.row /\ code.value = u THEN NoCode ELSE code
                    BY <2>1, <3>1 DEF RemoveCode, DemandAt, accountHistory
                <4>2. u \in Demand /\ (code.value = u => code.row = demand[d].code.row)
                    BY <1>0, <2>1, <4>1 DEF CodeInHand
                <4> QED
                    BY <1>0, <4>1, <4>2 DEF NoCode, Nothing
            <3>2. CASE FailDemand(d)
                BY <2>1, <3>2 DEF FailDemand, DemandAt
            <3> QED
                BY <1>3, <3>1, <3>2
        <2>6. ASSUME NEW e \in Demand PROVE CodeInHand(e)'
            <3>1. CASE e = d
                BY <2>3, <3>1 DEF CodeInHand, HasCode
            <3>2. CASE e # d
                <4>1. CodeInHand(e) /\ demand'[e] = demand[e]
                    BY <1>0, <2>3, <3>2
                <4> QED
                    BY <1>0, <2>0, <2>5, <4>1 DEF CodeInHand, HasCode, NoCode, Nothing
            <3> QED
                BY <3>1, <3>2
        <2>7. ASSUME NEW c \in Demand PROVE CodeIsIssued(c)'
            <3>1. CodeIsIssued(c) /\ (HasIssued(c) => HasIssued(c)')
                BY <1>0, <2>3 DEF HasIssued
            <3>2. code'.value = c => code.value = c
                BY <1>0, <2>5 DEF NoCode, Nothing
            <3> QED
                BY <2>0, <2>4, <3>1, <3>2 DEF CodeIsIssued
        <2>8. ASSUME NEW c \in Demand, c \notin reused' PROVE OneUse(c)'
            <3>1. OneUse(c) /\ CodeInHand(d)
                BY <1>0, <2>5, <2>8
            <3>2. \A e \in Demand : (Uses(e, c)' <=> (Uses(e, c) /\ e # d)) /\ (e # d => demand'[e] = demand[e])
                BY <2>3, <2>4
            <3>3. code'.value = c => code.value = c
                BY <1>0, <2>5 DEF NoCode, Nothing
            <3>4. Uses(d, c) => u = c
                BY <2>1 DEF Uses
            <3>5. CASE users[c] # {} /\ code'.value = c
                <4>1. PICK e \in Demand : Uses(e, c)
                    BY <3>1, <3>3, <3>5 DEF OneUse
                <4>2. e # d
                    BY <2>5, <2>8, <3>1, <3>4, <3>5, <4>1 DEF OneUse, Uses
                <4> QED
                    BY <2>0, <3>1, <3>2, <4>1, <4>2 DEF OneUse
            <3>6. CASE ~ (users[c] # {} /\ code'.value = c)
                BY <2>0, <3>1, <3>2, <3>6 DEF OneUse
            <3> QED
                BY <3>5, <3>6
        <2>9. MailedCodeStands'
            <3>1. code' = NoCode /\ demand[d].pc = "remove" /\ code.value = u => u \in Demand /\ users[u] # {}
                BY <1>0, <2>1 DEF CodeInHand
            <3> QED
                BY <1>0, <2>0, <2>5, <3>1 DEF MailedCodeStands
        <2> QED
            BY <2>6, <2>7, <2>8, <2>9 DEF CodesInv
    <1> QED
        BY <1>1, <1>2, <1>3

\* A step of a demand that does not touch the accounts.
LEMMA RowsKept ==
    ASSUME RowsInv, NEW d \in Demand, UNCHANGED <<account, meant, muddled, twins, seized>>,
           \A e \in Demand : e # d => demand'[e] = demand[e],
           demand'[d].pc # "insert"
    PROVE  RowsInv'
    <1>1. AccountAsMeant'
        BY DEF RowsInv, AccountAsMeant, Meaning
    <1>3. OneLive => OneLive'
        BY DEF OneLive, LiveAccounts
    <1> QED
        BY <1>1, <1>3 DEF RowsInv

\* A step that writes one account, as it is meant to be, without bringing it to
\* life; or one that has not found the row it read.
LEMMA RowWritten ==
    ASSUME AccountsTypeOK, RowsInv, NEW d \in Demand, NEW i \in AccountId, NEW x,
           account' = [account EXCEPT ![i] = x], UNCHANGED <<twins, seized>>, muddled \subseteq muddled',
           i \notin muddled' => /\ x.state = "live" => account[i].state = "live"
                                /\ Meaning(account[i]) = meant[i] => Meaning(x) = meant'[i],
           \A j \in AccountId : j # i => meant'[j] = meant[j],
           \A e \in Demand : e # d => demand'[e] = demand[e],
           demand'[d].pc # "insert"
    PROVE  RowsInv'
    <1>0. account'[i] = x /\ \A j \in AccountId : j # i => account'[j] = account[j]
        BY DEF AccountsTypeOK
    <1>1. AccountAsMeant'
        <2> SUFFICES ASSUME NEW j \in AccountId, j \notin muddled' PROVE Meaning(account'[j]) = meant'[j]
            BY DEF AccountAsMeant, Meaning
        <2>1. Meaning(account[j]) = meant[j]
            BY DEF RowsInv, AccountAsMeant
        <2> QED
            BY <1>0, <2>1
    <1>3. i \notin muddled' => LiveAccounts' \subseteq LiveAccounts
        BY <1>0 DEF LiveAccounts
    <1>4. muddled' = {} /\ OneLive => OneLive'
        BY <1>3 DEF OneLive
    <1> QED
        BY <1>1, <1>4 DEF RowsInv

\* A record of what is meant, changed like the account, stays its meaning.
LEMMA MeantAlike ==
    ASSUME NEW a, NEW x, NEW m \in [active : BOOLEAN, password : Password, failed : Nat], Meaning(a) = m,
           NEW n \in [active : BOOLEAN, password : Password, failed : Nat],
           n.active = x.active, n.password = x.password, n.failed = x.failed
    PROVE  Meaning(x) = n
    <1>1. Meaning(x) = [active |-> x.active, password |-> x.password, failed |-> x.failed]
        BY DEF Meaning
    <1> QED
        BY <1>1

LEMMA MeaningIs ==
    ASSUME NEW a, NEW m, Meaning(a) = m
    PROVE  m.active = a.active /\ m.password = a.password /\ m.failed = a.failed
    BY DEF Meaning

\* Writing back a copy: outside of a muddle, the copy is the row.
LEMMA BackWritten ==
    ASSUME AccountsTypeOK, RowsInv, NEW d \in Demand, AcceptPassword(d) \/ Unlock(d) \/ Switch(d)
    PROVE  RowsInv'
    <1>0. demand[d] \in DemandState /\ account \in [AccountId -> Account]
          /\ meant \in [AccountId -> [active : BOOLEAN, password : Password, failed : Nat]]
        BY DEF AccountsTypeOK
    <1>1. PICK i \in AccountId : i = demand[d].of
        BY <1>0 DEF DemandState
    <1>2. PICK x, m :
            /\ WriteBack(d, x)
            /\ meant' = [meant EXCEPT ![i] = m]
            /\ \/ x = [demand[d].held EXCEPT !.failed = 0] /\ m = [meant[i] EXCEPT !.failed = 0]
               \/ \E on \in BOOLEAN : /\ x = [demand[d].held EXCEPT !.active = on]
                                       /\ m = [meant[i] EXCEPT !.active = on]
        <2>1. CASE AcceptPassword(d) \/ Unlock(d)
            <3> DEFINE x == [demand[d].held EXCEPT !.failed = 0]
                       m == [meant[i] EXCEPT !.failed = 0]
            <3>1. WriteBack(d, x)
                BY <2>1 DEF AcceptPassword, Unlock
            <3>2. meant' = [meant EXCEPT ![i] = m]
                BY <1>1, <2>1 DEF AcceptPassword, Unlock
            <3>3. x = [demand[d].held EXCEPT !.failed = 0] /\ m = [meant[i] EXCEPT !.failed = 0]
                OBVIOUS
            <3> HIDE DEF x, m
            <3> QED
                BY <3>1, <3>2, <3>3
        <2>2. CASE Switch(d)
            <3>1. PICK on \in BOOLEAN : /\ WriteBack(d, [demand[d].held EXCEPT !.active = on])
                                       /\ meant' = [meant EXCEPT ![i].active = on]
                BY <1>1, <2>2 DEF Switch
            <3> DEFINE x == [demand[d].held EXCEPT !.active = on]
                       m == [meant[i] EXCEPT !.active = on]
            <3>2. WriteBack(d, x)
                BY <3>1
            <3>3. meant' = [meant EXCEPT ![i] = m]
                BY <3>1
            <3>4. x = [demand[d].held EXCEPT !.active = on] /\ m = [meant[i] EXCEPT !.active = on]
                OBVIOUS
            <3> HIDE DEF x, m
            <3> QED
                BY <3>2, <3>3, <3>4
        <2> QED
            BY <2>1, <2>2
    <1>3. /\ account' = [account EXCEPT ![i] = x] /\ Move(d, "done") /\ UNCHANGED <<twins, seized>>
          /\ muddled' = IF account[i] = demand[d].held THEN muddled ELSE muddled \cup {i}
        BY <1>1, <1>2 DEF WriteBack, restVars
    <1>4. DemandMoves(d, {demand[d].pc}, "done")
        BY <1>3, MovesDemand
    <1>5. demand'[d].pc = "done" /\ \A e \in Demand : e # d => demand'[e] = demand[e]
        BY <1>4 DEF DemandMoves
    <1>6. \A j \in AccountId : j # i => meant'[j] = meant[j]
        BY <1>0, <1>2
    <1>7. ASSUME i \notin muddled'
          PROVE  /\ x.state = "live" => account[i].state = "live"
                 /\ Meaning(account[i]) = meant[i] => Meaning(x) = meant'[i]
        <2>1. account[i] = demand[d].held /\ account[i] \in Account
            BY <1>0, <1>3, <1>7
        <2>2. x.state = account[i].state
            BY <1>2, <2>1 DEF Account
        <2>3. CASE x = [demand[d].held EXCEPT !.failed = 0] /\ m = [meant[i] EXCEPT !.failed = 0]
            <3>1. x.active = account[i].active /\ x.password = account[i].password /\ x.failed = 0
                BY <2>1, <2>3 DEF Account
            <3>2. meant'[i] = [meant[i] EXCEPT !.failed = 0]
                BY <1>0, <1>2, <2>3
            <3>3. meant[i] \in [active : BOOLEAN, password : Password, failed : Nat]
                BY <1>0
            <3>4. meant'[i] \in [active : BOOLEAN, password : Password, failed : Nat]
                BY <3>2, <3>3
            <3>5. ASSUME Meaning(account[i]) = meant[i] PROVE Meaning(x) = meant'[i]
                <4>1. /\ meant[i].active = account[i].active /\ meant[i].password = account[i].password
                      /\ meant[i].failed = account[i].failed
                    BY <3>5, MeaningIs
                <4>2. meant'[i].active = x.active /\ meant'[i].password = x.password /\ meant'[i].failed = x.failed
                    BY <3>1, <3>2, <3>3, <4>1
                <4> QED
                    BY <3>3, <3>4, <3>5, <4>2, MeantAlike
            <3> QED
                BY <2>2, <3>5
        <2>4. ASSUME NEW on \in BOOLEAN, x = [demand[d].held EXCEPT !.active = on], m = [meant[i] EXCEPT !.active = on]
              PROVE  /\ x.state = "live" => account[i].state = "live"
                     /\ Meaning(account[i]) = meant[i] => Meaning(x) = meant'[i]
            <3>1. x.active = on /\ x.password = account[i].password /\ x.failed = account[i].failed
                BY <2>1, <2>4 DEF Account
            <3>2. meant'[i] = [meant[i] EXCEPT !.active = on]
                BY <1>0, <1>2, <2>4
            <3>3. meant[i] \in [active : BOOLEAN, password : Password, failed : Nat]
                BY <1>0
            <3>4. meant'[i] \in [active : BOOLEAN, password : Password, failed : Nat]
                BY <3>2, <3>3
            <3>5. ASSUME Meaning(account[i]) = meant[i] PROVE Meaning(x) = meant'[i]
                <4>1. /\ meant[i].active = account[i].active /\ meant[i].password = account[i].password
                      /\ meant[i].failed = account[i].failed
                    BY <3>5, MeaningIs
                <4>2. meant'[i].active = x.active /\ meant'[i].password = x.password /\ meant'[i].failed = x.failed
                    BY <3>1, <3>2, <3>3, <4>1
                <4> QED
                    BY <3>3, <3>4, <3>5, <4>2, MeantAlike
            <3> QED
                BY <2>2, <3>5
        <2> QED
            BY <1>2, <2>3, <2>4
    <1> QED
        BY <1>3, <1>5, <1>6, <1>7, RowWritten

LEMMA RowSteps ==
    ASSUME AccountsTypeOK, RowsInv, NEW d \in Demand,
           \/ SetPassword(d) \/ InsertAccount(d) \/ RefusePassword(d) \/ DeleteAccount(d) \/ UpdateAccount(d)
    PROVE  RowsInv'
    <1>0. /\ demand[d] \in DemandState /\ account \in [AccountId -> Account]
          /\ meant \in [AccountId -> [active : BOOLEAN, password : Password, failed : Nat]]
          /\ demand[d].of \in AccountId
        BY DEF AccountsTypeOK, DemandState
    <1>1. UNCHANGED <<twins, seized, muddled>>
        BY DEF SetPassword, InsertAccount, RefusePassword, DeleteAccount, UpdateAccount, restVars
    <1>2. PICK to \in {"done", "remove", "otp"} : Move(d, to)
        BY DEF SetPassword, InsertAccount, RefusePassword, DeleteAccount, UpdateAccount
    <1>3. DemandMoves(d, {demand[d].pc}, to)
        BY <1>2, MovesDemand
    <1>4. demand'[d].pc = to /\ \A e \in Demand : e # d => demand'[e] = demand[e]
        BY <1>3 DEF DemandMoves
    <1>5. CASE InsertAccount(d)
        <2>1. PICK i \in AccountId : account[i].state = "absent" /\ account' = [account EXCEPT ![i].state = "live"]
            BY <1>5 DEF InsertAccount
        <2>2. account[i] \in Account /\ account' = [account EXCEPT ![i] = [account[i] EXCEPT !.state = "live"]]
            BY <1>0, <2>1
        <2>3. /\ Meaning(account'[i]) = Meaning(account[i]) /\ \A j \in AccountId : j # i => account'[j] = account[j]
              /\ LiveAccounts' \subseteq LiveAccounts \cup {i} /\ UNCHANGED meant /\ demand[d].pc = "insert"
            BY <1>0, <1>5, <2>2 DEF InsertAccount, Account, Meaning, LiveAccounts, DemandAt
        <2>4. AccountAsMeant'
            <3> SUFFICES ASSUME NEW j \in AccountId, j \notin muddled PROVE Meaning(account'[j]) = meant[j]
                BY <1>1, <2>3 DEF AccountAsMeant, Meaning
            <3>1. Meaning(account[j]) = meant[j]
                BY DEF RowsInv, AccountAsMeant
            <3> QED
                BY <2>3, <3>1
        <2>5. OneLive => OneLive'
            BY <1>4, <2>3 DEF OneLive
        <2> QED
            BY <1>1, <2>4, <2>5 DEF RowsInv
    <1>6. ASSUME NEW i \in AccountId, NEW x, x \in Account, account' = [account EXCEPT ![i] = x],
                 x.state = "live" => account[i].state = "live",
                 Meaning(account[i]) = meant[i] => Meaning(x) = meant'[i],
                 \A j \in AccountId : j # i => meant'[j] = meant[j]
          PROVE  RowsInv'
        BY <1>1, <1>4, <1>6, RowWritten
    <1>7. CASE SetPassword(d)
        <2>1. PICK i \in AccountId : i = demand[d].of
            BY <1>0
        <2> DEFINE x == [account[i] EXCEPT !.password = d, !.active = TRUE, !.verified = TRUE]
                   m == [meant[i] EXCEPT !.password = d, !.active = TRUE]
        <2>2. account' = [account EXCEPT ![i] = x] /\ meant' = [meant EXCEPT ![i] = m]
            BY <1>7, <2>1 DEF SetPassword
        <2>3. account[i] \in Account /\ meant[i] \in [active : BOOLEAN, password : Password, failed : Nat]
            BY <1>0
        <2>4. x \in Account /\ x.state = account[i].state /\ x.active = TRUE /\ x.password = d /\ x.failed = account[i].failed
            BY <2>3 DEF Account, Password
        <2>5. ASSUME Meaning(account[i]) = meant[i] PROVE Meaning(x) = m
            <3>1. /\ meant[i].active = account[i].active /\ meant[i].password = account[i].password
                  /\ meant[i].failed = account[i].failed
                BY <2>5, MeaningIs
            <3>2. m \in [active : BOOLEAN, password : Password, failed : Nat]
                BY <2>3 DEF Password
            <3>3. m.active = x.active /\ m.password = x.password /\ m.failed = x.failed
                BY <2>3, <2>4, <3>1
            <3> HIDE DEF x, m
            <3> QED
                BY <2>3, <2>5, <3>2, <3>3, MeantAlike
        <2> HIDE DEF x, m
        <2>6. meant'[i] = m /\ \A j \in AccountId : j # i => meant'[j] = meant[j]
            BY <1>0, <2>2
        <2> QED
            BY <1>6, <2>2, <2>4, <2>5, <2>6
    <1>8. CASE RefusePassword(d)
        <2>1. PICK i \in AccountId : i = demand[d].of
            BY <1>0
        <2> DEFINE x == [account[i] EXCEPT !.failed = @ + 1]
                   m == [meant[i] EXCEPT !.failed = @ + 1]
        <2>2. account' = [account EXCEPT ![i] = x] /\ meant' = [meant EXCEPT ![i] = m] /\ account[i].failed < MaxFailed
            BY <1>8, <2>1 DEF RefusePassword
        <2>3. account[i] \in Account /\ meant[i] \in [active : BOOLEAN, password : Password, failed : Nat]
            BY <1>0
        <2>4. account[i].failed + 1 \in 0..MaxFailed
            BY <2>2, <2>3, AccountsAssumption DEF Account, AccountsAssumption
        <2>5. x \in Account /\ x.state = account[i].state /\ x.active = account[i].active
              /\ x.password = account[i].password /\ x.failed = account[i].failed + 1
            BY <2>3, <2>4 DEF Account
        <2>6. ASSUME Meaning(account[i]) = meant[i] PROVE Meaning(x) = m
            <3>1. /\ meant[i].active = account[i].active /\ meant[i].password = account[i].password
                  /\ meant[i].failed = account[i].failed
                BY <2>6, MeaningIs
            <3>2. m \in [active : BOOLEAN, password : Password, failed : Nat]
                BY <2>3 DEF Password
            <3>3. m.active = x.active /\ m.password = x.password /\ m.failed = x.failed
                BY <2>3, <2>5, <3>1
            <3> HIDE DEF x, m
            <3> QED
                BY <2>3, <2>6, <3>2, <3>3, MeantAlike
        <2> HIDE DEF x, m
        <2>7. meant'[i] = m /\ \A j \in AccountId : j # i => meant'[j] = meant[j]
            BY <1>0, <2>2
        <2> QED
            BY <1>6, <2>2, <2>5, <2>6, <2>7
    <1>9. CASE DeleteAccount(d)
        <2>1. PICK i \in AccountId : i = demand[d].of
            BY <1>0
        <2> DEFINE x == [account[i] EXCEPT !.state = "deleted", !.active = FALSE]
                   m == [meant[i] EXCEPT !.active = FALSE]
        <2>2. account' = [account EXCEPT ![i] = x] /\ meant' = [meant EXCEPT ![i] = m]
            BY <1>9, <2>1 DEF DeleteAccount
        <2>3. account[i] \in Account /\ meant[i] \in [active : BOOLEAN, password : Password, failed : Nat]
            BY <1>0
        <2>4. x \in Account /\ x.state = "deleted" /\ x.active = FALSE
              /\ x.password = account[i].password /\ x.failed = account[i].failed
            BY <2>3 DEF Account
        <2>5. ASSUME Meaning(account[i]) = meant[i] PROVE Meaning(x) = m
            <3>1. /\ meant[i].active = account[i].active /\ meant[i].password = account[i].password
                  /\ meant[i].failed = account[i].failed
                BY <2>5, MeaningIs
            <3>2. m \in [active : BOOLEAN, password : Password, failed : Nat]
                BY <2>3 DEF Password
            <3>3. m.active = x.active /\ m.password = x.password /\ m.failed = x.failed
                BY <2>3, <2>4, <3>1
            <3> HIDE DEF x, m
            <3> QED
                BY <2>3, <2>5, <3>2, <3>3, MeantAlike
        <2> HIDE DEF x, m
        <2>6. meant'[i] = m /\ \A j \in AccountId : j # i => meant'[j] = meant[j]
            BY <1>0, <2>2
        <2> QED
            BY <1>6, <2>2, <2>4, <2>5, <2>6
    <1>10. CASE UpdateAccount(d)
        <2>1. PICK i \in AccountId, on \in BOOLEAN :
                account' = [account EXCEPT ![i].active = on] /\ meant' = [meant EXCEPT ![i].active = on]
            BY <1>0, <1>10 DEF UpdateAccount, DemandState, Account
        <2> DEFINE x == [account[i] EXCEPT !.active = on]
                   m == [meant[i] EXCEPT !.active = on]
        <2>2. account' = [account EXCEPT ![i] = x] /\ meant' = [meant EXCEPT ![i] = m]
            BY <2>1
        <2>3. account[i] \in Account /\ meant[i] \in [active : BOOLEAN, password : Password, failed : Nat]
            BY <1>0
        <2>4. x \in Account /\ x.state = account[i].state /\ x.active = on
              /\ x.password = account[i].password /\ x.failed = account[i].failed
            BY <2>3 DEF Account
        <2>5. ASSUME Meaning(account[i]) = meant[i] PROVE Meaning(x) = m
            <3>1. /\ meant[i].active = account[i].active /\ meant[i].password = account[i].password
                  /\ meant[i].failed = account[i].failed
                BY <2>5, MeaningIs
            <3>2. m \in [active : BOOLEAN, password : Password, failed : Nat]
                BY <2>3 DEF Password
            <3>3. m.active = x.active /\ m.password = x.password /\ m.failed = x.failed
                BY <2>3, <2>4, <3>1
            <3> HIDE DEF x, m
            <3> QED
                BY <2>3, <2>5, <3>2, <3>3, MeantAlike
        <2> HIDE DEF x, m
        <2>6. meant'[i] = m /\ \A j \in AccountId : j # i => meant'[j] = meant[j]
            BY <1>0, <2>2
        <2> QED
            BY <1>6, <2>2, <2>4, <2>5, <2>6
    <1> QED
        BY <1>5, <1>7, <1>8, <1>9, <1>10

\* A change of address brings an account to life only where nobody is, or the
\* address is seized.
LEMMA MovesRow ==
    ASSUME AccountsTypeOK, RowsInv, NEW d \in Demand, MoveAccount(d)
    PROVE  RowsInv' /\ demand'[d].pc \in {"done", "issue"} /\ demand'[d].code = demand[d].code
           /\ demand'[d].kind = demand[d].kind /\ \A e \in Demand : e # d => demand'[e] = demand[e]
    <1>0. demand[d] \in DemandState /\ account \in [AccountId -> Account] /\ demand[d].of \in AccountId
        BY DEF AccountsTypeOK, DemandState
    <1>1. PICK i \in AccountId : i = demand[d].of
        BY <1>0
    <1>2. PICK to, s : /\ to \in {"live", "elsewhere"} /\ s \in {to, "deleted"}
                       /\ account' = [account EXCEPT ![i].state = s]
                       /\ seized' = (seized \/ (to = "live" /\ (LiveAccounts \ {i} # {} \/ Waiting("create", "insert") # {})))
        <2> DEFINE to == IF demand[d].held.state = "live" THEN "elsewhere" ELSE "live"
                   s == IF account[i].state = "deleted" THEN account[i].state ELSE to
        <2>1. account' = [account EXCEPT ![i].state = s]
            BY <1>0, <1>1 DEF MoveAccount
        <2>2. to \in {"live", "elsewhere"} /\ s \in {to, "deleted"}
            OBVIOUS
        <2>3. seized' = (seized \/ (to = "live" /\ (LiveAccounts \ {i} # {} \/ Waiting("create", "insert") # {})))
            BY <1>1 DEF MoveAccount
        <2> HIDE DEF to, s
        <2> QED
            BY <2>1, <2>2, <2>3
    <1>3. /\ account[i] \in Account /\ account' = [account EXCEPT ![i] = [account[i] EXCEPT !.state = s]]
        BY <1>0, <1>2
    <1>4. /\ Meaning(account'[i]) = Meaning(account[i]) /\ account'[i].state = s
          /\ \A j \in AccountId : j # i => account'[j] = account[j]
        BY <1>0, <1>3 DEF Account, Meaning
    <1>5. PICK pc \in {"done", "issue"} : Move(d, pc)
        BY DEF MoveAccount
    <1>6. /\ DemandMoves(d, {demand[d].pc}, pc) /\ demand'[d].code = demand[d].code
          /\ demand'[d].kind = demand[d].kind
        BY <1>5, MovesDemand
    <1>7. demand'[d].pc = pc /\ \A e \in Demand : e # d => demand'[e] = demand[e]
        BY <1>6 DEF DemandMoves
    <1>8. UNCHANGED <<meant, muddled, twins>>
        BY DEF MoveAccount
    <1>9. AccountAsMeant'
        <2> SUFFICES ASSUME NEW j \in AccountId, j \notin muddled PROVE Meaning(account'[j]) = meant[j]
            BY <1>8 DEF AccountAsMeant, Meaning
        <2>1. Meaning(account[j]) = meant[j]
            BY DEF RowsInv, AccountAsMeant
        <2> QED
            BY <1>4, <2>1
    <1>10. ASSUME ~ seized', OneLive PROVE OneLive'
        <2>1. CASE s = "live"
            <3>1. LiveAccounts \ {i} = {} /\ Waiting("create", "insert") = {}
                BY <1>2, <1>10, <2>1
            <3>2. LiveAccounts' \subseteq {i}
                BY <1>4, <3>1 DEF LiveAccounts
            <3>3. \A e \in Demand : demand[e].pc # "insert"
                BY <1>10, <3>1 DEF OneLive, Waiting
            <3>4. \A e \in Demand : demand'[e].pc # "insert"
                BY <1>7, <3>3
            <3> QED
                BY <3>2, <3>4 DEF OneLive
        <2>2. CASE s # "live"
            <3>1. LiveAccounts' \subseteq LiveAccounts
                BY <1>4, <2>2 DEF LiveAccounts
            <3> QED
                BY <1>7, <1>10, <3>1 DEF OneLive
        <2> QED
            BY <2>1, <2>2
    <1>11. ~ seized' => ~ seized
        BY <1>2
    <1>12. RowsInv'
        BY <1>8, <1>9, <1>10, <1>11 DEF RowsInv
    <1> QED
        BY <1>6, <1>7, <1>12

\* A demand that starts, or goes on, with what it has read.
LEMMA StartSteps ==
    ASSUME AccountsTypeOK, CodesInv, RowsInv, NEW d \in Demand,
           \/ IssueCode(d) \/ IssueMoved(d) \/ CheckAddress(d) \/ FindAccount(d) \/ ReadAccount(d) \/ Refresh(d)
    PROVE  CodesInv' /\ RowsInv'
    <1>0. demand[d] \in DemandState /\ "reset" \in DemandKind /\ CodeInHand(d)
          /\ {"unlock", "switch", "delete", "update"} \subseteq DemandKind
        BY DEF AccountsTypeOK, DemandKind, CodesInv
    <1>1. /\ UNCHANGED <<code, mailed, users, reused, account, meant, muddled, seized>>
          /\ mixed => mixed'
        <2>1. UNCHANGED <<code, mailed, users, reused, account, meant, muddled, seized>>
            BY DEF IssueCode, IssueMoved, CheckAddress, FindAccount, ReadAccount, Refresh, accountHistory, codeVars,
                   restVars
        <2>2. mixed => mixed'
            BY DEF IssueCode, IssueMoved, CheckAddress, FindAccount, ReadAccount, Refresh, codeVars, restVars
        <2> QED
            BY <2>1, <2>2
    <1>2. CASE IssueCode(d)
        <2>1. /\ demand'[d].pc = "save" /\ demand'[d].kind = "issue" /\ demand[d].pc = "idle" /\ UNCHANGED twins
              /\ \A e \in Demand : e # d => demand'[e] = demand[e]
            BY <1>2, ReadsType DEF IssueCode, Unmade, accountHistory
        <2>2. ~ HasCode(d)'
            BY <2>1 DEF HasCode
        <2> QED
            BY <1>1, <2>1, <2>2, CodesKept, RowsKept
    <1>3. CASE IssueMoved(d)
        <2>1. /\ demand'[d].pc = "save" /\ demand'[d].kind = demand[d].kind /\ demand'[d].code = demand[d].code
              /\ demand[d].pc = "issue" /\ UNCHANGED twins
              /\ \A e \in Demand : e # d => demand'[e] = demand[e]
            BY <1>3, ReadsType DEF IssueMoved, DemandAt, accountHistory
        <2>2. HasCode(d)' => HasCode(d)
            BY <2>1 DEF HasCode
        <2> QED
            BY <1>1, <2>1, <2>2, CodesKept, RowsKept
    <1>4. CASE CheckAddress(d)
        <2>1. /\ demand'[d].pc = "insert" /\ demand'[d].kind = "create" /\ LiveAccounts = {}
              /\ twins' = (twins \/ Waiting("create", "insert") # {}) /\ demand[d].pc = "idle"
              /\ \A e \in Demand : e # d => demand'[e] = demand[e]
            BY <1>4, ChecksType DEF CheckAddress, Unmade
        <2>2. AccountAsMeant'
            BY <1>1 DEF RowsInv, AccountAsMeant, Meaning
        <2>4. ASSUME ~twins', OneLive PROVE OneLive'
            <3>1. \A e \in Demand : demand[e].pc = "insert" => demand[e].kind = "create"
                BY <2>4 DEF OneLive
            <3>2. \A e \in Demand : ~ (demand[e].pc = "insert")
                BY <2>1, <2>4, <3>1 DEF Waiting
            <3>3. LiveAccounts' = {}
                BY <1>1, <2>1 DEF LiveAccounts
            <3>4. \A e \in Demand : demand'[e].pc = "insert" => e = d
                BY <2>1, <3>2
            <3> QED
                BY <2>1, <3>3, <3>4 DEF OneLive
        <2>5. RowsInv'
            BY <1>1, <2>1, <2>2, <2>4 DEF RowsInv
        <2>6. ~ HasCode(d)'
            BY <2>1 DEF HasCode
        <2> QED
            BY <1>1, <2>1, <2>5, <2>6, CodesKept
    <1>5. CASE FindAccount(d)
        <2>1. /\ demand'[d].pc = "compare" /\ demand'[d].kind = "login" /\ demand[d].pc = "idle" /\ UNCHANGED twins
              /\ \A e \in Demand : e # d => demand'[e] = demand[e]
            BY <1>5, FindsType DEF FindAccount, Unmade, restVars
        <2>2. ~ HasCode(d)'
            BY <2>1 DEF HasCode
        <2> QED
            BY <1>1, <2>1, <2>2, CodesKept, RowsKept
    <1>6. CASE ReadAccount(d)
        <2>1. PICK i, kind, pc : /\ i \in AccountId /\ kind \in {"unlock", "switch", "delete", "update"}
                                 /\ pc \in {"write", "move"} /\ Hold(d, kind, i, pc)
            BY <1>6, ReadsAccount
        <2>2. /\ demand'[d].pc = pc /\ demand'[d].kind = kind
              /\ \A e \in Demand : e # d => demand'[e] = demand[e]
            BY <1>0, <2>1, HoldsType
        <2>3. demand[d].pc = "idle" /\ UNCHANGED twins /\ ~ HasCode(d)'
            BY <1>6, <2>1, <2>2 DEF ReadAccount, Unmade, HasCode, restVars
        <2> QED
            BY <1>1, <2>1, <2>2, <2>3, CodesKept, RowsKept
    <1>7. CASE Refresh(d)
        <2>1. demand[d].pc = "refresh" /\ UNCHANGED twins /\ demand[d].of \in AccountId /\ demand[d].kind = "reset"
            BY <1>0, <1>7 DEF Refresh, DemandAt, DemandState, accountHistory, CodeInHand, HasCode
        <2>2. /\ demand'[d].pc \in {"update", "move"} /\ demand'[d].kind = "reset"
              /\ demand'[d].code = demand[d].code
              /\ \A e \in Demand : e # d => demand'[e] = demand[e]
            <3>1. CASE Move(d, "update")
                BY <2>1, <3>1, MovesDemand DEF DemandMoves
            <3>2. CASE Hold(d, "reset", demand[d].of, "move")
                BY <1>0, <2>1, <3>2, HoldsType
            <3> QED
                BY <1>7, <3>1, <3>2 DEF Refresh
        <2>3. HasCode(d) /\ HasCode(d)'
            BY <2>1, <2>2 DEF HasCode
        <2> QED
            BY <1>1, <2>1, <2>2, <2>3, CodesKept, RowsKept
    <1> QED
        BY <1>2, <1>3, <1>4, <1>5, <1>6, <1>7

LEMMA AccountsStep ==
    ASSUME AccountsInv, [AccountsNext]_accountVars
    PROVE  AccountsInv'
    <1>0. AccountsTypeOK /\ CodesInv /\ RowsInv /\ AccountsTypeOK'
        BY AccountTypes DEF AccountsInv
    <1>1. ASSUME NEW d \in Demand,
                 \/ IssueCode(d) \/ IssueMoved(d) \/ CheckAddress(d) \/ FindAccount(d) \/ ReadAccount(d)
                 \/ Refresh(d)
          PROVE  CodesInv' /\ RowsInv'
        BY <1>0, <1>1, StartSteps
    <1>2. ASSUME NEW d \in Demand, VerifyCode(d) \/ RemoveCode(d) \/ FailDemand(d)
          PROVE  CodesInv' /\ RowsInv'
        <2>1. UNCHANGED <<account, meant, muddled, twins, seized>>
            BY <1>2 DEF VerifyCode, RemoveCode, FailDemand, accountHistory
        <2>2. /\ demand'[d].pc # "insert" /\ \A e \in Demand : e # d => demand'[e] = demand[e]
            <3>1. CASE VerifyCode(d)
                BY <1>0, <3>1, VerifiesType
            <3>2. CASE Move(d, "done")
                BY <1>0, <3>2, MovesDemand DEF DemandMoves
            <3> QED
                BY <1>2, <3>1, <3>2 DEF RemoveCode, FailDemand
        <2> QED
            BY <1>0, <1>2, <2>1, <2>2, CodeSteps, RowsKept
    <1>3. ASSUME NEW d \in Demand, SaveCode(d) \/ InsertCode(d) PROVE CodesInv' /\ RowsInv'
        <2>1. /\ demand[d].pc \in {"save", "otp"}
              /\ UNCHANGED <<account, meant, muddled, twins, seized, users, reused, mixed>>
            BY <1>3 DEF SaveCode, InsertCode, accountHistory, DemandAt
        <2>2. PICK to \in {"done", "update"} : Move(d, to) /\ (to = "update" => demand[d].kind = "reset")
            BY <1>3 DEF SaveCode, InsertCode
        <2>3. /\ demand'[d].pc = to /\ demand'[d].kind = demand[d].kind /\ demand'[d].code = demand[d].code
              /\ \A e \in Demand : e # d => demand'[e] = demand[e]
            BY <1>0, <2>2, MovesDemand DEF DemandMoves
        <2>4. HasCode(d)' => HasCode(d)
            BY <2>1, <2>3 DEF HasCode
        <2>5. to = "update" => HasCode(d)'
            BY <2>2, <2>3 DEF HasCode
        <2>6. RowsInv'
            BY <1>0, <2>1, <2>2, <2>3, RowsKept
        <2>7. \/ UNCHANGED <<code, mailed>>
              \/ mailed' = d /\ \E key \in Demand : code' = NewCode(d, key)
            <3>1. demand[d].otp.row \in Demand \cup {Nothing}
                BY <1>0 DEF AccountsTypeOK, DemandState, Code
            <3> QED
                BY <1>3, <3>1 DEF SaveCode, InsertCode
        <2>8. CASE UNCHANGED <<code, mailed>>
            BY <1>0, <2>1, <2>2, <2>3, <2>4, <2>5, <2>6, <2>8, CodesKept
        <2>9. CASE mailed' = d /\ \E key \in Demand : code' = NewCode(d, key)
            BY <1>0, <2>1, <2>2, <2>3, <2>4, <2>5, <2>6, <2>9, CodeIssued
        <2> QED
            BY <2>7, <2>8, <2>9
    <1>4. ASSUME ExpireCode PROVE CodesInv' /\ RowsInv'
        <2>1. /\ code'.value = code.value /\ code'.row = code.row
              /\ UNCHANGED <<demand, mailed, mixed, account, users, meant, muddled, reused, twins, seized>>
            BY <1>0, <1>4 DEF ExpireCode, AccountsTypeOK, Code, accountHistory
        <2>2. \A d \in Demand : CodeInHand(d)'
            BY <1>0, <2>1 DEF CodesInv, CodeInHand, HasCode
        <2>3. \A d, c \in Demand : Uses(d, c)' = Uses(d, c)
            BY <2>1 DEF Uses, HasCode
        <2>4. \A c \in Demand : CodeIsIssued(c)'
            BY <1>0, <2>1, <2>3 DEF CodesInv, CodeIsIssued, HasIssued
        <2>5. \A c \in Demand : OneUse(c) => OneUse(c)'
            BY <2>1, <2>3 DEF OneUse
        <2>6. CodesInv'
            BY <1>0, <2>1, <2>2, <2>4, <2>5 DEF CodesInv, MailedCodeStands
        <2>7. RowsInv'
            BY <1>0, <2>1 DEF RowsInv, AccountAsMeant, Meaning, OneLive, LiveAccounts
        <2> QED
            BY <2>6, <2>7
    <1>5. ASSUME NEW d \in Demand, SetPassword(d) PROVE CodesInv' /\ RowsInv'
        BY <1>0, <1>5, CodeSteps, RowSteps
    <1>6. ASSUME NEW d \in Demand,
                 \/ InsertAccount(d) \/ RefusePassword(d) \/ DeleteAccount(d) \/ UpdateAccount(d)
                 \/ AcceptPassword(d) \/ Unlock(d) \/ Switch(d)
          PROVE  CodesInv' /\ RowsInv'
        <2>1. UNCHANGED <<code, mailed, users, reused, mixed>>
            BY <1>6 DEF InsertAccount, RefusePassword, DeleteAccount, UpdateAccount, AcceptPassword, Unlock,
                        Switch, WriteBack, codeVars, restVars
        <2>2. PICK to \in {"otp", "done"} : Move(d, to)
            BY <1>6 DEF InsertAccount, RefusePassword, DeleteAccount, UpdateAccount, AcceptPassword, Unlock,
                        Switch, WriteBack
        <2>3. demand[d].pc \in {"insert", "compare", "write"}
            BY <1>6 DEF InsertAccount, RefusePassword, DeleteAccount, UpdateAccount, AcceptPassword, Unlock,
                        Switch, DemandAt
        <2>4. /\ demand'[d].pc = to /\ demand'[d].kind = demand[d].kind /\ demand'[d].code = demand[d].code
              /\ \A e \in Demand : e # d => demand'[e] = demand[e]
            BY <1>0, <2>2, MovesDemand DEF DemandMoves
        <2>6. HasCode(d)' => HasCode(d)
            BY <2>3, <2>4 DEF HasCode
        <2>5. CodesInv'
            BY <1>0, <2>1, <2>2, <2>3, <2>4, <2>6, CodesKept
        <2> QED
            BY <1>0, <1>6, <2>5, RowSteps, BackWritten
    <1>8. ASSUME NEW d \in Demand, MoveAccount(d) PROVE CodesInv' /\ RowsInv'
        <2>1. /\ RowsInv' /\ demand'[d].pc \in {"done", "issue"} /\ demand'[d].code = demand[d].code
              /\ demand'[d].kind = demand[d].kind /\ \A e \in Demand : e # d => demand'[e] = demand[e]
            BY <1>0, <1>8, MovesRow
        <2>2. demand[d].pc = "move" /\ UNCHANGED <<code, mailed, users, reused, mixed>>
            BY <1>8 DEF MoveAccount, DemandAt, codeVars
        <2>3. HasCode(d)' => HasCode(d)
            BY <2>1, <2>2 DEF HasCode
        <2> QED
            BY <1>0, <2>1, <2>2, <2>3, CodesKept
    <1>7. CASE UNCHANGED accountVars
        <2>1. UNCHANGED <<account, code, demand, mailed>> /\ UNCHANGED <<users, meant, muddled, reused, mixed, twins, seized>>
            BY <1>7 DEF accountVars
        <2>2. \A d, c \in Demand : Uses(d, c)' = Uses(d, c)
            BY <2>1 DEF Uses, HasCode
        <2>3. \A c \in Demand : CodeIsIssued(c)' /\ (OneUse(c) => OneUse(c)') /\ CodeInHand(c)'
            BY <1>0, <2>1, <2>2 DEF CodesInv, CodeIsIssued, OneUse, CodeInHand, HasCode, HasIssued
        <2>4. RowsInv'
            BY <1>0, <2>1 DEF RowsInv, AccountAsMeant, Meaning, OneLive, LiveAccounts
        <2>5. MailedCodeStands'
            BY <1>0, <2>1 DEF CodesInv, MailedCodeStands
        <2> QED
            BY <1>0, <2>1, <2>3, <2>4, <2>5 DEF CodesInv, AccountsInv
    <1> QED
        BY <1>0, <1>1, <1>2, <1>3, <1>4, <1>5, <1>6, <1>7, <1>8 DEF AccountsNext, AccountsInv

LEMMA InitAccounts == AccountsInit => AccountsInv
    <1> SUFFICES ASSUME AccountsInit PROVE AccountsInv
        OBVIOUS
    <1>0. /\ NoAccount \in Account /\ NoCode \in Code /\ Nothing \in Password /\ "nothing" \notin Demand
          /\ AccountId \subseteq Nat /\ 1 \in AccountId /\ {0, 2} \subseteq 0..MaxFailed
        BY AccountsAssumption DEF AccountsAssumption, NoAccount, Account, NoCode, Code, Nothing, Password, AccountId
    <1>1. PICK first \in {NoAccount} \cup
                 [state : {"live"}, active : {TRUE}, verified : {TRUE}, password : {"seed"}, failed : {0, 2}],
               invited \in SUBSET (AccountId \ {1}) :
            account = [i \in AccountId |->
                 IF i = 1 THEN first
                 ELSE IF i \in invited THEN [NoAccount EXCEPT !.state = "elsewhere"] ELSE NoAccount]
        BY DEF AccountsInit
    <1>2. first \in Account /\ [NoAccount EXCEPT !.state = "elsewhere"] \in Account
        BY <1>0, <1>1 DEF Account, Password, NoAccount
    <1>3. account \in [AccountId -> Account]
        BY <1>0, <1>1, <1>2
    <1>4. FreshDemand \in DemandState
        BY <1>0 DEF FreshDemand, DemandState, DemandKind, NoCode
    <1>5. \A i \in AccountId : Meaning(account[i]) \in [active : BOOLEAN, password : Password, failed : Nat]
        <2> SUFFICES ASSUME NEW i \in AccountId
                     PROVE  Meaning(account[i]) \in [active : BOOLEAN, password : Password, failed : Nat]
            OBVIOUS
        <2>1. account[i] \in Account /\ account[i].failed \in Nat
            BY <1>3, AccountsAssumption DEF Account, AccountsAssumption
        <2> QED
            BY <2>1 DEF Meaning, Account
    <1>6. AccountsTypeOK
        BY <1>0, <1>3, <1>4, <1>5 DEF AccountsInit, AccountsTypeOK
    <1>7. \A d \in Demand : demand[d].pc = "idle"
        BY DEF AccountsInit, FreshDemand
    <1>8. CodesInv
        BY <1>0, <1>7 DEF AccountsInit, CodesInv, CodeInHand, CodeIsIssued, OneUse, Uses, HasCode, MailedCodeStands,
                          NoCode, Nothing
    <1>9. LiveAccounts \subseteq {1}
        BY <1>0, <1>1, <1>2 DEF LiveAccounts, NoAccount, Account
    <1>10. RowsInv
        BY <1>7, <1>9 DEF AccountsInit, RowsInv, AccountAsMeant, OneLive
    <1> QED
        BY <1>6, <1>8, <1>10 DEF AccountsInv

\* For any requests about one address, however they overlap or fail: an account
\* is what they have made of it, one is live, a code sets one password, and the
\* code mailed last is the one that counts, outside of the named races.
THEOREM AccountsAreAsMeant == AccountsSpec => []AccountsAreSound
    <1>1. AccountsInv => AccountsAreSound
        <2> SUFFICES ASSUME AccountsInv PROVE AccountsAreSound
            OBVIOUS
        <2>1. OneLiveAccount
            BY AtMostOne DEF AccountsInv, RowsInv, OneLive, OneLiveAccount
        <2>2. CodeUsedOnce
            BY AtMostOne DEF AccountsInv, CodesInv, OneUse, CodeUsedOnce
        <2> QED
            BY <2>1, <2>2 DEF AccountsInv, CodesInv, RowsInv, AccountsAreSound
    <1> QED
        BY <1>1, InitAccounts, AccountsStep, PTL DEF AccountsSpec

-----------------------------------------------------------------------------
(* TeamAccess *)

\* A request that checks permissions handles nobody, and the others check none;
\* the rows that a login has read are its user's.
KindsAgree ==
    \A r \in Request :
      /\ request[r].pc = "fill" => request[r].kind = "hasPermissions"
      /\ request[r].pc \notin {"idle", "fill", "done"} => request[r].kind # "hasPermissions"
      /\ request[r].pc = "write" => \A given \in request[r].held : given.user = request[r].user

\* A request that is between two administrators of a new team works on nobody.
Works(r, u) == Handles(r, u) /\ request[r].pc # "next"

\* Requests on a user overlap only if he is torn.
WorksAlone ==
    \A u \in User \ torn : \A q, r \in Request : Works(q, u) /\ Works(r, u) => q = r

RowsAreMembers(u) == \A given \in RowsOf(u) : <<u, given.team>> \in member

\* The user is a member of the team, if the team is still there.
Belongs(u, t) == <<u, t>> \in member \/ team[t] = "deleted"

\* The assignments to save are in teams the user is, or will be, a member of;
\* and whoever has assignments is a member wherever the request may end.
WishIsSound(r) ==
    LET q == request[r] IN
    /\ q.pc \in {"leave", "join"} => \A grant \in q.wish :
         grant[1] \in q.join \/ (Belongs(q.user, grant[1]) /\ (q.pc = "leave" => grant[1] \notin q.leave))
    /\ q.pc \in {"merge", "check", "clear", "insert"} => \A grant \in q.wish : Belongs(q.user, grant[1])

RowsAreSettled(r) ==
    LET q == request[r] IN
    /\ q.pc \in {"merge", "revoke", "expel", "write", "evict"} => RowsAreMembers(q.user)
    /\ q.pc = "expel" => \A given \in RowsOf(q.user) : given.team # q.team
    /\ q.pc = "insert" => RowsOf(q.user) = {}
    /\ q.pc = "write" => q.held = RowsOf(q.user)

WorkIsSound ==
    \A r \in Request, u \in User \ torn : Works(r, u) => WishIsSound(r) /\ RowsAreSettled(r)

\* Whoever no request works on is a member of the teams he has a group in.
RestIsSound == \A u \in User \ torn : (\A r \in Request : ~ Works(r, u)) => RowsAreMembers(u)

AccessInv ==
    /\ RequestsTypeOK /\ KindsAgree /\ CacheFollows
    /\ WorksAlone /\ WorkIsSound /\ RestIsSound

LEMMA AccessTypes ==
    /\ NoRequest \in RequestState /\ NoRequest.wish = {}
    /\ NotCached \in Cached /\ ~ NotCached.hit
    /\ AdminGroup \in Group
    BY AccessAssumption
      DEF AccessAssumption, NoRequest, RequestState, NotCached, Cached, Grant, Row, CachedGrant

\* The step with which a request starts.
LEMMA Started ==
    ASSUME RequestsTypeOK, NEW r \in Request, NEW kind, NEW u \in User, NEW state \in RequestState,
           Starts(r, kind, u, state)
    PROVE  \E s \in RequestState :
             /\ s.kind = kind /\ s.user = u /\ s.pc = state.pc
             /\ s.wish = state.wish /\ s.leave = state.leave /\ s.join = state.join
             /\ s.team = state.team /\ s.held = state.held
             /\ request' = [request EXCEPT ![r] = s]
             /\ torn \subseteq torn' /\ torn' \subseteq torn \cup {u}
             /\ u \in torn' \/ \A q \in Request \ {r} : ~ Handles(q, u)
    <1> DEFINE s == [state EXCEPT !.kind = kind, !.user = u]
    <1>1. kind \in RequestKind
        BY DEF Starts
    <1>2. /\ s \in RequestState /\ s.kind = kind /\ s.user = u /\ s.pc = state.pc
          /\ s.wish = state.wish /\ s.leave = state.leave /\ s.join = state.join
          /\ s.team = state.team /\ s.held = state.held
        BY <1>1 DEF RequestState
    <1>3. request' = [request EXCEPT ![r] = s]
        BY DEF Starts
    <1>4. torn \subseteq torn' /\ torn' \subseteq torn \cup {u} /\ (u \in torn' \/ \A q \in Request \ {r} : ~ Handles(q, u))
        BY DEF Starts, RequestsTypeOK
    <1> HIDE DEF s
    <1> QED
        BY <1>2, <1>3, <1>4

\* What a step of one request on one user leaves to be shown.
LEMMA UserStep ==
    ASSUME AccessInv, NEW r \in Request, NEW u \in User, NEW s \in RequestState,
           s.user = u, request' = [request EXCEPT ![r] = s], UNCHANGED <<team, group>>,
           torn \subseteq torn', torn' \subseteq torn \cup {u},
           \A v \in User : v # u => /\ RowsOf(v)' = RowsOf(v)
                                    /\ \A t \in Team : <<v, t>> \in member' <=> <<v, t>> \in member,
           assigned' \subseteq Row,
           u \in torn' \/ Works(r, u) \/ \A q \in Request \ {r} : ~ Handles(q, u),
           \A v \in User : Works(r, v) => v = u,
           s.pc = "fill" => s.kind = "hasPermissions",
           s.pc \notin {"idle", "fill", "done"} => s.kind # "hasPermissions",
           s.pc = "write" => \A given \in s.held : given.user = s.user,
           u \notin torn' =>
             /\ Works(r, u)' => WishIsSound(r)' /\ RowsAreSettled(r)'
             /\ ~ Works(r, u)' => RowsAreMembers(u)'
    PROVE  KindsAgree' /\ WorksAlone' /\ WorkIsSound' /\ RestIsSound'
    <1>0. /\ request \in [Request -> RequestState] /\ torn \subseteq User /\ assigned \subseteq Row
          /\ \A v \in User : RowsOf(v) \subseteq Row
        BY DEF AccessInv, RequestsTypeOK, RowsOf
    <1>1. request'[r] = s /\ \A q \in Request : q # r => request'[q] = request[q]
        BY <1>0
    <1>2. /\ \A q \in Request, v \in User : q # r => (Works(q, v)' <=> Works(q, v))
          /\ \A v \in User : Works(r, v)' => v = u
        BY <1>1 DEF Works, Handles, Active
    <1>3. KindsAgree'
        BY <1>1 DEF AccessInv, KindsAgree
    <1>4. u \notin torn' => \A q \in Request : q # r => ~ Works(q, u)
        BY DEF AccessInv, WorksAlone, Works
    <1>5. WorksAlone'
        <2> SUFFICES ASSUME NEW v \in User, v \notin torn', NEW p \in Request, NEW q \in Request,
                            Works(p, v)', Works(q, v)'
                     PROVE  p = q
            BY DEF WorksAlone
        <2>1. CASE v = u
            BY <1>2, <1>4, <2>1
        <2>2. CASE v # u
            BY <1>2, <2>2 DEF AccessInv, WorksAlone
        <2> QED
            BY <2>1, <2>2
    <1>6. ASSUME NEW q \in Request, NEW v \in User, v # u, q # r, Works(q, v), WishIsSound(q), RowsAreSettled(q)
          PROVE  WishIsSound(q)' /\ RowsAreSettled(q)'
        <2>1. request'[q] = request[q] /\ request[q].user = v /\ request[q].wish \subseteq Grant
            BY <1>0, <1>1, <1>6 DEF Works, Handles, RequestState
        <2>2. \A t \in Team : Belongs(v, t) <=> Belongs(v, t)'
            BY <1>6 DEF Belongs
        <2>3. RowsAreMembers(v) => RowsAreMembers(v)'
            BY <1>0, <1>6 DEF RowsAreMembers, Row
        <2>4. WishIsSound(q)'
            BY <1>6, <2>1, <2>2 DEF WishIsSound, Grant
        <2> QED
            BY <1>6, <2>1, <2>3, <2>4 DEF RowsAreSettled
    <1>7. WorkIsSound'
        <2> SUFFICES ASSUME NEW q \in Request, NEW v \in User, v \notin torn', Works(q, v)'
                     PROVE  WishIsSound(q)' /\ RowsAreSettled(q)'
            BY DEF WorkIsSound
        <2>1. CASE v = u
            BY <1>2, <1>4, <2>1
        <2>2. CASE v # u
            BY <1>2, <1>6, <2>2 DEF AccessInv, WorkIsSound
        <2> QED
            BY <2>1, <2>2
    <1>8. RestIsSound'
        <2> SUFFICES ASSUME NEW v \in User, v \notin torn', \A q \in Request : ~ Works(q, v)'
                     PROVE  RowsAreMembers(v)'
            BY DEF RestIsSound
        <2>1. CASE v = u
            BY <2>1
        <2>2. CASE v # u
            <3>1. \A q \in Request : ~ Works(q, v)
                BY <1>2, <2>2
            <3>2. RowsAreMembers(v)
                BY <3>1 DEF AccessInv, RestIsSound
            <3> QED
                BY <1>0, <2>2, <3>2 DEF RowsAreMembers, Row
        <2> QED
            BY <2>1, <2>2
    <1> QED
        BY <1>3, <1>5, <1>7, <1>8

\* The step of a request that works on nobody.
LEMMA QuietStep ==
    ASSUME AccessInv, NEW r \in Request, NEW s \in RequestState, request' = [request EXCEPT ![r] = s],
           UNCHANGED assigned, torn \subseteq torn',
           \A v \in User : ~ Works(r, v) /\ ~ Works(r, v)',
           s.pc = "fill" => s.kind = "hasPermissions",
           s.pc \notin {"idle", "fill", "done"} => s.kind # "hasPermissions",
           s.pc = "write" => \A given \in s.held : given.user = s.user,
           \A v \in User, t \in Team :
             /\ Belongs(v, t) => Belongs(v, t)'
             /\ <<v, t>> \in member /\ (\E given \in assigned : given.team = t) => <<v, t>> \in member'
    PROVE  KindsAgree' /\ WorksAlone' /\ WorkIsSound' /\ RestIsSound'
    <1>0. /\ request \in [Request -> RequestState] /\ torn \subseteq User /\ assigned \subseteq Row
          /\ \A v \in User : RowsOf(v) \subseteq Row /\ RowsOf(v)' = RowsOf(v)
        BY DEF AccessInv, RequestsTypeOK, RowsOf
    <1>1. request'[r] = s /\ \A q \in Request : q # r => request'[q] = request[q]
        BY <1>0
    <1>2. \A q \in Request, v \in User : Works(q, v)' <=> Works(q, v)
        BY <1>1 DEF Works, Handles, Active
    <1>3. KindsAgree'
        BY <1>1 DEF AccessInv, KindsAgree
    <1>4. WorksAlone'
        BY <1>2 DEF AccessInv, WorksAlone
    <1>5. \A v \in User : RowsAreMembers(v) => RowsAreMembers(v)'
        BY <1>0 DEF RowsAreMembers, Row, RowsOf
    <1>6. WorkIsSound'
        <2> SUFFICES ASSUME NEW q \in Request, NEW v \in User, v \notin torn', Works(q, v)
                     PROVE  WishIsSound(q)' /\ RowsAreSettled(q)'
            BY <1>2 DEF WorkIsSound
        <2>1. q # r /\ request'[q] = request[q] /\ request[q].user = v /\ request[q].wish \subseteq Grant
            BY <1>0, <1>1 DEF Works, Handles, RequestState
        <2>2. WishIsSound(q) /\ RowsAreSettled(q)
            BY DEF AccessInv, WorkIsSound
        <2>4. \A t \in Team : Belongs(v, t) => Belongs(v, t)'
            OBVIOUS
        <2>5. WishIsSound(q)'
            BY <2>1, <2>2, <2>4 DEF WishIsSound, Grant
        <2> QED
            BY <1>0, <1>5, <2>1, <2>2, <2>5 DEF RowsAreSettled
    <1>7. RestIsSound'
        BY <1>2, <1>5 DEF AccessInv, RestIsSound
    <1> QED
        BY <1>3, <1>4, <1>6, <1>7

\* The cache follows a step that leaves it alone, if what the step changes is
\* marked or about to be evicted.
LEMMA CacheKept ==
    ASSUME AccessInv, NEW r \in Request, NEW s \in RequestState, request' = [request EXCEPT ![r] = s],
           UNCHANGED cached, stale \subseteq stale',
           \A v \in User : cached[v].hit =>
             /\ \/ Granted(RowsOf(v))' = Granted(RowsOf(v)) \/ v \in stale'
                \/ s.user = v /\ s.kind # "hasPermissions" /\ s.pc \in {"insert", "evict"}
             /\ request[r].user = v /\ Changes(r) =>
                  \/ v \in stale'
                  \/ s.user = v /\ s.kind # "hasPermissions" /\ s.pc \in {"insert", "evict"}
    PROVE  CacheFollows'
    <1>1. request'[r] = s /\ \A q \in Request : q # r => request'[q] = request[q]
        BY DEF AccessInv, RequestsTypeOK
    <1> SUFFICES ASSUME NEW v \in User, cached[v].hit, v \notin stale',
                        \A q \in Request : ~ (Handles(q, v)' /\ Changes(q)')
                 PROVE  cached[v].grants = Granted(RowsOf(v))'
        BY DEF CacheFollows
    <1>2. ~ (s.user = v /\ s.kind # "hasPermissions" /\ s.pc \in {"insert", "evict"})
        BY <1>1 DEF Handles, Active, Changes
    <1>3. \A q \in Request : ~ (Handles(q, v) /\ Changes(q))
        BY <1>1, <1>2 DEF Handles, Active, Changes
    <1>4. cached[v].grants = Granted(RowsOf(v))
        BY <1>3 DEF AccessInv, CacheFollows
    <1> QED
        BY <1>2, <1>4

\* A request starts to work on a user: nothing is written but a membership.
LEMMA StartStep ==
    ASSUME AccessInv, NEW r \in Request, NEW u \in User, NEW kind, NEW state \in RequestState,
           Starts(r, kind, u, state), kind # "hasPermissions",
           state.pc \notin {"idle", "fill", "done", "next"},
           state.pc = "write" => \A given \in state.held : given.user = u,
           UNCHANGED <<team, group, assigned, cached, stale>>,
           member \subseteq member', member' \subseteq User \X Team,
           \A v \in User, t \in Team : v # u => (<<v, t>> \in member' <=> <<v, t>> \in member),
           ASSUME u \notin torn, RowsAreMembers(u), NEW s, s = request'[r], s.user = u, s.pc = state.pc,
                  s.wish = state.wish, s.leave = state.leave, s.join = state.join, s.team = state.team,
                  s.held = state.held
           PROVE  WishIsSound(r)' /\ RowsAreSettled(r)'
    PROVE  AccessInv'
    <1>0. RequestsTypeOK /\ request \in [Request -> RequestState] /\ request[r].pc \in {"idle", "next"}
        BY DEF AccessInv, RequestsTypeOK, Starts
    <1>1. PICK s \in RequestState :
            /\ s.kind = kind /\ s.user = u /\ s.pc = state.pc
            /\ s.wish = state.wish /\ s.leave = state.leave /\ s.join = state.join
            /\ s.team = state.team /\ s.held = state.held
            /\ request' = [request EXCEPT ![r] = s]
            /\ torn \subseteq torn' /\ torn' \subseteq torn \cup {u}
            /\ u \in torn' \/ \A q \in Request \ {r} : ~ Handles(q, u)
        BY <1>0, Started
    <1>2. request'[r] = s
        BY <1>0, <1>1
    <1>3. \A v \in User : ~ Works(r, v)
        BY <1>0 DEF Works, Handles, Active
    <1>4. RequestsTypeOK'
        BY <1>0, <1>1 DEF RequestsTypeOK
    <1>5. CacheFollows'
        <2>1. ~ Changes(r) /\ \A v \in User : Granted(RowsOf(v))' = Granted(RowsOf(v))
            BY <1>0 DEF Changes, Granted, RowsOf
        <2> QED
            BY <1>1, <2>1, CacheKept
    <1>6. ASSUME u \notin torn'
          PROVE  /\ WishIsSound(r)' /\ RowsAreSettled(r)' /\ Works(r, u)'
        <2>1. \A q \in Request : ~ Works(q, u)
            BY <1>1, <1>3, <1>6 DEF Works
        <2>2. u \notin torn /\ RowsAreMembers(u)
            BY <1>1, <1>6, <2>1 DEF AccessInv, RestIsSound
        <2>3. WishIsSound(r)' /\ RowsAreSettled(r)'
            BY <1>1, <1>2, <2>2
        <2>4. Works(r, u)'
            BY <1>1, <1>2 DEF Works, Handles, Active
        <2> QED
            BY <2>2, <2>3, <2>4
    <1>7. assigned' \subseteq Row /\ \A v \in User : RowsOf(v)' = RowsOf(v)
        BY <1>0 DEF RequestsTypeOK, RowsOf
    <1>8. KindsAgree' /\ WorksAlone' /\ WorkIsSound' /\ RestIsSound'
        BY <1>1, <1>3, <1>6, <1>7, UserStep
    <1> QED
        BY <1>4, <1>5, <1>8 DEF AccessInv

\* A request goes on with its user, or is done with him.
LEMMA ContinueStep ==
    ASSUME AccessInv, NEW r \in Request, Active(r), request[r].kind # "hasPermissions", request[r].pc # "next",
           NEW s \in RequestState, s.user = request[r].user, s.kind = request[r].kind,
           request' = [request EXCEPT ![r] = s], s.pc \notin {"idle", "fill", "write"},
           UNCHANGED <<team, group, cached, torn>>,
           stale \subseteq stale', stale' \subseteq User,
           member' \subseteq User \X Team, assigned' \subseteq Row,
           \A v \in User : v # s.user => /\ RowsOf(v)' = RowsOf(v)
                                         /\ \A t \in Team : <<v, t>> \in member' <=> <<v, t>> \in member,
           cached[s.user].hit =>
             /\ Granted(RowsOf(s.user))' = Granted(RowsOf(s.user)) \/ s.user \in stale' \/ s.pc \in {"insert", "evict"}
             /\ Changes(r) => s.user \in stale' \/ s.pc \in {"insert", "evict"},
           s.user \notin torn /\ WishIsSound(r) /\ RowsAreSettled(r) =>
             /\ s.pc \notin {"next", "done"} => WishIsSound(r)' /\ RowsAreSettled(r)'
             /\ s.pc \in {"next", "done"} => RowsAreMembers(s.user)'
    PROVE  AccessInv'
    <1>0. RequestsTypeOK /\ request \in [Request -> RequestState] /\ s.user \in User
        BY DEF AccessInv, RequestsTypeOK, RequestState
    <1>1. request'[r] = s
        BY <1>0
    <1>2. Works(r, s.user) /\ \A v \in User : Works(r, v) => v = s.user
        BY DEF Works, Handles
    <1>3. RequestsTypeOK'
        BY <1>0 DEF RequestsTypeOK
    <1>4. CacheFollows'
        <2>1. \A v \in User : v # s.user => Granted(RowsOf(v))' = Granted(RowsOf(v))
            BY DEF Granted
        <2> QED
            BY <2>1, CacheKept
    <1>5. Works(r, s.user)' <=> s.pc \notin {"next", "done"}
        BY <1>1 DEF Works, Handles, Active
    <1>6. s.user \notin torn => WishIsSound(r) /\ RowsAreSettled(r)
        BY <1>0, <1>2 DEF AccessInv, WorkIsSound
    <1>7. KindsAgree' /\ WorksAlone' /\ WorkIsSound' /\ RestIsSound'
        BY <1>0, <1>2, <1>5, <1>6, UserStep
    <1> QED
        BY <1>3, <1>4, <1>7 DEF AccessInv

\* A request goes from one step to another of its own.
LEMMA Went ==
    ASSUME RequestsTypeOK, NEW r \in Request, NEW pc \in {"leave", "join", "merge", "check", "clear", "insert", "evict",
             "next", "revoke", "expel", "drop", "fill", "write", "done"},
           GoTo(r, pc)
    PROVE  \E s \in RequestState :
             /\ request' = [request EXCEPT ![r] = s]
             /\ s.pc = pc /\ s.user = request[r].user /\ s.kind = request[r].kind
             /\ s.wish = request[r].wish /\ s.leave = request[r].leave /\ s.join = request[r].join
             /\ s.team = request[r].team /\ s.held = request[r].held /\ s.user \in User /\ s.team \in Team
             /\ s.wish \subseteq Grant /\ s.join \subseteq Team /\ s.held \subseteq Row
             /\ request'[r] = s
    <1>0. request \in [Request -> RequestState] /\ request[r] \in RequestState
        BY DEF RequestsTypeOK
    <1> DEFINE s == [request[r] EXCEPT !.pc = pc]
    <1>1. /\ s \in RequestState /\ s.pc = pc /\ s.user = request[r].user /\ s.kind = request[r].kind
          /\ s.wish = request[r].wish /\ s.leave = request[r].leave /\ s.join = request[r].join
          /\ s.team = request[r].team /\ s.held = request[r].held /\ s.user \in User /\ s.team \in Team
          /\ s.wish \subseteq Grant /\ s.join \subseteq Team /\ s.held \subseteq Row
        BY <1>0 DEF RequestState
    <1>2. request' = [request EXCEPT ![r] = s]
        BY DEF GoTo
    <1> HIDE DEF s
    <1>3. request'[r] = s
        BY <1>0, <1>2
    <1> QED
        BY <1>1, <1>2, <1>3

LEMMA RequestFails ==
    ASSUME AccessInv, NEW r \in Request, Active(r), Fail(r)
    PROVE  AccessInv'
    <1>0. RequestsTypeOK /\ request \in [Request -> RequestState] /\ request[r].user \in User
        BY DEF AccessInv, RequestsTypeOK, RequestState
    <1>1. PICK s \in RequestState :
            /\ request' = [request EXCEPT ![r] = s] /\ s.pc = "done" /\ s.user = request[r].user
            /\ s.kind = request[r].kind /\ request'[r] = s
        <2>1. GoTo(r, "done")
            BY DEF Fail, GoTo
        <2> QED
            BY <1>0, <2>1, Went
    <1>2. /\ UNCHANGED <<team, member, group, assigned, cached>>
          /\ torn \subseteq torn' /\ torn' \subseteq torn \cup {request[r].user}
          /\ request[r].kind # "hasPermissions" => request[r].user \in torn'
          /\ stale \subseteq stale' /\ stale' \subseteq stale \cup {request[r].user}
          /\ Changes(r) /\ cached[request[r].user].hit => request[r].user \in stale'
        BY DEF Fail
    <1>3. RequestsTypeOK'
        BY <1>0, <1>1, <1>2 DEF RequestsTypeOK
    <1>4. assigned' \subseteq Row /\ \A v \in User : RowsOf(v)' = RowsOf(v) /\ Granted(RowsOf(v))' = Granted(RowsOf(v))
        BY <1>0, <1>2 DEF RowsOf, Granted, RequestsTypeOK
    <1>5. CacheFollows'
        BY <1>1, <1>2, <1>4, CacheKept
    <1>6. CASE request[r].kind # "hasPermissions"
        <2>1. \A v \in User : Works(r, v) => v = request[r].user
            BY DEF Works, Handles
        <2>2. KindsAgree' /\ WorksAlone' /\ WorkIsSound' /\ RestIsSound'
            BY <1>0, <1>1, <1>2, <1>4, <1>6, <2>1, UserStep
        <2> QED
            BY <1>3, <1>5, <2>2 DEF AccessInv
    <1>7. CASE request[r].kind = "hasPermissions"
        <2>1. \A v \in User : ~ Works(r, v) /\ ~ Works(r, v)'
            BY <1>1, <1>7 DEF Works, Handles
        <2>2. KindsAgree' /\ WorksAlone' /\ WorkIsSound' /\ RestIsSound'
            BY <1>0, <1>1, <1>2, <2>1, QuietStep DEF Belongs
        <2> QED
            BY <1>3, <1>5, <2>2 DEF AccessInv
    <1> QED
        BY <1>6, <1>7

\* A user is made an administrator, alone or as one of those of a new team.
LEMMA AdminStarts ==
    ASSUME AccessInv, NEW r \in Request, NEW u \in User, NEW todo \in SUBSET User,
           NEW kind \in {"setAsAdmin", "createTeam"}, Starts(r, kind, u, AdminOf(u, todo)),
           UNCHANGED <<team, member, group, assigned, cached, stale>>
    PROVE  AccessInv'
    <1>0. /\ RequestsTypeOK /\ member \subseteq User \X Team /\ LiveTeams \subseteq Team
          /\ NoRequest \in RequestState /\ AdminGroup \in Group
        BY AccessTypes DEF AccessInv, RequestsTypeOK, LiveTeams
    <1> DEFINE state == AdminOf(u, todo)
    <1>1. /\ state \in RequestState /\ state.pc = "join" /\ state.wish = LiveTeams \X {AdminGroup}
          /\ state.join = {t \in LiveTeams : <<u, t>> \notin member}
        <2> DEFINE missing == {t \in LiveTeams : <<u, t>> \notin member}
                   wish    == LiveTeams \X {AdminGroup}
        <2>1. missing \in SUBSET Team /\ wish \in SUBSET Grant
            BY <1>0 DEF Grant
        <2>2. state = [NoRequest EXCEPT !.pc = "join", !.wish = wish, !.todo = todo, !.join = missing]
            BY DEF AdminOf
        <2> HIDE DEF missing, wish, state
        <2>3. state \in RequestState /\ state.pc = "join" /\ state.wish = wish /\ state.join = missing
            BY <1>0, <2>1, <2>2 DEF RequestState
        <2> QED
            BY <2>3 DEF missing, wish
    <1>2. Starts(r, kind, u, state)
        OBVIOUS
    <1> HIDE DEF state
    <1>3. ASSUME NEW s, s = request'[r], s.user = u, s.pc = state.pc, s.wish = state.wish, s.join = state.join
          PROVE  WishIsSound(r)' /\ RowsAreSettled(r)'
        BY <1>1, <1>3 DEF WishIsSound, RowsAreSettled, Belongs
    <1> QED
        BY <1>0, <1>1, <1>2, <1>3, StartStep

\* The requests that start: what they wish is in teams the user is in, or joins.
LEMMA RequestsStart ==
    ASSUME AccessInv, NEW r \in Request,
           SetTeams(r) \/ AddMember(r) \/ RemoveMember(r) \/ SetAsAdmin(r) \/ ReadAtLogin(r)
    PROVE  AccessInv'
    <1>0. /\ RequestsTypeOK /\ member \subseteq User \X Team /\ assigned \subseteq Row /\ LiveTeams \subseteq Team
          /\ NoRequest \in RequestState /\ AdminGroup \in Group
        BY AccessTypes DEF AccessInv, RequestsTypeOK, LiveTeams
    <1>1. CASE SetTeams(r)
        <2>1. PICK u \in User, wish \in SUBSET Grant :
                /\ {grant[1] : grant \in wish} \subseteq LiveTeams
                /\ Starts(r, "setTeams", u,
                      [NoRequest EXCEPT !.pc = "leave", !.wish = wish,
                         !.leave = {t \in Team : <<u, t>> \in member} \ {grant[1] : grant \in wish},
                         !.join = {grant[1] : grant \in wish} \ {t \in Team : <<u, t>> \in member}])
                /\ UNCHANGED <<team, member, group, assigned, cached, stale>>
            BY <1>1 DEF SetTeams, dataVars
        <2> DEFINE teams == {grant[1] : grant \in wish}
                   now   == {t \in Team : <<u, t>> \in member}
                   state == [NoRequest EXCEPT !.pc = "leave", !.wish = wish, !.leave = now \ teams, !.join = teams \ now]
        <2>2. Starts(r, "setTeams", u, state) /\ teams \subseteq Team /\ \A grant \in wish : grant[1] \in teams
            BY <1>0, <2>1
        <2> HIDE DEF teams
        <2>3. /\ state \in RequestState /\ state.pc = "leave" /\ state.wish = wish
              /\ state.leave = now \ teams /\ state.join = teams \ now
            BY <1>0, <2>2 DEF RequestState
        <2> HIDE DEF state
        <2>4. ASSUME NEW s, s = request'[r], s.user = u, s.pc = state.pc, s.wish = state.wish,
                     s.leave = state.leave, s.join = state.join
              PROVE  WishIsSound(r)' /\ RowsAreSettled(r)'
            BY <2>1, <2>2, <2>3, <2>4 DEF WishIsSound, RowsAreSettled, Belongs
        <2> QED
            BY <1>0, <2>1, <2>2, <2>3, <2>4, StartStep
    <1>2. CASE AddMember(r)
        <2>1. PICK u \in User, t \in LiveTeams, groups \in SUBSET Group :
                /\ Starts(r, "addMember", u, [NoRequest EXCEPT !.pc = "merge", !.team = t, !.wish = {t} \X groups])
                /\ member' = member \cup {<<u, t>>}
                /\ UNCHANGED <<team, group, assigned, cached, stale>>
            BY <1>2 DEF AddMember, dataVars
        <2> DEFINE state == [NoRequest EXCEPT !.pc = "merge", !.team = t, !.wish = {t} \X groups]
        <2>2. Starts(r, "addMember", u, state)
            BY <2>1
        <2>3. state \in RequestState /\ state.pc = "merge" /\ state.wish = {t} \X groups
            BY <1>0, ZenonT(30) DEF RequestState, Grant
        <2> HIDE DEF state
        <2>4. /\ member \subseteq member' /\ member' \subseteq User \X Team
              /\ \A v \in User, x \in Team : v # u => (<<v, x>> \in member' <=> <<v, x>> \in member)
            BY <1>0, <2>1
        <2>5. ASSUME RowsAreMembers(u), NEW s, s = request'[r], s.user = u, s.pc = state.pc, s.wish = state.wish
              PROVE  WishIsSound(r)' /\ RowsAreSettled(r)'
            <3>1. RowsAreMembers(u)'
                BY <2>1, <2>5 DEF RowsAreMembers, RowsOf
            <3>2. \A grant \in s.wish : Belongs(u, grant[1])'
                BY <2>1, <2>3, <2>5 DEF Belongs
            <3> QED
                BY <2>3, <2>5, <3>1, <3>2 DEF WishIsSound, RowsAreSettled
        <2> QED
            BY <1>0, <2>1, <2>2, <2>3, <2>4, <2>5, StartStep
    <1>3. CASE RemoveMember(r)
        <2>1. PICK u \in User, t \in LiveTeams :
                /\ Starts(r, "removeMember", u, [NoRequest EXCEPT !.pc = "revoke", !.team = t])
                /\ UNCHANGED <<team, member, group, assigned, cached, stale>>
            BY <1>3 DEF RemoveMember, dataVars
        <2> DEFINE state == [NoRequest EXCEPT !.pc = "revoke", !.team = t]
        <2>2. Starts(r, "removeMember", u, state)
            BY <2>1
        <2>3. state \in RequestState /\ state.pc = "revoke"
            BY <1>0 DEF RequestState
        <2> HIDE DEF state
        <2>4. ASSUME RowsAreMembers(u), NEW s, s = request'[r], s.user = u, s.pc = state.pc
              PROVE  WishIsSound(r)' /\ RowsAreSettled(r)'
            <3>1. RowsAreMembers(u)'
                BY <2>1, <2>4 DEF RowsAreMembers, RowsOf
            <3> QED
                BY <2>3, <2>4, <3>1 DEF WishIsSound, RowsAreSettled
        <2> QED
            BY <1>0, <2>1, <2>2, <2>3, <2>4, StartStep
    <1>4. CASE SetAsAdmin(r)
        <2>1. PICK u \in User : Starts(r, "setAsAdmin", u, AdminOf(u, {}))
            BY <1>4 DEF SetAsAdmin
        <2> QED
            BY <1>0, <1>4, <2>1, AdminStarts DEF SetAsAdmin, dataVars
    <1>5. CASE ReadAtLogin(r)
        <2>1. PICK u \in User :
                /\ Starts(r, "login", u, [NoRequest EXCEPT !.pc = "write", !.held = RowsOf(u)])
                /\ UNCHANGED <<team, member, group, assigned, cached, stale>>
            BY <1>5 DEF ReadAtLogin, dataVars
        <2> DEFINE state == [NoRequest EXCEPT !.pc = "write", !.held = RowsOf(u)]
        <2>2. Starts(r, "login", u, state) /\ RowsOf(u) \subseteq Row /\ \A given \in RowsOf(u) : given.user = u
            BY <1>0, <2>1 DEF RowsOf
        <2>3. state \in RequestState /\ state.pc = "write" /\ state.held = RowsOf(u)
            BY <1>0, <2>2 DEF RequestState
        <2> HIDE DEF state
        <2>4. ASSUME RowsAreMembers(u), NEW s, s = request'[r], s.user = u, s.pc = state.pc, s.held = state.held
              PROVE  WishIsSound(r)' /\ RowsAreSettled(r)'
            <3>1. RowsAreMembers(u)' /\ RowsOf(u)' = RowsOf(u)
                BY <2>1, <2>4 DEF RowsAreMembers, RowsOf
            <3> QED
                BY <2>3, <2>4, <3>1 DEF WishIsSound, RowsAreSettled
        <2> QED
            BY <1>0, <2>1, <2>2, <2>3, <2>4, StartStep
    <1> QED
        BY <1>1, <1>2, <1>3, <1>4, <1>5

\* The user's memberships change.
LEMMA MembershipsChange ==
    ASSUME AccessInv, NEW r \in Request, LeaveTeams(r) \/ JoinTeams(r) \/ MergeAssignments(r) \/ Expel(r)
    PROVE  AccessInv'
    <1>0. /\ RequestsTypeOK /\ member \subseteq User \X Team /\ assigned \subseteq Row /\ stale \subseteq User
          /\ request \in [Request -> RequestState] /\ request[r] \in RequestState
        BY DEF AccessInv, RequestsTypeOK
    <1>1. Active(r) /\ request[r].kind # "hasPermissions" /\ request[r].pc # "next" /\ ~ Changes(r)
        BY DEF AccessInv, KindsAgree, Active, Changes, LeaveTeams, JoinTeams, MergeAssignments, Expel, At
    <1>2. CASE JoinTeams(r) /\ Fail(r)
        BY <1>1, <1>2, RequestFails
    <1>3. CASE ~ (JoinTeams(r) /\ Fail(r))
        <2>1. UNCHANGED <<team, group, assigned, cached, stale, torn>>
            BY <1>3 DEF LeaveTeams, JoinTeams, MergeAssignments, Expel, dataVars
        <2>2. \A v \in User : RowsOf(v)' = RowsOf(v) /\ Granted(RowsOf(v))' = Granted(RowsOf(v))
            BY <2>1 DEF RowsOf, Granted
        <2>4. CASE LeaveTeams(r)
            <3>1. PICK s \in RequestState :
                    /\ request' = [request EXCEPT ![r] = s]
                    /\ s.pc = "join" /\ s.user = request[r].user /\ s.kind = request[r].kind
                    /\ s.wish = request[r].wish /\ s.join = request[r].join
                    /\ s.user \in User /\ s.wish \subseteq Grant /\ request'[r] = s
                BY <1>0, <2>4, Went DEF LeaveTeams
            <3>2. member' = member \ ({s.user} \X request[r].leave)
                BY <2>4, <3>1 DEF LeaveTeams
            <3>3. ASSUME WishIsSound(r) PROVE WishIsSound(r)' /\ RowsAreSettled(r)'
                <4>1. request[r].pc = "leave"
                    BY <2>4 DEF LeaveTeams, At
                <4> QED
                    BY <2>1, <3>1, <3>2, <3>3, <4>1 DEF WishIsSound, RowsAreSettled, Belongs
            <3>4. /\ member' \subseteq User \X Team
                  /\ \A v \in User, t \in Team : v # s.user => (<<v, t>> \in member' <=> <<v, t>> \in member)
                BY <1>0, <3>2
            <3> QED
                BY <1>0, <1>1, <2>1, <2>2, <3>1, <3>3, <3>4, ContinueStep
        <2>5. CASE JoinTeams(r)
            <3>0. GoTo(r, "check") /\ member' = member \cup ({request[r].user} \X request[r].join)
                BY <1>3, <2>5 DEF JoinTeams
            <3>1. PICK s \in RequestState :
                    /\ request' = [request EXCEPT ![r] = s]
                    /\ s.pc = "check" /\ s.user = request[r].user /\ s.kind = request[r].kind
                    /\ s.wish = request[r].wish /\ s.join = request[r].join /\ s.join \subseteq Team
                    /\ s.user \in User /\ s.wish \subseteq Grant /\ request'[r] = s
                BY <1>0, <3>0, Went
            <3>2. member' = member \cup ({s.user} \X s.join)
                BY <3>0, <3>1
            <3>3. ASSUME WishIsSound(r) PROVE WishIsSound(r)' /\ RowsAreSettled(r)'
                <4>1. request[r].pc = "join"
                    BY <2>5 DEF JoinTeams, At
                <4> QED
                    BY <2>1, <3>1, <3>2, <3>3, <4>1 DEF WishIsSound, RowsAreSettled, Belongs
            <3>4. /\ member' \subseteq User \X Team
                  /\ \A v \in User, t \in Team : v # s.user => (<<v, t>> \in member' <=> <<v, t>> \in member)
                BY <1>0, <3>1, <3>2
            <3> QED
                BY <1>0, <1>1, <2>1, <2>2, <3>1, <3>3, <3>4, ContinueStep
        <2>6. CASE MergeAssignments(r)
            <3> DEFINE kept == {grant \in {Key(given) : given \in RowsOf(request[r].user)} : grant[1] # request[r].team}
                       s    == [request[r] EXCEPT !.pc = "check", !.wish = request[r].wish \cup kept]
            <3>0. kept \subseteq Grant /\ \A grant \in kept : \E given \in RowsOf(request[r].user) : grant[1] = given.team
                BY <1>0 DEF Key, RowsOf, Row, Grant
            <3>1. request' = [request EXCEPT ![r] = s] /\ UNCHANGED member
                BY <2>6 DEF MergeAssignments
            <3> HIDE DEF kept
            <3>2. /\ s \in RequestState /\ s.pc = "check" /\ s.user = request[r].user /\ s.kind = request[r].kind
                  /\ s.wish = request[r].wish \cup kept /\ s.user \in User
                BY <1>0, <3>0 DEF RequestState
            <3> HIDE DEF s
            <3>3. request'[r] = s
                BY <1>0, <3>1
            <3>4. ASSUME WishIsSound(r), RowsAreSettled(r) PROVE WishIsSound(r)' /\ RowsAreSettled(r)'
                <4>1. request[r].pc = "merge"
                    BY <2>6 DEF MergeAssignments, At
                <4>2. \A grant \in s.wish : Belongs(s.user, grant[1])
                    BY <3>0, <3>2, <3>4, <4>1 DEF WishIsSound, RowsAreSettled, RowsAreMembers, Belongs
                <4> QED
                    BY <2>1, <3>1, <3>2, <3>3, <4>2 DEF WishIsSound, RowsAreSettled, Belongs
            <3> QED
                BY <1>0, <1>1, <2>1, <2>2, <3>1, <3>2, <3>4, ContinueStep
        <2>7. CASE Expel(r)
            <3>1. PICK s \in RequestState :
                    /\ request' = [request EXCEPT ![r] = s]
                    /\ s.pc = "done" /\ s.user = request[r].user /\ s.kind = request[r].kind
                    /\ s.user \in User /\ s.team = request[r].team /\ s.team \in Team /\ request'[r] = s
                BY <1>0, <2>7, Went DEF Expel
            <3>2. member' = member \ {<<s.user, s.team>>}
                BY <2>7, <3>1 DEF Expel
            <3>3. ASSUME RowsAreSettled(r) PROVE RowsAreMembers(s.user)'
                <4>1. request[r].pc = "expel"
                    BY <2>7 DEF Expel, At
                <4> QED
                    BY <2>2, <3>1, <3>2, <3>3, <4>1 DEF RowsAreSettled, RowsAreMembers
            <3>4. /\ member' \subseteq User \X Team
                  /\ \A v \in User, t \in Team : v # s.user => (<<v, t>> \in member' <=> <<v, t>> \in member)
                BY <1>0, <3>2
            <3> QED
                BY <1>0, <1>1, <2>1, <2>2, <3>1, <3>3, <3>4, ContinueStep
        <2> QED
            BY <2>4, <2>5, <2>6, <2>7
    <1> QED
        BY <1>2, <1>3

\* The user's assignments change.
LEMMA AssignmentsChange ==
    ASSUME AccessInv, NEW r \in Request,
           \/ RevokeAssignments(r) \/ CheckGroups(r) \/ ClearAssignments(r) \/ InsertAssignments(r)
           \/ SaveAtLogin(r)
    PROVE  AccessInv'
    <1>0. /\ RequestsTypeOK /\ member \subseteq User \X Team /\ assigned \subseteq Row /\ stale \subseteq User
          /\ request \in [Request -> RequestState] /\ request[r] \in RequestState /\ request[r].user \in User
          /\ request[r].wish \subseteq Grant /\ request[r].held \subseteq Row
        BY DEF AccessInv, RequestsTypeOK, RequestState
    <1>1. Active(r) /\ request[r].kind # "hasPermissions" /\ request[r].pc # "next"
        BY DEF AccessInv, KindsAgree, Active, RevokeAssignments, CheckGroups, ClearAssignments, InsertAssignments,
               SaveAtLogin, At
    <1>2. CASE Fail(r)
        BY <1>1, <1>2, RequestFails
    <1>4. CASE RevokeAssignments(r)
        <2>1. PICK s \in RequestState :
                /\ request' = [request EXCEPT ![r] = s]
                /\ s.pc = "expel" /\ s.user = request[r].user /\ s.kind = request[r].kind
                /\ s.team = request[r].team /\ request'[r] = s
            BY <1>0, <1>4, Went DEF RevokeAssignments
        <2>2. /\ assigned' = {given \in assigned : ~ (given.user = s.user /\ given.team = s.team)}
              /\ UNCHANGED <<team, member, group, cached, torn>>
            BY <1>4, <2>1 DEF RevokeAssignments
        <2>3. /\ assigned' \subseteq Row /\ \A v \in User : v # s.user => RowsOf(v)' = RowsOf(v)
              /\ \A given \in RowsOf(s.user)' : given \in RowsOf(s.user) /\ given.team # s.team
            BY <1>0, <2>2 DEF RowsOf
        <2>4. /\ stale \subseteq stale' /\ stale' \subseteq User
              /\ cached[s.user].hit => Granted(RowsOf(s.user))' = Granted(RowsOf(s.user)) \/ s.user \in stale'
              /\ ~ Changes(r)
            BY <1>0, <1>4, <2>1 DEF RevokeAssignments, Unannounced, Changes, At
        <2>5. ASSUME RowsAreSettled(r) PROVE WishIsSound(r)' /\ RowsAreSettled(r)'
            <3>1. request[r].pc = "revoke"
                BY <1>4 DEF RevokeAssignments, At
            <3>2. RowsAreMembers(s.user)'
                BY <2>1, <2>2, <2>3, <2>5, <3>1 DEF RowsAreSettled, RowsAreMembers
            <3> QED
                BY <2>1, <2>3, <3>2 DEF WishIsSound, RowsAreSettled
        <2> QED
            BY <1>0, <1>1, <2>1, <2>2, <2>3, <2>4, <2>5, ContinueStep
    <1>5. CASE CheckGroups(r) /\ ~ Fail(r)
        <2>1. PICK s \in RequestState :
                /\ request' = [request EXCEPT ![r] = s]
                /\ s.pc = "clear" /\ s.user = request[r].user /\ s.kind = request[r].kind
                /\ s.wish = request[r].wish /\ request'[r] = s
            BY <1>0, <1>5, Went DEF CheckGroups
        <2>2. UNCHANGED <<team, member, group, assigned, cached, stale, torn>>
            BY <1>5, <2>1 DEF CheckGroups, dataVars
        <2>3. ~ Changes(r) /\ \A v \in User : RowsOf(v)' = RowsOf(v) /\ Granted(RowsOf(v))' = Granted(RowsOf(v))
            BY <1>5, <2>2 DEF RowsOf, Granted, Changes, CheckGroups, At
        <2>4. ASSUME WishIsSound(r) PROVE WishIsSound(r)' /\ RowsAreSettled(r)'
            <3>1. request[r].pc = "check"
                BY <1>5 DEF CheckGroups, At
            <3> QED
                BY <2>1, <2>2, <2>4, <3>1 DEF WishIsSound, RowsAreSettled, Belongs
        <2> QED
            BY <1>0, <1>1, <2>1, <2>2, <2>3, <2>4, ContinueStep
    <1>6. CASE ClearAssignments(r)
        <2>1. PICK s \in RequestState :
                /\ request' = [request EXCEPT ![r] = s]
                /\ s.pc = "insert" /\ s.user = request[r].user /\ s.kind = request[r].kind
                /\ s.wish = request[r].wish /\ request'[r] = s
            BY <1>0, <1>6, Went DEF ClearAssignments
        <2>2. assigned' = assigned \ RowsOf(s.user) /\ UNCHANGED <<team, member, group, cached, stale, torn>>
            BY <1>6, <2>1 DEF ClearAssignments
        <2>3. /\ assigned' \subseteq Row /\ \A v \in User : v # s.user => RowsOf(v)' = RowsOf(v)
              /\ RowsOf(s.user)' = {}
            BY <1>0, <2>2 DEF RowsOf
        <2>4. ASSUME WishIsSound(r) PROVE WishIsSound(r)' /\ RowsAreSettled(r)'
            <3>1. request[r].pc = "clear"
                BY <1>6 DEF ClearAssignments, At
            <3> QED
                BY <2>1, <2>2, <2>3, <2>4, <3>1 DEF WishIsSound, RowsAreSettled, Belongs
        <2> QED
            BY <1>0, <1>1, <2>1, <2>2, <2>3, <2>4, ContinueStep
    <1>7. CASE InsertAssignments(r) /\ ~ Fail(r)
        <2>1. PICK s \in RequestState :
                /\ request' = [request EXCEPT ![r] = s]
                /\ s.pc = "evict" /\ s.user = request[r].user /\ s.kind = request[r].kind
                /\ s.wish = request[r].wish /\ request'[r] = s
            BY <1>0, <1>7, Went DEF InsertAssignments
        <2> DEFINE new == {[user |-> s.user, team |-> grant[1], group |-> grant[2], by |-> r] : grant \in s.wish}
        <2>2. /\ assigned' = assigned \cup new /\ UNCHANGED <<team, member, group, cached, stale, torn>>
              /\ {grant[1] : grant \in s.wish} \subseteq LiveTeams
            BY <1>7, <2>1 DEF InsertAssignments
        <2>3. \A given \in new : /\ given \in Row /\ given.user = s.user
                               /\ \E grant \in s.wish : given.team = grant[1] /\ given.group = grant[2]
            BY <1>0, <2>1 DEF Grant, Row
        <2> HIDE DEF new
        <2>4. /\ assigned' \subseteq Row /\ \A v \in User : v # s.user => RowsOf(v)' = RowsOf(v)
              /\ RowsOf(s.user)' = RowsOf(s.user) \cup new
            BY <1>0, <2>2, <2>3 DEF RowsOf
        <2>5. ASSUME WishIsSound(r), RowsAreSettled(r)
              PROVE  /\ WishIsSound(r)' /\ RowsAreSettled(r)'
            <3>1. request[r].pc = "insert"
                BY <1>7 DEF InsertAssignments, At
            <3>2. RowsOf(s.user)' = new
                BY <2>1, <2>4, <2>5, <3>1 DEF RowsAreSettled
            <3>3. \A grant \in s.wish : <<s.user, grant[1]>> \in member
                BY <2>1, <2>2, <2>5, <3>1 DEF WishIsSound, Belongs, LiveTeams
            <3>4. \A given \in new : <<s.user, given.team>> \in member
                BY <2>3, <3>3
            <3>5. RowsAreMembers(s.user)'
                BY <2>2, <3>2, <3>4 DEF RowsAreMembers
            <3> QED
                BY <2>1, <3>2, <3>4, <3>5 DEF WishIsSound, RowsAreSettled
        <2> QED
            BY <1>0, <1>1, <2>1, <2>2, <2>4, <2>5, ContinueStep
    <1>8. CASE SaveAtLogin(r) /\ ~ Fail(r)
        <2>1. PICK s \in RequestState :
                /\ request' = [request EXCEPT ![r] = s]
                /\ s.pc = "done" /\ s.user = request[r].user /\ s.kind = request[r].kind
                /\ s.held = request[r].held /\ request'[r] = s
            BY <1>0, <1>8, Went DEF SaveAtLogin
        <2>2. /\ assigned' = (assigned \ RowsOf(s.user)) \cup s.held
              /\ UNCHANGED <<team, member, group, cached, torn>> /\ request[r].pc = "write"
            BY <1>8, <2>1 DEF SaveAtLogin, At
        <2>3. s.held \subseteq Row /\ \A given \in s.held : given.user = s.user
            BY <1>0, <2>1, <2>2 DEF AccessInv, KindsAgree
        <2>4. assigned' \subseteq Row /\ \A v \in User : v # s.user => RowsOf(v)' = RowsOf(v)
            BY <1>0, <2>2, <2>3 DEF RowsOf
        <2>5. /\ stale \subseteq stale' /\ stale' \subseteq User
              /\ cached[s.user].hit => Granted(RowsOf(s.user))' = Granted(RowsOf(s.user)) \/ s.user \in stale'
              /\ ~ Changes(r)
            BY <1>0, <1>8, <2>1, <2>2 DEF SaveAtLogin, Unannounced, Changes
        <2>6. ASSUME RowsAreSettled(r)
              PROVE  RowsAreMembers(s.user)' /\ RowsOf(s.user)' = RowsOf(s.user)
            <3>1. RowsOf(s.user)' = RowsOf(s.user)
                BY <2>1, <2>2, <2>6 DEF RowsAreSettled, RowsOf
            <3> QED
                BY <2>1, <2>2, <2>6, <3>1 DEF RowsAreSettled, RowsAreMembers
        <2> QED
            BY <1>0, <1>1, <2>1, <2>2, <2>4, <2>5, <2>6, ContinueStep, ZenonT(30)
    <1> QED
        BY <1>2, <1>4, <1>5, <1>6, <1>7, <1>8

\* The cached permissions are evicted, and the user is left as he is.
LEMMA Evicted ==
    ASSUME AccessInv, NEW r \in Request, EvictPermissions(r)
    PROVE  AccessInv'
    <1>0. /\ RequestsTypeOK /\ assigned \subseteq Row /\ cached \in [User -> Cached] /\ stale \subseteq User
          /\ request \in [Request -> RequestState] /\ request[r].pc = "evict" /\ request[r].user \in User
        BY DEF AccessInv, RequestsTypeOK, RequestState, EvictPermissions, At
    <1>1. PICK s \in RequestState :
            /\ request' = [request EXCEPT ![r] = s] /\ s.pc \in {"next", "done"} /\ s.user = request[r].user
            /\ s.kind = request[r].kind /\ request'[r] = s
        <2>1. CASE GoTo(r, "next")
            BY <1>0, <2>1, Went
        <2>2. CASE GoTo(r, "done")
            BY <1>0, <2>2, Went
        <2> QED
            BY <2>1, <2>2 DEF EvictPermissions, AfterEvict
    <1>2. /\ UNCHANGED <<team, member, group, assigned, torn>>
          /\ cached' = [cached EXCEPT ![s.user] = NotCached] /\ stale' = stale \ {s.user}
        BY <1>1 DEF EvictPermissions
    <1>3. request[r].kind # "hasPermissions"
        BY <1>0 DEF AccessInv, KindsAgree
    <1>4. \A v \in User : RowsOf(v)' = RowsOf(v) /\ Granted(RowsOf(v))' = Granted(RowsOf(v))
        BY <1>2 DEF RowsOf, Granted
    <1>5. RequestsTypeOK'
        BY <1>0, <1>1, <1>2, AccessTypes DEF RequestsTypeOK
    <1>6. CacheFollows'
        <2> SUFFICES ASSUME NEW v \in User, cached'[v].hit, v \notin stale',
                            \A q \in Request : ~ (Handles(q, v)' /\ Changes(q)')
                     PROVE  cached'[v].grants = Granted(RowsOf(v))'
            BY DEF CacheFollows
        <2>1. v # s.user
            BY <1>0, <1>2, AccessTypes
        <2>2. cached'[v] = cached[v] /\ v \notin stale
            BY <1>0, <1>2, <2>1
        <2>3. \A q \in Request : ~ (Handles(q, v) /\ Changes(q))
            BY <1>0, <1>1, <2>1 DEF Handles, Active, Changes
        <2> QED
            BY <1>4, <2>2, <2>3 DEF AccessInv, CacheFollows
    <1>7. Works(r, s.user) /\ ~ Works(r, s.user)' /\ \A v \in User : Works(r, v) => v = s.user
        BY <1>0, <1>1, <1>3 DEF Works, Handles, Active
    <1>8. s.user \notin torn => RowsAreMembers(s.user)'
        <2> SUFFICES ASSUME s.user \notin torn
                     PROVE  RowsAreMembers(s.user)'
            OBVIOUS
        <2>1. RowsAreMembers(s.user)
            BY <1>0, <1>1, <1>7 DEF AccessInv, WorkIsSound, RowsAreSettled
        <2>3. RowsAreMembers(s.user)'
            BY <1>2, <1>4, <2>1 DEF RowsAreMembers, RowsOf
        <2> QED
            BY <2>3
    <1>9. KindsAgree' /\ WorksAlone' /\ WorkIsSound' /\ RestIsSound'
        BY <1>0, <1>1, <1>2, <1>3, <1>4, <1>7, <1>8, UserStep
    <1> QED
        BY <1>5, <1>6, <1>9 DEF AccessInv

\* A team is created or deleted, or the last administrator has got it.
LEMMA TeamsChange ==
    ASSUME AccessInv, NEW r \in Request, CreateTeam(r) \/ NextAdmin(r) \/ DeleteTeam(r)
    PROVE  AccessInv'
    <1>0. /\ RequestsTypeOK /\ member \subseteq User \X Team /\ assigned \subseteq Row /\ team \in [Team -> Lifetime]
          /\ request \in [Request -> RequestState] /\ request[r].pc \in {"idle", "next"}
        BY DEF AccessInv, RequestsTypeOK, CreateTeam, NextAdmin, DeleteTeam, Idle, At
    <1>1. ~ Changes(r) /\ \A v \in User : ~ Works(r, v)
        BY <1>0 DEF Works, Handles, Active, Changes
    <1>2. CASE CreateTeam(r)
        <2>1. PICK t \in Team : team[t] = "absent" /\ team' = [team EXCEPT ![t] = "live"]
            BY <1>2 DEF CreateTeam
        <2> DEFINE s == [NoRequest EXCEPT !.kind = "createTeam", !.pc = "next", !.todo = AdminUsers]
        <2>2. /\ request' = [request EXCEPT ![r] = s] /\ UNCHANGED <<member, group, assigned, cached, stale, torn>>
              /\ "createTeam" \in RequestKind /\ AdminUsers \in SUBSET User
            BY <1>2 DEF CreateTeam, AdminUsers
        <2>3. s \in RequestState /\ s.pc = "next" /\ s.kind = "createTeam"
            BY <2>2, AccessTypes DEF RequestState
        <2> HIDE DEF s
        <2>4. RequestsTypeOK'
            BY <1>0, <2>1, <2>2, <2>3 DEF RequestsTypeOK, Lifetime
        <2>5. CacheFollows'
            <3>1. \A v \in User : Granted(RowsOf(v))' = Granted(RowsOf(v))
                BY <2>2 DEF Granted, RowsOf
            <3> QED
                BY <1>1, <2>2, <2>3, <3>1, CacheKept
        <2>6. \A v \in User : ~ Works(r, v)'
            BY <1>0, <2>2, <2>3 DEF Works
        <2>7. \A v \in User, x \in Team : Belongs(v, x) => Belongs(v, x)'
            BY <1>0, <2>1, <2>2 DEF Belongs
        <2>8. KindsAgree' /\ WorksAlone' /\ WorkIsSound' /\ RestIsSound'
            BY <1>1, <2>2, <2>3, <2>6, <2>7, QuietStep
        <2> QED
            BY <2>4, <2>5, <2>8 DEF AccessInv
    <1>3. ASSUME NEW u \in request[r].todo, Starts(r, "createTeam", u, AdminOf(u, request[r].todo \ {u})), NextAdmin(r)
          PROVE  AccessInv'
        <2>1. u \in User /\ request[r].todo \ {u} \in SUBSET User
            BY <1>0, <1>3 DEF RequestState
        <2>2. UNCHANGED <<team, member, group, assigned, cached, stale>>
            BY <1>3 DEF NextAdmin, dataVars
        <2> QED
            BY <1>3, <2>1, <2>2, AdminStarts
    <1>4. CASE (NextAdmin(r) \/ DeleteTeam(r)) /\ GoTo(r, "done")
        <2>1. PICK s \in RequestState :
                request' = [request EXCEPT ![r] = s] /\ s.pc = "done" /\ request'[r] = s
            BY <1>0, <1>4, Went
        <2>2. /\ UNCHANGED <<group, assigned, cached, stale>> /\ torn \subseteq torn' /\ torn' \subseteq User
              /\ \A v \in User : Granted(RowsOf(v))' = Granted(RowsOf(v))
            <3>1. UNCHANGED <<group, assigned, cached, stale>>
                BY <1>4 DEF NextAdmin, DeleteTeam, dataVars
            <3>2. torn' = torn
                <4>1. CASE DeleteTeam(r)
                    BY <4>1 DEF DeleteTeam
                <4>2. CASE NextAdmin(r)
                    <5>1. CASE UNCHANGED torn
                        BY <5>1
                    <5>2. CASE \E u \in request[r].todo : Starts(r, "createTeam", u, AdminOf(u, request[r].todo \ {u}))
                        <6>1. PICK u \in request[r].todo : Starts(r, "createTeam", u, AdminOf(u, request[r].todo \ {u}))
                            BY <5>2
                        <6>2. request'[r].pc = "join"
                            BY <1>0, <6>1 DEF Starts, AdminOf, NoRequest
                        <6> QED
                            BY <2>1, <6>2
                    <5> QED
                        BY <4>2, <5>1, <5>2 DEF NextAdmin
                <4> QED
                    BY <1>4, <4>1, <4>2
            <3> QED
                BY <1>0, <3>1, <3>2 DEF Granted, RowsOf, RequestsTypeOK
        <2>3. /\ member' \subseteq User \X Team /\ team' \in [Team -> Lifetime]
              /\ \A v \in User, x \in Team :
                   /\ Belongs(v, x) => Belongs(v, x)'
                   /\ <<v, x>> \in member /\ (\E given \in assigned : given.team = x) => <<v, x>> \in member'
            <3>1. CASE NextAdmin(r)
                BY <1>0, <3>1 DEF NextAdmin, dataVars, Belongs
            <3>2. CASE DeleteTeam(r)
                <4>1. PICK t \in LiveTeams :
                        /\ \A given \in assigned : given.team # t
                        /\ team' = [team EXCEPT ![t] = "deleted"]
                        /\ member' = {m \in member : m[2] # t}
                    BY <3>2 DEF DeleteTeam
                <4> QED
                    BY <1>0, <4>1 DEF Belongs, LiveTeams, Lifetime
            <3> QED
                BY <1>4, <3>1, <3>2
        <2>4. RequestsTypeOK'
            BY <1>0, <2>1, <2>2, <2>3 DEF RequestsTypeOK
        <2>5. CacheFollows'
            BY <1>1, <2>1, <2>2, CacheKept
        <2>6. \A v \in User : ~ Works(r, v)'
            BY <2>1 DEF Works, Handles, Active
        <2>7. KindsAgree' /\ WorksAlone' /\ WorkIsSound' /\ RestIsSound'
            BY <1>1, <2>1, <2>2, <2>3, <2>6, QuietStep
        <2> QED
            BY <2>4, <2>5, <2>7 DEF AccessInv
    <1> QED
        BY <1>2, <1>3, <1>4 DEF NextAdmin, DeleteTeam

\* A group is saved, or its assignments are counted.
LEMMA GroupsChange ==
    ASSUME AccessInv, NEW r \in Request, SaveGroup(r) \/ CountAssignments(r)
    PROVE  AccessInv'
    <1>0. /\ RequestsTypeOK /\ assigned \subseteq Row /\ torn \subseteq User /\ stale \subseteq User
          /\ group \in [Group -> [state : Lifetime, permissions : SUBSET Permission]]
          /\ request \in [Request -> RequestState] /\ request[r].pc = "idle"
        BY DEF AccessInv, RequestsTypeOK, SaveGroup, CountAssignments, Idle
    <1>1. PICK s \in RequestState :
            request' = [request EXCEPT ![r] = s] /\ s.pc = "done" /\ request'[r] = s
        BY <1>0, Went DEF SaveGroup, CountAssignments
    <1>2. ~ Changes(r) /\ \A v \in User : ~ Works(r, v) /\ ~ Works(r, v)'
        BY <1>0, <1>1 DEF Works, Handles, Active, Changes
    <1>3. UNCHANGED <<team, member, assigned, cached>>
        BY DEF SaveGroup, CountAssignments
    <1>4. /\ group' \in [Group -> [state : Lifetime, permissions : SUBSET Permission]]
          /\ stale \subseteq stale' /\ stale' \subseteq User /\ torn \subseteq torn' /\ torn' \subseteq User
          /\ \A v \in User : cached[v].hit => Granted(RowsOf(v))' = Granted(RowsOf(v)) \/ v \in stale'
        <2>1. CASE SaveGroup(r)
            <3>1. PICK g \in Group, permissions \in SUBSET Permission :
                    group' = [group EXCEPT ![g] = [state |-> IF @.state = "absent" THEN "live" ELSE @.state,
                                                   permissions |-> permissions]]
                BY <2>1 DEF SaveGroup
            <3> DEFINE saved == [state |-> IF group[g].state = "absent" THEN "live" ELSE group[g].state,
                                 permissions |-> permissions]
            <3>2. group' = [group EXCEPT ![g] = saved]
                BY <3>1
            <3>3. saved \in [state : Lifetime, permissions : SUBSET Permission]
                BY <1>0 DEF Lifetime
            <3> HIDE DEF saved
            <3>4. group' \in [Group -> [state : Lifetime, permissions : SUBSET Permission]]
                BY <1>0, <3>2, <3>3
            <3>5. /\ torn' = torn
                  /\ stale' = stale \cup {u \in User : cached[u].hit /\ Granted(RowsOf(u))' # Granted(RowsOf(u))}
                BY <2>1 DEF SaveGroup, Unannounced
            <3>6. \A v \in User : cached[v].hit => Granted(RowsOf(v))' = Granted(RowsOf(v)) \/ v \in stale'
                BY <3>5
            <3> QED
                BY <1>0, <3>4, <3>5, <3>6
        <2>2. CASE CountAssignments(r)
            <3>1. UNCHANGED <<group, stale, torn>>
                BY <2>2 DEF CountAssignments
            <3> QED
                BY <1>0, <1>3, <3>1 DEF Granted, RowsOf
        <2> QED
            BY <2>1, <2>2
    <1>5. RequestsTypeOK'
        BY <1>0, <1>1, <1>3, <1>4 DEF RequestsTypeOK
    <1>6. CacheFollows'
        BY <1>1, <1>2, <1>3, <1>4, CacheKept
    <1>7. KindsAgree' /\ WorksAlone' /\ WorkIsSound' /\ RestIsSound'
        BY <1>1, <1>2, <1>3, <1>4, QuietStep DEF Belongs
    <1> QED
        BY <1>5, <1>6, <1>7 DEF AccessInv

\* A group is deleted, or left after all: nobody's work is touched.
LEMMA GroupDropped ==
    ASSUME AccessInv, NEW g \in Group, DropGroup(g) \/ KeepGroup(g)
    PROVE  AccessInv'
    <1>0. /\ RequestsTypeOK /\ assigned \subseteq Row
          /\ group \in [Group -> [state : Lifetime, permissions : SUBSET Permission]]
        BY DEF AccessInv, RequestsTypeOK
    <1>1. UNCHANGED <<team, member, assigned, cached, request, stale, torn>>
        BY DEF DropGroup, KeepGroup
    <1>2. /\ group' \in [Group -> [state : Lifetime, permissions : SUBSET Permission]]
          /\ \A x \in Group : group'[x].permissions = group[x].permissions
        <2>1. CASE DropGroup(g)
            <3> DEFINE saved == [group[g] EXCEPT !.state = "deleted"]
            <3>1. /\ saved \in [state : Lifetime, permissions : SUBSET Permission]
                  /\ saved.permissions = group[g].permissions /\ group' = [group EXCEPT ![g] = saved]
                BY <1>0, <2>1 DEF Lifetime, DropGroup
            <3> HIDE DEF saved
            <3> QED
                BY <1>0, <3>1
        <2>2. CASE KeepGroup(g)
            BY <1>0, <2>2 DEF KeepGroup
        <2> QED
            BY <2>1, <2>2
    <1>3. \A v \in User : RowsOf(v)' = RowsOf(v) /\ Granted(RowsOf(v))' = Granted(RowsOf(v))
        BY <1>0, <1>1, <1>2 DEF Granted, RowsOf, Row
    <1>4. RequestsTypeOK'
        BY <1>0, <1>1, <1>2 DEF RequestsTypeOK
    <1>5. CacheFollows'
        BY <1>1, <1>3 DEF AccessInv, CacheFollows, Handles, Active, Changes
    <1>6. KindsAgree' /\ WorksAlone' /\ WorkIsSound' /\ RestIsSound'
        BY <1>1 DEF AccessInv, KindsAgree, WorksAlone, WorkIsSound, RestIsSound, WishIsSound, RowsAreSettled,
                    RowsAreMembers, Belongs, Works, Handles, Active, RowsOf
    <1> QED
        BY <1>4, <1>5, <1>6 DEF AccessInv

\* Permissions are checked, against what is cached or against the assignments.
LEMMA PermissionsChecked ==
    ASSUME AccessInv, NEW r \in Request, HasPermissions(r) \/ ReadPermissions(r)
    PROVE  AccessInv'
    <1>0. /\ RequestsTypeOK /\ assigned \subseteq Row /\ torn \subseteq User
          /\ group \in [Group -> [state : Lifetime, permissions : SUBSET Permission]]
          /\ request \in [Request -> RequestState] /\ request[r].pc = "idle"
        BY DEF AccessInv, RequestsTypeOK, HasPermissions, ReadPermissions, Idle
    <1>1. /\ UNCHANGED <<team, member, group, assigned, cached, stale>>
          /\ \A v \in User : Granted(RowsOf(v))' = Granted(RowsOf(v))
        BY DEF HasPermissions, ReadPermissions, dataVars, Granted, RowsOf
    <1>2. \A grants, t : Verdicts(grants, t) \subseteq {"granted", "denied"}
        BY DEF Verdicts
    <1>3. PICK u \in User, state \in RequestState :
            state.pc \in {"fill", "done"} /\ Starts(r, "hasPermissions", u, state)
        <2>1. CASE HasPermissions(r)
            <3>1. PICK u \in User, t \in Team, verdict \in {"granted", "denied"} :
                    Starts(r, "hasPermissions", u, [NoRequest EXCEPT !.pc = "done", !.team = t, !.verdict = verdict])
                BY <1>2, <2>1 DEF HasPermissions
            <3> DEFINE state == [NoRequest EXCEPT !.pc = "done", !.team = t, !.verdict = verdict]
            <3>2. state \in RequestState /\ state.pc = "done"
                BY AccessTypes DEF RequestState
            <3> QED
                BY <3>1, <3>2
        <2>2. CASE ReadPermissions(r)
            <3>1. PICK u \in User, t \in Team, verdict \in {"granted", "denied"} :
                    Starts(r, "hasPermissions", u, [NoRequest EXCEPT !.pc = "fill", !.team = t,
                                                       !.read = Granted(RowsOf(u)), !.verdict = verdict])
                BY <1>2, <2>2 DEF ReadPermissions
            <3> DEFINE read  == Granted(RowsOf(u))
                       state == [NoRequest EXCEPT !.pc = "fill", !.team = t, !.read = read, !.verdict = verdict]
            <3>2. read \in SUBSET CachedGrant
                BY <1>0 DEF Granted, RowsOf, Row, CachedGrant
            <3>3. Starts(r, "hasPermissions", u, state)
                BY <3>1
            <3> HIDE DEF read
            <3>4. state \in RequestState /\ state.pc = "fill"
                BY <3>2, AccessTypes DEF RequestState
            <3> HIDE DEF state
            <3> QED
                BY <3>3, <3>4
        <2> QED
            BY <2>1, <2>2
    <1>4. PICK s \in RequestState :
            /\ s.kind = "hasPermissions" /\ s.user = u /\ s.pc = state.pc
            /\ s.wish = state.wish /\ s.leave = state.leave /\ s.join = state.join
            /\ s.team = state.team /\ s.held = state.held
            /\ request' = [request EXCEPT ![r] = s]
            /\ torn \subseteq torn' /\ torn' \subseteq torn \cup {u}
            /\ u \in torn' \/ \A q \in Request \ {r} : ~ Handles(q, u)
        BY <1>0, <1>3, Started
    <1>5. request'[r] = s
        BY <1>0, <1>4
    <1>6. ~ Changes(r) /\ \A v \in User : ~ Works(r, v) /\ ~ Works(r, v)'
        BY <1>0, <1>3, <1>4, <1>5 DEF Works, Handles, Active, Changes
    <1>7. RequestsTypeOK'
        BY <1>0, <1>1, <1>4 DEF RequestsTypeOK
    <1>8. CacheFollows'
        BY <1>1, <1>4, <1>6, CacheKept
    <1>9. KindsAgree' /\ WorksAlone' /\ WorkIsSound' /\ RestIsSound'
        BY <1>1, <1>3, <1>4, <1>6, QuietStep DEF Belongs
    <1> QED
        BY <1>7, <1>8, <1>9 DEF AccessInv

\* What was read is cached, whatever the assignments are by then.
LEMMA PermissionsCached ==
    ASSUME AccessInv, NEW r \in Request, FillCache(r)
    PROVE  AccessInv'
    <1>0. /\ RequestsTypeOK /\ cached \in [User -> Cached] /\ stale \subseteq User
          /\ request \in [Request -> RequestState] /\ request[r].pc = "fill"
          /\ request[r].user \in User /\ request[r].read \subseteq CachedGrant
        BY DEF AccessInv, RequestsTypeOK, FillCache, At, RequestState
    <1>1. PICK s \in RequestState :
            /\ request' = [request EXCEPT ![r] = s] /\ s.pc = "done" /\ request'[r] = s
            /\ s.user = request[r].user
        BY <1>0, Went DEF FillCache
    <1>2. PICK read \in SUBSET CachedGrant : read = request[r].read
        BY <1>0
    <1>3. /\ UNCHANGED <<team, member, group, assigned, torn>>
          /\ cached' = [cached EXCEPT ![s.user] = [hit |-> TRUE, grants |-> read]]
          /\ stale' = IF read = Granted(RowsOf(s.user)) THEN stale \ {s.user} ELSE stale \cup {s.user}
        BY <1>1, <1>2 DEF FillCache
    <1>4. \A v \in User : Granted(RowsOf(v))' = Granted(RowsOf(v))
        BY <1>3 DEF Granted, RowsOf
    <1>5. RequestsTypeOK'
        <2>1. cached' \in [User -> Cached] /\ stale' \subseteq User
            BY <1>0, <1>1, <1>3 DEF Cached
        <2> QED
            BY <1>0, <1>1, <1>3, <2>1 DEF RequestsTypeOK
    <1>6. CacheFollows'
        <2> SUFFICES ASSUME NEW v \in User, cached'[v].hit, v \notin stale',
                            \A q \in Request : ~ (Handles(q, v)' /\ Changes(q)')
                     PROVE  cached'[v].grants = Granted(RowsOf(v))'
            BY DEF CacheFollows
        <2>1. CASE v = s.user
            BY <1>0, <1>3, <1>4, <2>1
        <2>2. CASE v # s.user
            <3>1. cached'[v] = cached[v] /\ v \notin stale
                BY <1>0, <1>3, <2>2
            <3>2. \A q \in Request : ~ (Handles(q, v) /\ Changes(q))
                BY <1>0, <1>1, <2>2 DEF Handles, Active, Changes
            <3> QED
                BY <1>4, <3>1, <3>2 DEF AccessInv, CacheFollows
        <2> QED
            BY <2>1, <2>2
    <1>7. \A v \in User : ~ Works(r, v) /\ ~ Works(r, v)'
        BY <1>0, <1>1 DEF AccessInv, KindsAgree, Works, Handles, Active
    <1>8. KindsAgree' /\ WorksAlone' /\ WorkIsSound' /\ RestIsSound'
        BY <1>1, <1>3, <1>7, QuietStep DEF Belongs
    <1> QED
        BY <1>5, <1>6, <1>8 DEF AccessInv

LEMMA InitAccess == AccessInit => AccessInv
    <1> SUFFICES ASSUME AccessInit PROVE AccessInv
        OBVIOUS
    <1>0. /\ AdminGroup \in Group /\ Founder \in User /\ Colleague \in User /\ FirstTeam \in Team
          /\ NoRequest \in RequestState /\ NotCached \in Cached /\ ~ NotCached.hit
        BY AccessAssumption, AccessTypes DEF AccessAssumption
    <1>1. PICK made \in SUBSET (Group \ {AdminGroup}) :
            /\ group = [g \in Group |->
                 CASE g = AdminGroup -> [state |-> "live", permissions |-> {"all"}]
                   [] g \in made     -> [state |-> "live", permissions |-> {"read"}]
                   [] OTHER          -> [state |-> "absent", permissions |-> {}]]
            /\ assigned = {SeedRow(Founder, AdminGroup)} \cup {SeedRow(Colleague, g) : g \in made}
        BY DEF AccessInit
    <1>2. /\ group \in [Group -> [state : Lifetime, permissions : SUBSET Permission]]
          /\ group[AdminGroup].state = "live"
        BY <1>0, <1>1 DEF Lifetime, Permission
    <1>3. \A given \in assigned : /\ given \in Row /\ given.team = FirstTeam /\ given.user \in {Founder, Colleague}
        BY <1>0, <1>1, <1>2 DEF SeedRow, Row
    <1>4. /\ member = {<<Founder, FirstTeam>>, <<Colleague, FirstTeam>>}
          /\ cached = [u \in User |-> NotCached] /\ request = [q \in Request |-> NoRequest]
          /\ team = [t \in Team |-> IF t = FirstTeam THEN "live" ELSE "absent"] /\ stale = {} /\ torn = {}
        BY DEF AccessInit
    <1>5. RequestsTypeOK
        BY <1>0, <1>2, <1>3, <1>4 DEF RequestsTypeOK, Lifetime
    <1>6. CacheFollows
        BY <1>0, <1>4 DEF CacheFollows
    <1>7. \A q \in Request : request[q].pc = "idle" /\ \A u \in User : ~ Works(q, u)
        BY <1>4 DEF NoRequest, Works, Handles, Active
    <1>8. KindsAgree /\ WorksAlone /\ WorkIsSound
        BY <1>7 DEF KindsAgree, WorksAlone, WorkIsSound
    <1>9. RestIsSound
        BY <1>3, <1>4 DEF RestIsSound, RowsAreMembers, RowsOf
    <1> QED
        BY <1>5, <1>6, <1>8, <1>9 DEF AccessInv

LEMMA AccessStep == AccessInv /\ [AccessNext]_accessVars => AccessInv'
    <1> SUFFICES ASSUME AccessInv, [AccessNext]_accessVars PROVE AccessInv'
        OBVIOUS
    <1>1. ASSUME NEW r \in Request, TeamRequest(r) PROVE AccessInv'
        BY <1>1, RequestsStart, MembershipsChange, AssignmentsChange, TeamsChange DEF TeamRequest
    <1>2. ASSUME NEW r \in Request, PermissionRequest(r) PROVE AccessInv'
        BY <1>2, RequestsStart, AssignmentsChange, Evicted, GroupsChange, PermissionsChecked, PermissionsCached
          DEF PermissionRequest
    <1>3. ASSUME NEW r \in Request, FailRequest(r) PROVE AccessInv'
        BY <1>3, RequestFails DEF FailRequest
    <1>5. ASSUME NEW g \in Group, DropGroup(g) \/ KeepGroup(g) PROVE AccessInv'
        BY <1>5, GroupDropped
    <1>4. CASE UNCHANGED accessVars
        BY <1>4 DEF accessVars, AccessInv, RequestsTypeOK, KindsAgree, CacheFollows, WorksAlone, WorkIsSound,
                    RestIsSound, WishIsSound, RowsAreSettled, RowsAreMembers, Belongs, Works,
                    Handles, Active, Changes, Granted, RowsOf
    <1> QED
        BY <1>1, <1>2, <1>3, <1>4, <1>5 DEF AccessNext

\* A group in use is live, and stays so while its deletion is pending and while a
\* request is about to give it: unless it was given in between.
GroupsKept ==
    /\ counted \subseteq Group /\ belated \subseteq Group /\ GroupsInUseStay
    /\ \A g \in Group \ belated :
         /\ g \in counted => \A given \in assigned : given.group # g
         /\ \A r \in Request : Assigns(r, g) => group[g].state = "live"

LiveGroups == {g \in Group : group[g].state = "live"}

\* What gives a group to nobody and deletes none keeps the groups, if whoever
\* carries a group has been carrying it or finds it live.
LEMMA GroupsQuiet ==
    ASSUME RequestsTypeOK, GroupsKept, UNCHANGED deletion, assigned' \subseteq assigned,
           LiveGroups \subseteq LiveGroups',
           \A r \in Request, g \in Group : Assigns(r, g)' => Assigns(r, g) \/ g \in LiveGroups
    PROVE  GroupsKept'
    <1>1. assigned \subseteq Row /\ counted' = counted /\ belated' = belated
        BY DEF RequestsTypeOK, deletion
    <1>2. \A g \in Group : g \in LiveGroups => group'[g].state = "live"
        BY DEF LiveGroups
    <1>3. GroupsInUseStay'
        BY <1>1, <1>2 DEF GroupsKept, GroupsInUseStay, LiveGroups, Row
    <1>4. ASSUME NEW g \in Group, g \notin belated, NEW r \in Request, Assigns(r, g)'
          PROVE  group'[g].state = "live"
        <2>1. CASE g \in LiveGroups
            BY <1>2, <2>1
        <2>2. CASE Assigns(r, g)
            <3>1. g \in LiveGroups
                BY <1>4, <2>2 DEF GroupsKept, LiveGroups
            <3> QED
                BY <1>2, <3>1
        <2> QED
            BY <1>4, <2>1, <2>2
    <1> QED
        BY <1>1, <1>3, <1>4 DEF GroupsKept

\* A request carries nothing where it neither saves assignments nor is about to.
LEMMA CarriesNothing ==
    ASSUME RequestsTypeOK, NEW r \in Request, NEW s, request' = [request EXCEPT ![r] = s],
           s.pc \notin {"clear", "insert", "write"}
    PROVE  \A q \in Request, g \in Group : Assigns(q, g)' => Assigns(q, g)
    <1>1. request'[r] = s /\ \A q \in Request : q # r => request'[q] = request[q]
        BY DEF RequestsTypeOK
    <1> QED
        BY <1>1 DEF Assigns

\* A request that starts: to save what it has read only at login.
LEMMA StartCarries ==
    ASSUME RequestsTypeOK, NEW r \in Request, NEW kind, NEW u, NEW state \in RequestState,
           Starts(r, kind, u, state), state.pc \notin {"clear", "insert", "write"}
    PROVE  \A q \in Request, g \in Group : Assigns(q, g)' => Assigns(q, g)
    <1> DEFINE s == [state EXCEPT !.kind = kind, !.user = u]
    <1>1. s.pc = state.pc
        BY DEF RequestState
    <1>2. request' = [request EXCEPT ![r] = s]
        BY DEF Starts
    <1> HIDE DEF s
    <1> QED
        BY <1>1, <1>2, CarriesNothing

LEMMA GoesWithNothing ==
    ASSUME RequestsTypeOK, NEW r \in Request, NEW pc, GoTo(r, pc), pc \notin {"clear", "insert", "write"}
    PROVE  \A q \in Request, g \in Group : Assigns(q, g)' => Assigns(q, g)
    <1> DEFINE s == [request[r] EXCEPT !.pc = pc]
    <1>1. s.pc = pc
        BY DEF RequestsTypeOK, RequestState
    <1>2. request' = [request EXCEPT ![r] = s]
        BY DEF GoTo
    <1> HIDE DEF s
    <1> QED
        BY <1>1, <1>2, CarriesNothing

LEMMA TeamGroups ==
    ASSUME RequestsTypeOK, GroupsKept, NEW r \in Request, TeamRequest(r) \/ FailRequest(r)
    PROVE  GroupsKept'
    <1>1. UNCHANGED <<group, deletion>> /\ assigned' \subseteq assigned
        BY DEF TeamRequest, FailRequest, Fail, SetTeams, LeaveTeams, JoinTeams, AddMember, MergeAssignments,
               RemoveMember, RevokeAssignments, Expel, SetAsAdmin, CreateTeam, NextAdmin, DeleteTeam, dataVars
    <1>2. NoRequest \in RequestState
        BY AccessTypes
    <1>3. \A q \in Request, g \in Group : Assigns(q, g)' => Assigns(q, g)
        <2>1. CASE SetTeams(r)
            <3>1. PICK u \in User, wish \in SUBSET Grant, leave \in SUBSET Team, join \in SUBSET Team :
                    Starts(r, "setTeams", u, [NoRequest EXCEPT !.pc = "leave", !.wish = wish,
                                                !.leave = leave, !.join = join])
                <4>1. PICK u \in User, wish \in SUBSET Grant :
                        LET teams == {grant[1] : grant \in wish}
                            now   == {t \in Team : <<u, t>> \in member}
                        IN /\ teams \subseteq LiveTeams
                           /\ Starts(r, "setTeams", u, [NoRequest EXCEPT !.pc = "leave", !.wish = wish,
                                                          !.leave = now \ teams, !.join = teams \ now])
                    BY <2>1 DEF SetTeams
                <4> DEFINE teams == {grant[1] : grant \in wish}
                           now   == {t \in Team : <<u, t>> \in member}
                           leave == now \ teams
                           join  == teams \ now
                <4>2. /\ leave \in SUBSET Team /\ join \in SUBSET Team
                      /\ Starts(r, "setTeams", u, [NoRequest EXCEPT !.pc = "leave", !.wish = wish,
                                                     !.leave = leave, !.join = join])
                    BY <4>1 DEF LiveTeams
                <4> QED
                    BY <4>2
            <3> DEFINE state == [NoRequest EXCEPT !.pc = "leave", !.wish = wish, !.leave = leave, !.join = join]
            <3>2. state \in RequestState /\ state.pc = "leave" /\ Starts(r, "setTeams", u, state)
                BY <1>2, <3>1 DEF RequestState
            <3> HIDE DEF state
            <3> QED
                BY <3>2, StartCarries
        <2>2. CASE AddMember(r)
            <3>1. PICK u \in User, t \in LiveTeams, groups \in SUBSET Group :
                    Starts(r, "addMember", u, [NoRequest EXCEPT !.pc = "merge", !.team = t, !.wish = {t} \X groups])
                BY <2>2 DEF AddMember
            <3> DEFINE wish  == {t} \X groups
                       state == [NoRequest EXCEPT !.pc = "merge", !.team = t, !.wish = wish]
            <3>2. t \in Team /\ wish \in SUBSET Grant /\ Starts(r, "addMember", u, state)
                BY <3>1 DEF LiveTeams, Grant
            <3> HIDE DEF wish
            <3>3. state \in RequestState /\ state.pc = "merge"
                BY <1>2, <3>2 DEF RequestState
            <3> HIDE DEF state
            <3> QED
                BY <3>2, <3>3, StartCarries
        <2>3. CASE RemoveMember(r)
            <3>1. PICK u \in User, t \in LiveTeams :
                    Starts(r, "removeMember", u, [NoRequest EXCEPT !.pc = "revoke", !.team = t])
                BY <2>3 DEF RemoveMember
            <3> DEFINE state == [NoRequest EXCEPT !.pc = "revoke", !.team = t]
            <3>2. state \in RequestState /\ state.pc = "revoke" /\ Starts(r, "removeMember", u, state)
                BY <1>2, <3>1 DEF RequestState, LiveTeams
            <3> HIDE DEF state
            <3> QED
                BY <3>2, StartCarries
        <2>4. ASSUME NEW kind, NEW u \in User, NEW todo \in SUBSET User, Starts(r, kind, u, AdminOf(u, todo))
              PROVE  \A q \in Request, g \in Group : Assigns(q, g)' => Assigns(q, g)
            <3> DEFINE join  == {t \in LiveTeams : <<u, t>> \notin member}
                       wish  == LiveTeams \X {AdminGroup}
                       state == [NoRequest EXCEPT !.pc = "join", !.wish = wish, !.todo = todo, !.join = join]
            <3>1. join \in SUBSET Team /\ wish \in SUBSET Grant /\ Starts(r, kind, u, state)
                BY <2>4, AccessTypes DEF LiveTeams, Grant, AdminOf
            <3> HIDE DEF join, wish
            <3>2. state \in RequestState /\ state.pc = "join"
                BY <1>2, <3>1 DEF RequestState
            <3> HIDE DEF state
            <3> QED
                BY <3>1, <3>2, StartCarries
        <2>5. CASE SetAsAdmin(r)
            BY <2>4, <2>5 DEF SetAsAdmin
        <2>6. CASE NextAdmin(r)
            <3>1. CASE \E u \in request[r].todo : Starts(r, "createTeam", u, AdminOf(u, request[r].todo \ {u}))
                <4>1. request[r].todo \subseteq User
                    BY DEF RequestsTypeOK, RequestState
                <4> QED
                    BY <2>4, <3>1, <4>1
            <3>2. CASE GoTo(r, "done")
                BY <3>2, GoesWithNothing
            <3> QED
                BY <2>6, <3>1, <3>2 DEF NextAdmin
        <2>7. CASE CreateTeam(r)
            <3> DEFINE s == [NoRequest EXCEPT !.kind = "createTeam", !.pc = "next", !.todo = AdminUsers]
            <3>1. s.pc = "next" /\ request' = [request EXCEPT ![r] = s]
                BY <1>2, <2>7 DEF CreateTeam, RequestState
            <3> HIDE DEF s
            <3> QED
                BY <3>1, CarriesNothing
        <2>8. CASE LeaveTeams(r) \/ RevokeAssignments(r) \/ Expel(r) \/ DeleteTeam(r)
            <3>1. PICK pc \in {"join", "expel", "done"} : GoTo(r, pc)
                BY <2>8 DEF LeaveTeams, RevokeAssignments, Expel, DeleteTeam
            <3> QED
                BY <3>1, GoesWithNothing
        <2>9. CASE FailRequest(r) \/ JoinTeams(r)
            <3>1. PICK pc \in {"check", "done"} : GoTo(r, pc)
                BY <2>9 DEF FailRequest, JoinTeams, Fail, GoTo
            <3> QED
                BY <3>1, GoesWithNothing
        <2>10. CASE MergeAssignments(r)
            <3> DEFINE kept == {grant \in {Key(given) : given \in RowsOf(request[r].user)} :
                                  grant[1] # request[r].team}
                       s    == [request[r] EXCEPT !.pc = "check", !.wish = request[r].wish \cup kept]
            <3>1. request' = [request EXCEPT ![r] = s]
                BY <2>10 DEF MergeAssignments
            <3> HIDE DEF kept
            <3>2. s.pc = "check"
                BY DEF RequestsTypeOK, RequestState
            <3> HIDE DEF s
            <3> QED
                BY <3>1, <3>2, CarriesNothing
        <2> QED
            BY <2>1, <2>2, <2>3, <2>5, <2>6, <2>7, <2>8, <2>9, <2>10 DEF TeamRequest
    <1> QED
        BY <1>1, <1>3, GroupsQuiet DEF LiveGroups

LEMMA PermissionGroups ==
    ASSUME RequestsTypeOK, GroupsKept, NEW r \in Request,
           \/ CheckGroups(r) \/ ClearAssignments(r) \/ EvictPermissions(r) \/ SaveGroup(r)
           \/ HasPermissions(r) \/ ReadPermissions(r) \/ FillCache(r) \/ ReadAtLogin(r)
    PROVE  GroupsKept'
    <1>0. /\ request \in [Request -> RequestState] /\ NoRequest \in RequestState /\ assigned \subseteq Row
          /\ group \in [Group -> [state : Lifetime, permissions : SUBSET Permission]]
        BY AccessTypes DEF RequestsTypeOK
    <1>1. UNCHANGED deletion /\ assigned' \subseteq assigned
        BY DEF CheckGroups, ClearAssignments, EvictPermissions, SaveGroup, HasPermissions, ReadPermissions,
               FillCache, ReadAtLogin, Fail, dataVars, deletion
    <1>2. LiveGroups \subseteq LiveGroups'
        <2>1. CASE SaveGroup(r)
            <3>1. PICK g \in Group, permissions \in SUBSET Permission :
                    group' = [group EXCEPT ![g] = [state |-> IF @.state = "absent" THEN "live" ELSE @.state,
                                                   permissions |-> permissions]]
                BY <2>1 DEF SaveGroup
            <3> DEFINE saved == [state |-> IF group[g].state = "absent" THEN "live" ELSE group[g].state,
                                 permissions |-> permissions]
            <3>2. group' = [group EXCEPT ![g] = saved] /\ (group[g].state = "live" => saved.state = "live")
                BY <3>1
            <3> HIDE DEF saved
            <3> QED
                BY <1>0, <3>2 DEF LiveGroups
        <2>2. CASE ~ SaveGroup(r)
            <3>1. UNCHANGED group
                BY <2>2 DEF CheckGroups, ClearAssignments, EvictPermissions, HasPermissions, ReadPermissions,
                            FillCache, ReadAtLogin, Fail, dataVars
            <3> QED
                BY <3>1 DEF LiveGroups
        <2> QED
            BY <2>1, <2>2
    <1>3. CASE CheckGroups(r) /\ ~ Fail(r)
        <2> DEFINE s == [request[r] EXCEPT !.pc = "clear"]
        <2>1. /\ request' = [request EXCEPT ![r] = s] /\ UNCHANGED group
              /\ \A grant \in request[r].wish : group[grant[2]].state = "live"
            BY <1>3 DEF CheckGroups, GoTo, dataVars
        <2>2. s.pc = "clear" /\ s.wish = request[r].wish
            BY <1>0 DEF RequestState
        <2> HIDE DEF s
        <2>3. request'[r] = s /\ \A q \in Request : q # r => request'[q] = request[q]
            BY <1>0, <2>1
        <2>4. \A q \in Request, g \in Group : Assigns(q, g)' => Assigns(q, g) \/ g \in LiveGroups
            BY <2>1, <2>2, <2>3 DEF Assigns, LiveGroups
        <2> QED
            BY <1>1, <1>2, <2>4, GroupsQuiet
    <1>4. CASE ClearAssignments(r)
        <2> DEFINE s == [request[r] EXCEPT !.pc = "insert"]
        <2>1. request' = [request EXCEPT ![r] = s] /\ request[r].pc = "clear"
            BY <1>4 DEF ClearAssignments, GoTo, At
        <2>2. s.pc = "insert" /\ s.wish = request[r].wish
            BY <1>0 DEF RequestState
        <2> HIDE DEF s
        <2>3. request'[r] = s /\ \A q \in Request : q # r => request'[q] = request[q]
            BY <1>0, <2>1
        <2>4. \A q \in Request, g \in Group : Assigns(q, g)' => Assigns(q, g) \/ g \in LiveGroups
            BY <2>1, <2>2, <2>3 DEF Assigns
        <2> QED
            BY <1>1, <1>2, <2>4, GroupsQuiet
    <1>5. CASE ReadAtLogin(r)
        <2>1. PICK u \in User : Starts(r, "login", u, [NoRequest EXCEPT !.pc = "write", !.held = RowsOf(u)])
            BY <1>5 DEF ReadAtLogin
        <2> DEFINE rows == RowsOf(u)
                   s    == [[NoRequest EXCEPT !.pc = "write", !.held = rows] EXCEPT !.kind = "login", !.user = u]
        <2>2. rows \subseteq assigned /\ request' = [request EXCEPT ![r] = s]
            BY <2>1 DEF Starts, RowsOf
        <2> HIDE DEF rows
        <2>3. s.pc = "write" /\ s.held = rows
            BY <1>0 DEF RequestState
        <2> HIDE DEF s
        <2>4. request'[r] = s /\ \A q \in Request : q # r => request'[q] = request[q]
            BY <1>0, <2>2
        <2>5. UNCHANGED <<group, assigned, counted, belated>>
            BY <1>5 DEF ReadAtLogin, dataVars, deletion
        <2>6. ASSUME NEW g \in Group, g \notin belated, NEW q \in Request, Assigns(q, g)'
              PROVE  group[g].state = "live"
            <3>1. CASE q = r
                <4>1. PICK given \in assigned : given.group = g
                    BY <2>2, <2>3, <2>4, <2>6, <3>1 DEF Assigns
                <4> QED
                    BY <2>6, <4>1 DEF GroupsKept, GroupsInUseStay
            <3>2. CASE q # r
                <4>1. Assigns(q, g)
                    BY <2>4, <2>6, <3>2 DEF Assigns
                <4> QED
                    BY <2>6, <4>1 DEF GroupsKept
            <3> QED
                BY <3>1, <3>2
        <2>7. GroupsInUseStay'
            BY <2>5 DEF GroupsKept, GroupsInUseStay
        <2> QED
            BY <2>5, <2>6, <2>7 DEF GroupsKept
    <1>6. CASE (CheckGroups(r) /\ Fail(r)) \/ EvictPermissions(r) \/ SaveGroup(r) \/ FillCache(r)
        <2>1. PICK pc \in {"next", "done"} : GoTo(r, pc)
            BY <1>6 DEF Fail, GoTo, EvictPermissions, AfterEvict, SaveGroup, FillCache
        <2> QED
            BY <1>1, <1>2, <2>1, GoesWithNothing, GroupsQuiet
    <1>7. CASE HasPermissions(r) \/ ReadPermissions(r)
        <2>1. PICK s : request' = [request EXCEPT ![r] = s] /\ s.pc \in {"done", "fill"}
            <3>1. CASE HasPermissions(r)
                <4>1. PICK u, t, verdict :
                        Starts(r, "hasPermissions", u, [NoRequest EXCEPT !.pc = "done", !.team = t, !.verdict = verdict])
                    BY <3>1 DEF HasPermissions
                <4> DEFINE s == [[NoRequest EXCEPT !.pc = "done", !.team = t, !.verdict = verdict]
                                   EXCEPT !.kind = "hasPermissions", !.user = u]
                <4>2. request' = [request EXCEPT ![r] = s] /\ s.pc = "done"
                    BY <1>0, <4>1 DEF Starts, RequestState
                <4> HIDE DEF s
                <4> QED
                    BY <4>2
            <3>2. CASE ReadPermissions(r)
                <4>1. PICK u, t, read, verdict :
                        Starts(r, "hasPermissions", u, [NoRequest EXCEPT !.pc = "fill", !.team = t,
                                                           !.read = read, !.verdict = verdict])
                    BY <3>2 DEF ReadPermissions
                <4> DEFINE s == [[NoRequest EXCEPT !.pc = "fill", !.team = t, !.read = read, !.verdict = verdict]
                                   EXCEPT !.kind = "hasPermissions", !.user = u]
                <4>2. request' = [request EXCEPT ![r] = s] /\ s.pc = "fill"
                    BY <1>0, <4>1 DEF Starts, RequestState
                <4> HIDE DEF s
                <4> QED
                    BY <4>2
            <3> QED
                BY <1>7, <3>1, <3>2
        <2>2. \A q \in Request, g \in Group : Assigns(q, g)' => Assigns(q, g)
            BY <2>1, CarriesNothing
        <2> QED
            BY <1>1, <1>2, <2>2, GroupsQuiet
    <1> QED
        BY <1>3, <1>4, <1>5, <1>6, <1>7

\* Assignments are saved: of groups that are live, or marked.
LEMMA GroupsGiven ==
    ASSUME RequestsTypeOK, GroupsKept, NEW r \in Request, InsertAssignments(r) \/ SaveAtLogin(r), ~ Fail(r)
    PROVE  GroupsKept'
    <1>0. /\ request \in [Request -> RequestState] /\ request[r].wish \subseteq Grant
          /\ request[r].held \subseteq Row
        BY DEF RequestsTypeOK, RequestState
    <1>1. PICK pc \in {"evict", "done"} : GoTo(r, pc)
        BY DEF InsertAssignments, SaveAtLogin
    <1>2. \A q \in Request, g \in Group : Assigns(q, g)' => Assigns(q, g)
        BY <1>1, GoesWithNothing
    <1>3. UNCHANGED <<group, counted>> /\ belated \subseteq belated' /\ belated' \subseteq belated \cup counted
        BY DEF InsertAssignments, SaveAtLogin
    <1>4. ASSUME NEW given \in assigned', given \notin assigned
          PROVE  /\ given.group \in Group /\ Assigns(r, given.group)
                 /\ given.group \in counted => given.group \in belated'
        <2>1. CASE InsertAssignments(r)
            <3>1. /\ request[r].pc = "insert"
                  /\ belated' = belated \cup ({grant[2] : grant \in request[r].wish} \cap counted)
                  /\ \E grant \in request[r].wish : given = [user |-> request[r].user, team |-> grant[1],
                                                              group |-> grant[2], by |-> r]
                BY <1>4, <2>1 DEF InsertAssignments, At
            <3>2. PICK grant \in request[r].wish : given.group = grant[2]
                BY <3>1
            <3> QED
                BY <1>0, <3>1, <3>2 DEF Assigns, Grant
        <2>2. CASE SaveAtLogin(r)
            <3>1. /\ request[r].pc = "write" /\ given \in request[r].held
                  /\ belated' = belated \cup ({gone.group : gone \in request[r].held \ assigned} \cap counted)
                BY <1>4, <2>2 DEF SaveAtLogin, At
            <3> QED
                BY <1>0, <1>4, <3>1 DEF Assigns, Row
        <2> QED
            BY <2>1, <2>2
    <1>5. ASSUME NEW given \in assigned' PROVE group[given.group].state = "live" \/ given.group \in belated'
        <2>1. CASE given \in assigned
            BY <1>3, <2>1 DEF GroupsKept, GroupsInUseStay
        <2>2. CASE given \notin assigned
            BY <1>3, <1>4, <2>2 DEF GroupsKept
        <2> QED
            BY <2>1, <2>2
    <1>6. GroupsInUseStay'
        BY <1>3, <1>5 DEF GroupsInUseStay
    <1>7. ASSUME NEW g \in Group, g \notin belated', g \in counted, NEW given \in assigned' PROVE given.group # g
        BY <1>3, <1>4, <1>7 DEF GroupsKept
    <1> QED
        BY <1>2, <1>3, <1>6, <1>7 DEF GroupsKept

\* The group counted is in nobody's hands.
LEMMA GroupsCounted ==
    ASSUME RequestsTypeOK, GroupsKept, NEW r \in Request, CountAssignments(r)
    PROVE  GroupsKept'
    <1>1. \A q \in Request, x \in Group : Assigns(q, x)' => Assigns(q, x)
        BY GoesWithNothing DEF CountAssignments
    <1>2. PICK x \in Group :
            /\ \A given \in assigned : given.group # x
            /\ counted' = counted \cup {x}
            /\ UNCHANGED <<group, assigned, belated>>
        BY <1>1 DEF CountAssignments
    <1> QED
        BY <1>1, <1>2 DEF GroupsKept, GroupsInUseStay

\* A group that goes is in nobody's hands, or marked.
LEMMA GroupDrops ==
    ASSUME RequestsTypeOK, GroupsKept, NEW g \in Group, DropGroup(g) \/ KeepGroup(g)
    PROVE  GroupsKept'
    <1>0. /\ group \in [Group -> [state : Lifetime, permissions : SUBSET Permission]] /\ assigned \subseteq Row
        BY DEF RequestsTypeOK
    <1>2. CASE DropGroup(g)
        <2>1. /\ g \in counted /\ counted' = counted \ {g} /\ UNCHANGED <<assigned, request>>
              /\ belated \subseteq belated' /\ belated' \subseteq belated \cup {g}
              /\ (\E q \in Request : Assigns(q, g)) => g \in belated'
              /\ \A x \in Group : x # g => group'[x] = group[x]
            BY <1>0, <1>2 DEF DropGroup
        <2>2. \A q \in Request, x \in Group : Assigns(q, x)' <=> Assigns(q, x)
            BY <2>1 DEF Assigns
        <2>3. GroupsInUseStay'
            <3> SUFFICES ASSUME NEW given \in assigned PROVE group'[given.group].state = "live" \/ given.group \in belated'
                BY <2>1 DEF GroupsInUseStay
            <3>1. given.group \in Group
                BY <1>0 DEF Row
            <3>2. CASE given.group = g
                BY <2>1, <3>1, <3>2 DEF GroupsKept
            <3>3. CASE given.group # g
                BY <2>1, <3>1, <3>3 DEF GroupsKept, GroupsInUseStay
            <3> QED
                BY <3>2, <3>3
        <2>4. ASSUME NEW x \in Group, x \notin belated', NEW q \in Request, Assigns(q, x)
              PROVE  group'[x].state = "live"
            BY <2>1, <2>4 DEF GroupsKept
        <2> QED
            BY <2>1, <2>2, <2>3, <2>4 DEF GroupsKept
    <1>3. CASE KeepGroup(g)
        <2>1. counted' = counted \ {g} /\ UNCHANGED <<group, assigned, request, belated>>
            BY <1>3 DEF KeepGroup
        <2>2. \A q \in Request, x \in Group : Assigns(q, x)' <=> Assigns(q, x)
            BY <2>1 DEF Assigns
        <2> QED
            BY <2>1, <2>2 DEF GroupsKept, GroupsInUseStay
    <1> QED
        BY <1>2, <1>3

LEMMA InitGroups == AccessInit => GroupsKept
    <1> SUFFICES ASSUME AccessInit PROVE GroupsKept
        OBVIOUS
    <1>0. /\ counted = {} /\ belated = {} /\ NoRequest.pc = "idle" /\ request = [q \in Request |-> NoRequest]
          /\ AdminGroup \in Group
        BY AccessAssumption DEF AccessInit, NoRequest, AccessAssumption
    <1>1. PICK made \in SUBSET (Group \ {AdminGroup}) :
            /\ group = [g \in Group |->
                 CASE g = AdminGroup -> [state |-> "live", permissions |-> {"all"}]
                   [] g \in made     -> [state |-> "live", permissions |-> {"read"}]
                   [] OTHER          -> [state |-> "absent", permissions |-> {}]]
            /\ assigned = {SeedRow(Founder, AdminGroup)} \cup {SeedRow(Colleague, g) : g \in made}
        BY DEF AccessInit
    <1>2. group[AdminGroup].state = "live" /\ \A g \in made : group[g].state = "live"
        BY <1>0, <1>1
    <1>3. GroupsInUseStay
        BY <1>0, <1>1, <1>2 DEF GroupsInUseStay, SeedRow
    <1> QED
        BY <1>0, <1>3 DEF GroupsKept, Assigns

LEMMA GroupsStep == RequestsTypeOK /\ GroupsKept /\ [AccessNext]_accessVars => GroupsKept'
    <1> SUFFICES ASSUME RequestsTypeOK, GroupsKept, [AccessNext]_accessVars PROVE GroupsKept'
        OBVIOUS
    <1>1. ASSUME NEW r \in Request, TeamRequest(r) \/ FailRequest(r) PROVE GroupsKept'
        BY <1>1, TeamGroups
    <1>2. ASSUME NEW r \in Request, PermissionRequest(r) PROVE GroupsKept'
        <2>1. CASE InsertAssignments(r) \/ SaveAtLogin(r)
            <3>1. CASE Fail(r)
                <4>1. Active(r)
                    BY <2>1 DEF InsertAssignments, SaveAtLogin, At, Active
                <4> QED
                    BY <3>1, <4>1, TeamGroups DEF FailRequest
            <3>2. CASE ~ Fail(r)
                BY <2>1, <3>2, GroupsGiven
            <3> QED
                BY <3>1, <3>2
        <2>2. CASE CountAssignments(r)
            BY <2>2, GroupsCounted
        <2> QED
            BY <1>2, <2>1, <2>2, PermissionGroups DEF PermissionRequest
    <1>3. ASSUME NEW g \in Group, DropGroup(g) \/ KeepGroup(g) PROVE GroupsKept'
        <2>1. CASE DropGroup(g)
            BY <2>1, GroupDrops
        <2>2. CASE KeepGroup(g)
            BY <2>2, GroupDrops
        <2> QED
            BY <1>3, <2>1, <2>2
    <1>4. CASE UNCHANGED accessVars
        BY <1>4 DEF accessVars, GroupsKept, GroupsInUseStay, Assigns
    <1> QED
        BY <1>1, <1>2, <1>3, <1>4 DEF AccessNext

\* The cached permissions of a user follow his assignments, whoever has a group
\* in a team is a member of it, and no group in use is deleted: except where a
\* request is at work, has failed half-way, has overlapped with another, or
\* changes what nobody evicts, and where a group is given while it is deleted
\* (TeamService, PermissionService, checkUser).
THEOREM AccessIsKept == AccessSpec => []AccessIsSound
    <1>1. AccessInv /\ GroupsKept => AccessIsSound
        <2> SUFFICES ASSUME AccessInv, GroupsKept PROVE AccessIsSound
            OBVIOUS
        <2>1. AssignedAreMembers
            <3> SUFFICES ASSUME NEW given \in assigned, given.user \notin torn,
                                \A r \in Request : ~ Handles(r, given.user)
                         PROVE  <<given.user, given.team>> \in member
                BY DEF AssignedAreMembers
            <3>1. given.user \in User /\ given \in RowsOf(given.user)
                BY DEF AccessInv, RequestsTypeOK, Row, RowsOf
            <3> QED
                BY <3>1 DEF AccessInv, RestIsSound, RowsAreMembers, Works
        <2> QED
            BY <2>1 DEF AccessInv, AccessIsSound, GroupsKept, AccessTypeOK
    <1>2. AccessInv /\ GroupsKept /\ [AccessNext]_accessVars => GroupsKept'
        BY GroupsStep DEF AccessInv
    <1> QED
        BY <1>1, <1>2, InitAccess, InitGroups, AccessStep, PTL DEF AccessSpec

=============================================================================
