---------------------------- MODULE TeamSettings ----------------------------
(***************************************************************************)
(* The settings of one team (TeamService.createConfig and its siblings): a *)
(* JSON of secrets, encrypted one by one, with one row per team.  A form   *)
(* leaves blank what it does not change.  A submission reads the row,      *)
(* merges and saves; its name stands for the values it fills in.           *)
(***************************************************************************)
EXTENDS Naturals

CONSTANTS
    Secret,     \* the placeholders of baseTeamConfig
    Submission  \* the requests; each is made once

VARIABLES
    settings,   \* the row of team_configs
    submission, \* requests at work
    teamThere,  \* whether the team still exists
    wanted,     \* history: what was submitted last for each secret
    clash       \* history: two submissions were at work at the same time

settingsVars == <<settings, submission, teamThere, wanted, clash>>

-----------------------------------------------------------------------------
(* Types *)

\* A value and how often it is encrypted.
Absent == [text |-> "absent", layers |-> 0]
Stored == [text : Submission \cup {"absent"}, layers : Nat]
Encrypt(value) == [value EXCEPT !.layers = @ + 1]

\* "row" stands for the id.
Settings == [row : Submission \cup {"none"}, secrets : [Secret -> Stored]]
NoSettings == [row |-> "none", secrets |-> [s \in Secret |-> Absent]]

SubmissionState == [kind : {"none", "create", "update", "remove"}, pc : {"idle", "save", "done"},
                    fills : SUBSET Secret, held : Settings]

SettingsTypeOK ==
    /\ settings \in Settings
    /\ submission \in [Submission -> SubmissionState]
    /\ teamThere \in BOOLEAN
    /\ wanted \in [Secret -> Submission \cup {"absent"}]
    /\ clash \in BOOLEAN

SettingsInit ==
    /\ settings = NoSettings
    /\ submission = [f \in Submission |-> [kind |-> "none", pc |-> "idle", fills |-> {},
                                           held |-> NoSettings]]
    /\ teamThere = TRUE
    /\ wanted = [s \in Secret |-> "absent"]
    /\ clash = FALSE

-----------------------------------------------------------------------------
(* The merge *)

\* Faulty: what is kept is encrypted again.
MergeAgain(f) ==
    [s \in Secret |-> IF s \in submission[f].fills
                        THEN Encrypt([text |-> f, layers |-> 0])
                        ELSE IF submission[f].held.secrets[s] = Absent THEN Absent
                        ELSE Encrypt(submission[f].held.secrets[s])]

\* mergeConfigSecrets: what is filled in is encrypted, what is blank is kept as
\* the copy has it.
MergeSecrets(f) ==
    [s \in Secret |-> IF s \in submission[f].fills
                        THEN Encrypt([text |-> f, layers |-> 0])
                        ELSE submission[f].held.secrets[s]]

\* decryptTeamConfig takes one layer off and leaves what is not a string.
Decrypted(s) ==
    LET value == settings.secrets[s]
    IN IF value = Absent THEN Absent ELSE [value EXCEPT !.layers = @ - 1]

-----------------------------------------------------------------------------
(* The requests *)

FormAt(f, pc) == submission[f].pc = pc
Close(f) == submission' = [submission EXCEPT ![f].pc = "done"]

\* The row is read: there must be one to update or remove, and none to create.
ReadSettings(f) ==
    /\ FormAt(f, "idle")
    /\ teamThere
    /\ \E kind \in {"create", "update", "remove"}, fills \in SUBSET Secret :
         /\ (kind = "create") = (settings = NoSettings)
         /\ kind = "remove" => fills = {}
         /\ submission' = [submission EXCEPT ![f] =
                [kind |-> kind, pc |-> "save", fills |-> fills, held |-> settings]]
    /\ clash' = (clash \/ \E g \in Submission : FormAt(g, "save"))
    /\ UNCHANGED <<settings, teamThere, wanted>>

Wishes(f) ==
    wanted' = [s \in Secret |-> IF s \in submission[f].fills THEN f ELSE wanted[s]]

\* Faulty: the unique index does not hold.
ReplaceSettings(f) ==
    /\ FormAt(f, "save")
    /\ submission[f].kind = "create"
    /\ settings' = [row |-> f, secrets |-> MergeSecrets(f)]
    /\ Wishes(f)
    /\ Close(f)
    /\ UNCHANGED <<teamThere, clash>>

\* createConfig: the unique index lets one row of the team in.
CreateSettings(f) ==
    /\ FormAt(f, "save")
    /\ submission[f].kind = "create"
    /\ IF teamThere /\ settings = NoSettings
         THEN settings' = [row |-> f, secrets |-> MergeSecrets(f)] /\ Wishes(f)
         ELSE UNCHANGED <<settings, wanted>>
    /\ Close(f)
    /\ UNCHANGED <<teamThere, clash>>

\* updateConfig saves the merged copy: a row gone meanwhile is inserted again,
\* unless the team has got another one.
UpdateSettings(f) ==
    /\ FormAt(f, "save")
    /\ submission[f].kind = "update"
    /\ IF teamThere /\ settings.row \in {submission[f].held.row, "none"}
         THEN /\ settings' = [row |-> submission[f].held.row, secrets |-> MergeSecrets(f)]
              /\ Wishes(f)
         ELSE UNCHANGED <<settings, wanted>>
    /\ Close(f)
    /\ UNCHANGED <<teamThere, clash>>

\* deleteConfig removes the row it has read.
RemoveSettings(f) ==
    /\ FormAt(f, "save")
    /\ submission[f].kind = "remove"
    /\ IF settings.row = submission[f].held.row
         THEN settings' = NoSettings /\ wanted' = [s \in Secret |-> "absent"]
         ELSE UNCHANGED <<settings, wanted>>
    /\ Close(f)
    /\ UNCHANGED <<teamThere, clash>>

FailSubmission(f) ==
    /\ FormAt(f, "save")
    /\ Close(f)
    /\ UNCHANGED <<settings, teamThere, wanted, clash>>

\* The settings go with the team.
DropTeam ==
    /\ teamThere
    /\ teamThere' = FALSE
    /\ settings' = NoSettings
    /\ wanted' = [s \in Secret |-> "absent"]
    /\ UNCHANGED <<submission, clash>>

SettingsNext ==
    \/ \E f \in Submission :
         ReadSettings(f) \/ CreateSettings(f) \/ UpdateSettings(f) \/ RemoveSettings(f)
           \/ FailSubmission(f)
    \/ DropTeam

SettingsSpec == SettingsInit /\ [][SettingsNext]_settingsVars

-----------------------------------------------------------------------------
(* Properties *)

\* A secret reads as it was last submitted, however often the form was saved
\* with it left blank, unless two submissions overlapped (the later one writes
\* back the whole copy it read).
SecretsAsSubmitted ==
    clash \/ \A s \in Secret : Decrypted(s).text = wanted[s]

\* Whatever overlaps, a secret decrypts to something somebody submitted, not to
\* another layer of encryption.
SecretsArePlain == \A s \in Secret : Decrypted(s).layers = 0

\* Secrets survive the saving of the form they are hidden from.
SecretsAreKept == SettingsTypeOK /\ SecretsAsSubmitted /\ SecretsArePlain

\* The settings of a team are not replaced by a second creation: a row gives way
\* to another only by its removal.
SettingsNotReplaced ==
    [][settings.row # "none" => settings'.row \in {settings.row, "none"}]_settingsVars
=============================================================================
