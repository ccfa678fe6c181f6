----------------------------- MODULE TeamAccess -----------------------------
(***************************************************************************)
(* Teams, their members, permission groups and the permission cache:       *)
(* TeamService and PermissionService.  A request is cut where it writes;   *)
(* reads that follow one another are one step.  A request may fail at any  *)
(* step (a statement fails, a constraint refuses it, the process dies) and *)
(* nothing of what it has written is undone.                               *)
(***************************************************************************)
EXTENDS Naturals, FiniteSets

CONSTANTS
    User, Team, Group,
    AdminGroup,   \* the group named Admin, which may do everything
    Request,      \* the requests; each is made once
    RequestKind,  \* the kinds of request that are made
    Founder, FirstTeam, Colleague  \* who is there at the start

AccessAssumption ==
    /\ AdminGroup \in Group
    /\ Founder \in User /\ Colleague \in User /\ FirstTeam \in Team
ASSUME AccessAssumption

VARIABLES
    team,      \* rows of teams
    member,    \* rows of team_members
    group,     \* rows of permission_groups
    assigned,  \* rows of user_permission_groups
    cached,    \* permissions_user_<id> in Redis
    request,   \* requests at work
    counted,   \* groups that nobody had when deletePermissionGroup counted
    stale,     \* history: users whose cached permissions nobody has evicted
    torn,      \* history: users whose requests overlapped or failed half-way
    belated       \* history: groups given to somebody between count and deletion

deletion == <<counted, belated>>
accessVars == <<team, member, group, assigned, cached, request, counted, stale, torn, belated>>

-----------------------------------------------------------------------------
(* Types *)

Lifetime == {"absent", "live", "deleted"}
Permission == {"all", "read"}
Grant == Team \X Group

\* "by" stands for the id of the row: rows inserted again are other rows.
Seed == "seed"
Row == [user : User, team : Team, group : Group, by : Request \cup {Seed}]

CachedGrant == [team : Team, group : Group, permissions : SUBSET Permission]
Cached == [hit : BOOLEAN, grants : SUBSET CachedGrant]
NotCached == [hit |-> FALSE, grants |-> {}]

RequestState ==
    [kind : RequestKind \cup {"none"},
     pc : {"idle", "leave", "join", "merge", "check", "clear", "insert", "evict", "next",
           "revoke", "expel", "drop", "fill", "write", "done"},
     user : User, team : Team,
     leave : SUBSET Team, join : SUBSET Team,  \* teamsToRemove, teamsToAdd
     wish : SUBSET Grant,                      \* the assignments to save
     todo : SUBSET User,                       \* admins a new team still has to get
     held : SUBSET Row,                        \* rows read at login,
     read : SUBSET CachedGrant,                \* or to be cached
     verdict : {"none", "granted", "denied"}]  \* of hasPermissions

NoRequest == [kind |-> "none", pc |-> "idle", user |-> Founder, team |-> FirstTeam,
              leave |-> {}, join |-> {}, wish |-> {}, todo |-> {}, held |-> {},
              read |-> {}, verdict |-> "none"]

RequestsTypeOK ==
    /\ team \in [Team -> Lifetime]
    /\ member \subseteq User \X Team
    /\ group \in [Group -> [state : Lifetime, permissions : SUBSET Permission]]
    /\ assigned \subseteq Row
    /\ cached \in [User -> Cached]
    /\ request \in [Request -> RequestState]
    /\ stale \subseteq User
    /\ torn \subseteq User

AccessTypeOK == RequestsTypeOK /\ counted \subseteq Group /\ belated \subseteq Group

SeedRow(u, g) == [user |-> u, team |-> FirstTeam, group |-> g, by |-> Seed]

\* The founder administers the first team, where the colleague may have every
\* other group there is.
AccessInit ==
    /\ team = [t \in Team |-> IF t = FirstTeam THEN "live" ELSE "absent"]
    /\ member = {<<Founder, FirstTeam>>, <<Colleague, FirstTeam>>}
    /\ \E made \in SUBSET (Group \ {AdminGroup}) :
         /\ group = [g \in Group |->
              CASE g = AdminGroup -> [state |-> "live", permissions |-> {"all"}]
                [] g \in made     -> [state |-> "live", permissions |-> {"read"}]
                [] OTHER          -> [state |-> "absent", permissions |-> {}]]
         /\ assigned = {SeedRow(Founder, AdminGroup)} \cup {SeedRow(Colleague, g) : g \in made}
    /\ cached = [u \in User |-> NotCached]
    /\ request = [r \in Request |-> NoRequest]
    /\ counted = {}
    /\ stale = {}
    /\ torn = {}
    /\ belated = {}

-----------------------------------------------------------------------------
(* Queries *)

LiveTeams == {t \in Team : team[t] = "live"}
RowsOf(u) == {row \in assigned : row.user = u}
Key(row) == <<row.team, row.group>>

Granted(rows) == {[team |-> row.team, group |-> row.group,
                   permissions |-> group[row.group].permissions] : row \in rows}

\* isUserAdmin goes by the permissions, getAdminUsers by the group's name.
IsAdmin(u) == \E row \in RowsOf(u) : "all" \in group[row.group].permissions
AdminUsers == {u \in User : \E row \in RowsOf(u) : row.group = AdminGroup}

Grants(permissions) == permissions \cap {"all", "read"} # {}
UsersWithAccess(t) == {u \in User : \E row \in RowsOf(u) :
                          row.team = t /\ Grants(group[row.group].permissions)}

Active(r) == request[r].pc \notin {"idle", "done"}
Handles(r, u) == Active(r) /\ request[r].user = u /\ request[r].kind # "hasPermissions"

-----------------------------------------------------------------------------
(* How a request proceeds *)

\* Another request for the same user is at work: their writes may mix.
Starts(r, kind, u, state) ==
    /\ request[r].pc \in {"idle", "next"}
    /\ kind \in RequestKind
    /\ request' = [request EXCEPT ![r] = [state EXCEPT !.kind = kind, !.user = u]]
    /\ torn' = IF \E q \in Request \ {r} : Handles(q, u) THEN torn \cup {u} ELSE torn

\* A request that is refused before it has written anything needs no step.
Idle(r) == request[r].pc = "idle"

At(r, pc) == request[r].pc = pc
GoTo(r, pc) == request' = [request EXCEPT ![r].pc = pc]

\* Nobody evicts what this step changes (TLC wants the changes stated before).
Unannounced ==
    stale' = stale \cup {u \in User : cached[u].hit /\ Granted(RowsOf(u))' # Granted(RowsOf(u))}

Changes(r) == request[r].pc \in {"insert", "evict"}

\* The request ends with an error; what it has written stays.
Fail(r) ==
    /\ request' = [request EXCEPT ![r].pc = "done"]
    /\ torn' = IF request[r].kind = "hasPermissions" THEN torn
               ELSE torn \cup {request[r].user}
    /\ stale' = IF Changes(r) /\ cached[request[r].user].hit
                  THEN stale \cup {request[r].user} ELSE stale
    /\ UNCHANGED <<team, member, group, assigned, cached, deletion>>

FailRequest(r) == Active(r) /\ Fail(r)

-----------------------------------------------------------------------------
(* TeamService *)

dataVars == <<team, group, assigned, cached, stale, deletion>>

\* setTeams: the last administrator is left alone, and the teams must exist.
SetTeams(r) ==
    /\ Idle(r)
    /\ \E u \in User, wish \in SUBSET Grant :
         LET teams == {grant[1] : grant \in wish}
             now   == {t \in Team : <<u, t>> \in member}
         IN /\ IsAdmin(u) => \E v \in User \ {u} : IsAdmin(v)
            /\ teams \subseteq LiveTeams
            /\ Starts(r, "setTeams", u, [NoRequest EXCEPT !.pc = "leave", !.wish = wish,
                                            !.leave = now \ teams, !.join = teams \ now])
    /\ UNCHANGED <<member, dataVars>>

LeaveTeams(r) ==
    /\ At(r, "leave")
    /\ member' = member \ ({request[r].user} \X request[r].leave)
    /\ GoTo(r, "join")
    /\ UNCHANGED <<torn, dataVars>>

\* The unique index and the foreign key hold.
JoinTeams(r) ==
    /\ At(r, "join")
    /\ LET new == {request[r].user} \X request[r].join
       IN IF new \cap member # {} \/ ~(request[r].join \subseteq LiveTeams)
            THEN Fail(r)
            ELSE /\ member' = member \cup new
                 /\ GoTo(r, "check")
                 /\ UNCHANGED <<torn, dataVars>>

\* addMember: the membership first,
AddMember(r) ==
    /\ Idle(r)
    /\ \E u \in User, t \in LiveTeams, groups \in SUBSET Group \ {{}} :
         /\ Starts(r, "addMember", u, [NoRequest EXCEPT !.pc = "merge", !.team = t,
                                          !.wish = {t} \X groups])
         /\ member' = member \cup {<<u, t>>}
    /\ UNCHANGED dataVars

\* then its groups replace those the user had in the team.
MergeAssignments(r) ==
    /\ At(r, "merge")
    /\ request' = [request EXCEPT ![r].pc = "check",
          ![r].wish = @ \cup {grant \in {Key(row) : row \in RowsOf(request[r].user)} :
                                grant[1] # request[r].team}]
    /\ UNCHANGED <<member, torn, dataVars>>

\* removeMember, which an administrator is safe from: the assignments first,
RemoveMember(r) ==
    /\ Idle(r)
    /\ \E u \in User, t \in LiveTeams :
         /\ <<u, t>> \in member
         /\ ~IsAdmin(u)
         /\ Starts(r, "removeMember", u, [NoRequest EXCEPT !.pc = "revoke", !.team = t])
    /\ UNCHANGED <<member, dataVars>>

RevokeAssignments(r) ==
    /\ At(r, "revoke")
    /\ assigned' = {row \in assigned : ~(row.user = request[r].user /\ row.team = request[r].team)}
    /\ GoTo(r, "expel")
    /\ UNCHANGED <<team, member, group, cached, torn, deletion>>
    /\ Unannounced

\* then the membership.
Expel(r) ==
    /\ At(r, "expel")
    /\ member' = member \ {<<request[r].user, request[r].team>>}
    /\ GoTo(r, "done")
    /\ UNCHANGED <<torn, dataVars>>

\* setAsAdmin: a member and an administrator of every team there is.
AdminOf(u, todo) ==
    [NoRequest EXCEPT !.pc = "join", !.wish = LiveTeams \X {AdminGroup}, !.todo = todo,
                      !.join = {t \in LiveTeams : <<u, t>> \notin member}]

SetAsAdmin(r) ==
    /\ Idle(r)
    /\ group[AdminGroup].state = "live"
    /\ \E u \in User : Starts(r, "setAsAdmin", u, AdminOf(u, {}))
    /\ UNCHANGED <<member, dataVars>>

\* create: the team is saved, then every administrator is made one again.
CreateTeam(r) ==
    /\ Idle(r)
    /\ "createTeam" \in RequestKind
    /\ \E t \in Team :
         /\ team[t] = "absent"
         /\ team' = [team EXCEPT ![t] = "live"]
    /\ request' = [request EXCEPT ![r] = [NoRequest EXCEPT !.kind = "createTeam", !.pc = "next",
                                                       !.todo = AdminUsers]]
    /\ UNCHANGED <<member, group, assigned, cached, stale, torn, deletion>>

NextAdmin(r) ==
    /\ At(r, "next")
    /\ \/ \E u \in request[r].todo :
            /\ group[AdminGroup].state = "live"
            /\ Starts(r, "createTeam", u, AdminOf(u, request[r].todo \ {u}))
       \/ request[r].todo = {} /\ GoTo(r, "done") /\ UNCHANGED torn
    /\ UNCHANGED <<member, dataVars>>

\* delete: the memberships go with the team, assignments prevent it.
DeleteTeam(r) ==
    /\ Idle(r)
    /\ "deleteTeam" \in RequestKind
    /\ \E t \in LiveTeams :
         /\ \A row \in assigned : row.team # t
         /\ team' = [team EXCEPT ![t] = "deleted"]
         /\ member' = {m \in member : m[2] # t}
    /\ GoTo(r, "done")
    /\ UNCHANGED <<group, assigned, cached, stale, torn, deletion>>

-----------------------------------------------------------------------------
(* PermissionService *)

\* setUserPermissionGroups: the groups must be live,
CheckGroups(r) ==
    /\ At(r, "check")
    /\ IF \A grant \in request[r].wish : group[grant[2]].state = "live"
         THEN GoTo(r, "clear") /\ UNCHANGED <<member, torn, dataVars>>
         ELSE Fail(r)

\* the old rows are deleted,
ClearAssignments(r) ==
    /\ At(r, "clear")
    /\ assigned' = assigned \ RowsOf(request[r].user)
    /\ GoTo(r, "insert")
    /\ UNCHANGED <<team, member, group, cached, stale, torn, deletion>>

\* the new ones saved, all or none,
InsertAssignments(r) ==
    /\ At(r, "insert")
    /\ LET u == request[r].user
           w == request[r].wish
       IN IF w \cap {Key(row) : row \in RowsOf(u)} # {} \/ ~({grant[1] : grant \in w} \subseteq LiveTeams)
            THEN Fail(r)
            ELSE /\ assigned' = assigned \cup {[user |-> u, team |-> grant[1], group |-> grant[2],
                                                by |-> r] : grant \in w}
                 /\ belated' = belated \cup ({grant[2] : grant \in w} \cap counted)
                 /\ GoTo(r, "evict")
                 /\ UNCHANGED <<team, member, group, cached, counted, stale, torn>>

AfterEvict(r) == IF request[r].kind = "createTeam" THEN "next" ELSE "done"

\* Faulty: the cache is left alone.
LeaveCached(r) ==
    /\ At(r, "evict")
    /\ GoTo(r, AfterEvict(r))
    /\ UNCHANGED <<member, torn, dataVars>>

\* and the cached permissions evicted.
EvictPermissions(r) ==
    /\ At(r, "evict")
    /\ cached' = [cached EXCEPT ![request[r].user] = NotCached]
    /\ stale' = stale \ {request[r].user}
    /\ GoTo(r, AfterEvict(r))
    /\ UNCHANGED <<team, member, group, assigned, torn, deletion>>

\* createPermissionGroup and updatePermissionGroup (which computes what is not
\* valid, and saves it all the same).
SaveGroup(r) ==
    /\ Idle(r)
    /\ "saveGroup" \in RequestKind
    /\ \E g \in Group \ {AdminGroup}, permissions \in SUBSET Permission :
         /\ group[g].state = "absent" => "all" \notin permissions
         /\ group' = [group EXCEPT ![g] =
                [state |-> IF @.state = "absent" THEN "live" ELSE @.state,
                 permissions |-> permissions]]
    /\ GoTo(r, "done")
    /\ UNCHANGED <<team, member, assigned, cached, torn, deletion>>
    /\ Unannounced

\* deletePermissionGroup: the assignments of the group are counted,
CountAssignments(r) ==
    /\ Idle(r)
    /\ "deleteGroup" \in RequestKind
    /\ \E g \in Group :
         /\ group[g].state = "live"
         /\ \A row \in assigned : row.group # g
         /\ counted' = counted \cup {g}
    /\ GoTo(r, "done")
    /\ UNCHANGED <<team, member, group, assigned, cached, stale, torn, belated>>

\* The request is about to save assignments of the group, checked or read before.
Assigns(r, g) ==
    \/ request[r].pc \in {"clear", "insert"} /\ \E grant \in request[r].wish : grant[2] = g
    \/ request[r].pc = "write" /\ \E row \in request[r].held : row.group = g

\* and the group is deleted, whoever has been given it since.
DropGroup(g) ==
    /\ g \in counted
    /\ group' = [group EXCEPT ![g].state = "deleted"]
    /\ counted' = counted \ {g}
    /\ belated' = IF \E r \in Request : Assigns(r, g) THEN belated \cup {g} ELSE belated
    /\ UNCHANGED <<team, member, assigned, cached, request, stale, torn>>

\* The update fails, or the process dies before it.
KeepGroup(g) ==
    /\ g \in counted
    /\ counted' = counted \ {g}
    /\ UNCHANGED <<team, member, group, assigned, cached, request, stale, torn, belated>>

\* hasPermissions goes by the first of the user's groups in the team; which one
\* that is the query leaves open.
Verdicts(grants, t) ==
    LET there == {grant \in grants : grant.team = t}
    IN IF there = {} THEN {"denied"}
       ELSE {IF Grants(grant.permissions) THEN "granted" ELSE "denied" : grant \in there}

\* The cached permissions are used,
HasPermissions(r) ==
    /\ Idle(r)
    /\ \E u \in User, t \in Team :
         /\ cached[u].hit
         /\ \E verdict \in Verdicts(cached[u].grants, t) :
              Starts(r, "hasPermissions", u, [NoRequest EXCEPT !.pc = "done", !.team = t,
                                                 !.verdict = verdict])
    /\ UNCHANGED <<member, dataVars>>

\* or the assignments are read,
ReadPermissions(r) ==
    /\ Idle(r)
    /\ \E u \in User, t \in Team :
         /\ ~cached[u].hit
         /\ \E verdict \in Verdicts(Granted(RowsOf(u)), t) :
              Starts(r, "hasPermissions", u, [NoRequest EXCEPT !.pc = "fill", !.team = t,
                                                 !.read = Granted(RowsOf(u)),
                                                 !.verdict = verdict])
    /\ UNCHANGED <<member, dataVars>>

\* and cached for a day.
FillCache(r) ==
    /\ At(r, "fill")
    /\ LET u == request[r].user
       IN /\ cached' = [cached EXCEPT ![u] = [hit |-> TRUE, grants |-> request[r].read]]
          /\ stale' = IF request[r].read = Granted(RowsOf(u)) THEN stale \ {u} ELSE stale \cup {u}
    /\ GoTo(r, "done")
    /\ UNCHANGED <<team, member, group, assigned, torn, deletion>>

\* checkUser reads the user with his assignments,
ReadAtLogin(r) ==
    /\ Idle(r)
    /\ \E u \in User :
         Starts(r, "login", u, [NoRequest EXCEPT !.pc = "write", !.held = RowsOf(u)])
    /\ UNCHANGED <<member, dataVars>>

\* and saves him with them: rows deleted meanwhile are inserted again, rows
\* added meanwhile lose their user.
SaveAtLogin(r) ==
    /\ At(r, "write")
    /\ LET u    == request[r].user
           gone == request[r].held \ assigned
       IN IF {Key(row) : row \in gone} \cap {Key(row) : row \in RowsOf(u)} # {}
            THEN Fail(r)
            ELSE /\ assigned' = (assigned \ RowsOf(u)) \cup request[r].held
                 /\ belated' = belated \cup ({row.group : row \in gone} \cap counted)
                 /\ GoTo(r, "done")
                 /\ UNCHANGED <<team, member, group, cached, counted, torn>>
                 /\ Unannounced

-----------------------------------------------------------------------------
TeamRequest(r) ==
    \/ SetTeams(r) \/ LeaveTeams(r) \/ JoinTeams(r)
    \/ AddMember(r) \/ MergeAssignments(r)
    \/ RemoveMember(r) \/ RevokeAssignments(r) \/ Expel(r)
    \/ SetAsAdmin(r) \/ CreateTeam(r) \/ NextAdmin(r) \/ DeleteTeam(r)

PermissionRequest(r) ==
    \/ CheckGroups(r) \/ ClearAssignments(r) \/ InsertAssignments(r) \/ EvictPermissions(r)
    \/ SaveGroup(r) \/ CountAssignments(r)
    \/ HasPermissions(r) \/ ReadPermissions(r) \/ FillCache(r)
    \/ ReadAtLogin(r) \/ SaveAtLogin(r)

AccessNext ==
    \/ \E r \in Request : TeamRequest(r) \/ PermissionRequest(r) \/ FailRequest(r)
    \/ \E g \in Group : DropGroup(g) \/ KeepGroup(g)

AccessSpec == AccessInit /\ [][AccessNext]_accessVars

-----------------------------------------------------------------------------
(* Properties *)

\* The cached permissions of a user are those of his assignments, except where
\* the code changes them without evicting (removeMember, a group edited, a
\* login that writes old rows back), where the cache was filled from rows read
\* before a change, and while setUserPermissionGroups is at work.
CacheFollows ==
    \A u \in User :
      \/ ~cached[u].hit
      \/ cached[u].grants = Granted(RowsOf(u))
      \/ u \in stale
      \/ \E r \in Request : Handles(r, u) /\ Changes(r)

\* Whoever has a group in a team is a member of the team, unless requests about
\* him overlapped or one of them failed half-way.
AssignedAreMembers ==
    \A row \in assigned :
      \/ <<row.user, row.team>> \in member
      \/ row.user \in torn
      \/ \E r \in Request : Handles(r, row.user)

\* A group that somebody has been given is not deleted, unless it was given while
\* it was being deleted: after its assignments had been counted, or by a request
\* that saves what it has checked or read before ("Permission group is still in
\* use" speaks of the moment of the count).
GroupsInUseStay ==
    \A row \in assigned : group[row.group].state = "live" \/ row.group \in belated

\* What the cache says of a user, who has a group, and which groups there are
\* agree, as far as the code keeps them so.
AccessIsSound == AccessTypeOK /\ CacheFollows /\ AssignedAreMembers /\ GroupsInUseStay
=============================================================================
