---------------------------- MODULE UserAccounts ----------------------------
(***************************************************************************)
(* The accounts of one e-mail address: UsersService and AuthService.  An   *)
(* account is created, activated by a mailed code, logged into, locked     *)
(* after three wrong passwords, reset, switched off and deleted.  A demand *)
(* is one HTTP request, cut at its writes.                                 *)
(*                                                                         *)
(* repository.save(user) writes back every column in which the copy read   *)
(* before differs from the row; update and increment touch one column.     *)
(* An account may also live under another address, and move there and back *)
(* as long as it is not verified.                                          *)
(* A demand's name stands for the password it sets and the code it issues. *)
(***************************************************************************)
EXTENDS Naturals, FiniteSets

CONSTANTS
    Demand,       \* the requests; each is made once
    MaxAccounts,  \* bound on the accounts ever made
    MaxFailed     \* bound on the failed-login counter

AccountsAssumption ==
    /\ MaxAccounts \in Nat \ {0} /\ MaxFailed \in Nat \ {0, 1, 2}
    /\ "nothing" \notin Demand
ASSUME AccountsAssumption

VARIABLES
    account,  \* rows of users
    code,     \* the row of otp for the address (its email column is unique)
    demand,   \* requests at work
    mailed,   \* history: the code mailed last
    users,    \* history: demands that have set a password with each code
    meant,    \* history: what the requests meant the account to be
    muddled,  \* history: accounts in which a copy read before was written back
    reused,   \* history: codes verified by two demands, or left by a failed one
    mixed,    \* history: two demands issued codes at the same time
    twins,    \* history: two demands created the account at the same time
    seized     \* history: an account moved to the address while it was another's

accountVars == <<account, code, demand, mailed, users, meant, muddled, reused,
                 mixed, twins, seized>>

-----------------------------------------------------------------------------
(* Types *)

AccountId == 1..MaxAccounts
Nothing == "nothing"   \* no code, no password
Password == Demand \cup {Nothing, "seed"}

\* "live" has the address, "elsewhere" another one.
Account == [state : {"absent", "live", "elsewhere", "deleted"}, active : BOOLEAN, verified : BOOLEAN,
            password : Password, failed : 0..MaxFailed]
NoAccount == [state |-> "absent", active |-> FALSE, verified |-> FALSE,
              password |-> Nothing, failed |-> 0]

\* "row" stands for the primary key.
Code == [row : Demand \cup {Nothing}, value : Demand \cup {Nothing}, expired : BOOLEAN]
NoCode == [row |-> Nothing, value |-> Nothing, expired |-> FALSE]

DemandKind == {"none", "create", "reset", "login", "unlock", "switch", "delete", "update", "issue"}

DemandState ==
    [kind : DemandKind,
     pc : {"idle", "insert", "otp", "issue", "save", "refresh", "update", "remove", "compare",
           "write", "move", "done"},
     of : AccountId, held : Account,
     code : Code,  \* the code verified, to be deleted
     otp : Code,   \* the row read, to be saved
     right : BOOLEAN]  \* the password given is the one read

FreshDemand == [kind |-> "none", pc |-> "idle", of |-> 1, held |-> NoAccount,
                code |-> NoCode, otp |-> NoCode, right |-> FALSE]

Meaning(a) == [active |-> a.active, password |-> a.password, failed |-> a.failed]

AccountsTypeOK ==
    /\ account \in [AccountId -> Account]
    /\ code \in Code
    /\ demand \in [Demand -> DemandState]
    /\ mailed \in Demand \cup {Nothing}
    /\ users \in [Demand -> SUBSET Demand]
    /\ meant \in [AccountId -> [active : BOOLEAN, password : Password, failed : Nat]]
    /\ muddled \subseteq AccountId
    /\ reused \subseteq Demand
    /\ mixed \in BOOLEAN
    /\ twins \in BOOLEAN
    /\ seized \in BOOLEAN

\* Nobody has the address, or somebody has, with no wrong password behind or with two;
\* others may have been invited under another address.
AccountsInit ==
    /\ \E first \in {NoAccount} \cup
            [state : {"live"}, active : {TRUE}, verified : {TRUE}, password : {"seed"},
             failed : {0, 2}],
          invited \in SUBSET (AccountId \ {1}) :
         account = [i \in AccountId |->
            IF i = 1 THEN first
            ELSE IF i \in invited THEN [NoAccount EXCEPT !.state = "elsewhere"] ELSE NoAccount]
    /\ code = NoCode
    /\ demand = [d \in Demand |-> FreshDemand]
    /\ mailed = Nothing
    /\ users = [d \in Demand |-> {}]
    /\ meant = [i \in AccountId |-> Meaning(account[i])]
    /\ muddled = {}
    /\ reused = {}
    /\ mixed = FALSE
    /\ twins = FALSE
    /\ seized = FALSE

LiveAccounts == {i \in AccountId : account[i].state = "live"}
Accounts == {i \in AccountId : account[i].state \in {"live", "elsewhere"}}
Waiting(kind, pc) == {d \in Demand : demand[d].kind = kind /\ demand[d].pc = pc}
Unmade(d) == demand[d].pc = "idle"
DemandAt(d, pc) == demand[d].pc = pc
Move(d, pc) == demand' = [demand EXCEPT ![d].pc = pc]

\* The demand goes on with a copy of the account.
Hold(d, kind, i, pc) ==
    demand' = [demand EXCEPT ![d] = [@ EXCEPT !.kind = kind, !.pc = pc, !.of = i,
                                              !.held = account[i]]]

-----------------------------------------------------------------------------
(* Codes *)

accountHistory == <<account, users, meant, muddled, reused, twins, seized>>

SavingCode == {d \in Demand : demand[d].pc = "save"}

\* createCodeForReset (of an active account) and createCodeForActivation (of
\* one that is not) read the row of the address,
IssueCode(d) ==
    /\ Unmade(d)
    /\ LiveAccounts # {}
    /\ demand' = [demand EXCEPT ![d] = [@ EXCEPT !.kind = "issue", !.pc = "save", !.otp = code]]
    /\ mixed' = (mixed \/ SavingCode # {})
    /\ UNCHANGED <<code, mailed, accountHistory>>

\* as does updateUser for an account that has moved to it,
IssueMoved(d) ==
    /\ DemandAt(d, "issue")
    /\ demand' = [demand EXCEPT ![d] = [@ EXCEPT !.pc = "save", !.otp = code]]
    /\ mixed' = (mixed \/ SavingCode # {})
    /\ UNCHANGED <<code, mailed, accountHistory>>

NewCode(d, row) == [row |-> row, value |-> d, expired |-> FALSE]

\* and save it with a new code: a row read before is inserted again when it is
\* gone, and the unique index refuses a second one.
SaveCode(d) ==
    /\ DemandAt(d, "save")
    /\ LET row == demand[d].otp.row
       IN IF code.row \in {row, Nothing}
            THEN /\ code' = NewCode(d, IF row = Nothing THEN d ELSE row)
                 /\ mailed' = d
                 /\ Move(d, IF demand[d].kind = "reset" THEN "update" ELSE "done")
            ELSE Move(d, "done") /\ UNCHANGED <<code, mailed>>
    /\ UNCHANGED <<mixed, accountHistory>>

\* Five minutes, or (by 1000 * 60 * 24 * 5) two hours after a day.
ExpireCode ==
    /\ code.value # Nothing
    /\ ~code.expired
    /\ code' = [code EXCEPT !.expired = TRUE]
    /\ UNCHANGED <<demand, mailed, mixed, accountHistory>>

HasCode(d) == demand[d].kind = "reset" /\ demand[d].pc \notin {"idle", "done"}

\* resetPassword and activate, which updates nothing but the password: the code
\* is verified and the account found,
VerifyCode(d) ==
    /\ Unmade(d)
    /\ code.value # Nothing
    /\ ~code.expired
    /\ \E i \in LiveAccounts, pc \in {"refresh", "update"} :
         demand' = [demand EXCEPT ![d] = [@ EXCEPT !.kind = "reset", !.pc = pc,
                                                   !.of = i, !.code = code]]
    /\ reused' = IF \E q \in Demand : HasCode(q) /\ demand[q].code = code
                   THEN reused \cup {code.value} ELSE reused
    /\ UNCHANGED <<account, code, mailed, users, meant, muddled, mixed, twins, seized>>

\* a reset updates the account: its names, and its address when that is no longer
\* the one it was found under (which is refused to a verified account),
Refresh(d) ==
    /\ DemandAt(d, "refresh")
    /\ LET i == demand[d].of
       IN \/ account[i].state = "live" /\ Move(d, "update")
          \/ account[i].state = "elsewhere" /\ ~account[i].verified /\ Hold(d, "reset", i, "move")
    /\ UNCHANGED <<code, mailed, mixed, accountHistory>>

\* the password is set and the account switched on, whatever has become of it,
SetPassword(d) ==
    /\ DemandAt(d, "update")
    /\ LET i == demand[d].of
       IN /\ account' = [account EXCEPT ![i].password = d, ![i].active = TRUE, ![i].verified = TRUE]
          /\ meant' = [meant EXCEPT ![i].password = d, ![i].active = TRUE]
    /\ users' = [users EXCEPT ![demand[d].code.value] = @ \cup {d}]
    /\ Move(d, "remove")
    /\ UNCHANGED <<code, mailed, muddled, reused, mixed, twins, seized>>

\* and the row is deleted if it still is the one that was verified.
RemoveCode(d) ==
    /\ DemandAt(d, "remove")
    /\ code' = IF code.row = demand[d].code.row /\ code.value = demand[d].code.value
                 THEN NoCode ELSE code
    /\ Move(d, "done")
    /\ UNCHANGED <<mailed, mixed, accountHistory>>

-----------------------------------------------------------------------------
(* Accounts *)

codeVars == <<code, mailed, users, reused, mixed>>
\* What no request about an account that is there changes.
restVars == <<twins, seized, codeVars>>

\* createUser: nobody has the address,
CheckAddress(d) ==
    /\ Unmade(d)
    /\ LiveAccounts = {}
    /\ demand' = [demand EXCEPT ![d] = [@ EXCEPT !.kind = "create", !.pc = "insert"]]
    /\ twins' = (twins \/ Waiting("create", "insert") # {})
    /\ UNCHANGED <<account, meant, muddled, seized, codeVars>>

\* the account is saved,
InsertAccount(d) ==
    /\ DemandAt(d, "insert")
    /\ \E i \in AccountId :
         /\ account[i].state = "absent"
         /\ \A j \in 1..(i - 1) : account[j].state # "absent"
         /\ account' = [account EXCEPT ![i].state = "live"]
    /\ Move(d, "otp")
    /\ UNCHANGED <<meant, muddled, restVars>>

\* and a code for it, which fails when the address has one already (of an
\* account deleted before): the account stays, without the mail.
InsertCode(d) ==
    /\ DemandAt(d, "otp")
    /\ IF code.row = Nothing
         THEN code' = NewCode(d, d) /\ mailed' = d
         ELSE UNCHANGED <<code, mailed>>
    /\ Move(d, "done")
    /\ UNCHANGED <<account, meant, muddled, twins, seized, users, reused, mixed>>

\* The copy is saved with one change; what else has changed is undone.
WriteBack(d, a) ==
    LET i == demand[d].of
    IN /\ account' = [account EXCEPT ![i] = a]
       /\ muddled' = IF account[i] = demand[d].held THEN muddled ELSE muddled \cup {i}
       /\ Move(d, "done")
       /\ UNCHANGED restVars

\* checkUser: the account is active and not locked,
FindAccount(d) ==
    /\ Unmade(d)
    /\ \E i \in Accounts, right \in BOOLEAN :
         /\ account[i].active
         /\ account[i].failed < 3
         /\ right => account[i].password # Nothing
         /\ demand' = [demand EXCEPT ![d] = [@ EXCEPT !.kind = "login", !.pc = "compare", !.of = i,
                                                      !.held = account[i], !.right = right]]
    /\ UNCHANGED <<account, meant, muddled, restVars>>

\* Faulty: the counter is counted up from the copy.
CountFromCopy(d) ==
    /\ DemandAt(d, "compare")
    /\ ~demand[d].right
    /\ LET i == demand[d].of
       IN /\ account' = [account EXCEPT ![i].failed = demand[d].held.failed + 1]
          /\ meant' = [meant EXCEPT ![i].failed = @ + 1]
    /\ Move(d, "done")
    /\ UNCHANGED <<muddled, restVars>>

\* a wrong password is counted in the row,
RefusePassword(d) ==
    /\ DemandAt(d, "compare")
    /\ ~demand[d].right
    /\ LET i == demand[d].of
       IN /\ account[i].failed < MaxFailed
          /\ account' = [account EXCEPT ![i].failed = @ + 1]
          /\ meant' = [meant EXCEPT ![i].failed = @ + 1]
    /\ Move(d, "done")
    /\ UNCHANGED <<muddled, restVars>>

\* and the right one clears the counter.
AcceptPassword(d) ==
    /\ DemandAt(d, "compare")
    /\ demand[d].right
    /\ WriteBack(d, [demand[d].held EXCEPT !.failed = 0])
    /\ meant' = [meant EXCEPT ![demand[d].of].failed = 0]

\* unlockUser, inactiveUser, deleteUser and updateUser read the account: only one
\* that is verified may be switched, only one that is not may change its address,
ReadAccount(d) ==
    /\ Unmade(d)
    /\ \E i \in Accounts :
         \/ Hold(d, "unlock", i, "write")
         \/ account[i].verified /\ Hold(d, "switch", i, "write")
         \/ Hold(d, "delete", i, "write")
         \/ Hold(d, "update", i, IF account[i].verified THEN "write" ELSE "move")
    /\ UNCHANGED <<account, meant, muddled, restVars>>

\* and write: the counter,
Unlock(d) ==
    /\ DemandAt(d, "write")
    /\ demand[d].kind = "unlock"
    /\ WriteBack(d, [demand[d].held EXCEPT !.failed = 0])
    /\ meant' = [meant EXCEPT ![demand[d].of].failed = 0]

\* the switch,
Switch(d) ==
    /\ DemandAt(d, "write")
    /\ demand[d].kind = "switch"
    /\ \E on \in BOOLEAN :
         /\ WriteBack(d, [demand[d].held EXCEPT !.active = on])
         /\ meant' = [meant EXCEPT ![demand[d].of].active = on]

\* or the end; the address is free again, its code stays.
DeleteAccount(d) ==
    /\ DemandAt(d, "write")
    /\ demand[d].kind = "delete"
    /\ account' = [account EXCEPT ![demand[d].of].state = "deleted",
                                  ![demand[d].of].active = FALSE]
    /\ meant' = [meant EXCEPT ![demand[d].of].active = FALSE]
    /\ Move(d, "done")
    /\ UNCHANGED <<muddled, restVars>>

\* updateUser writes the one column that it has seen change: the switch,
UpdateAccount(d) ==
    /\ DemandAt(d, "write")
    /\ demand[d].kind = "update"
    /\ LET i  == demand[d].of
           on == ~demand[d].held.active
       IN /\ account' = [account EXCEPT ![i].active = on]
          /\ meant' = [meant EXCEPT ![i].active = on]
    /\ Move(d, "done")
    /\ UNCHANGED <<muddled, restVars>>

\* or the address, whoever has the new one (a code for this one follows).
MoveAccount(d) ==
    /\ DemandAt(d, "move")
    /\ LET i  == demand[d].of
           to == IF demand[d].held.state = "live" THEN "elsewhere" ELSE "live"
       IN /\ account' = [account EXCEPT ![i].state = IF @ = "deleted" THEN @ ELSE to]
          /\ seized' = (seized \/ (to = "live" /\ (LiveAccounts \ {i} # {} \/ Waiting("create", "insert") # {})))
          /\ Move(d, IF to = "live" THEN "issue" ELSE "done")
    /\ UNCHANGED <<meant, muddled, twins, codeVars>>

\* A statement fails or the process dies.
FailDemand(d) ==
    /\ demand[d].pc \notin {"idle", "done"}
    /\ Move(d, "done")
    /\ reused' = IF DemandAt(d, "remove") THEN reused \cup {demand[d].code.value} ELSE reused
    /\ UNCHANGED <<account, code, mailed, users, meant, muddled, mixed, twins, seized>>

-----------------------------------------------------------------------------
AccountsNext ==
    \/ \E d \in Demand :
         \/ IssueCode(d) \/ IssueMoved(d) \/ SaveCode(d)
         \/ VerifyCode(d) \/ Refresh(d) \/ SetPassword(d) \/ RemoveCode(d)
         \/ CheckAddress(d) \/ InsertAccount(d) \/ InsertCode(d)
         \/ FindAccount(d) \/ RefusePassword(d) \/ AcceptPassword(d)
         \/ ReadAccount(d) \/ Unlock(d) \/ Switch(d) \/ DeleteAccount(d)
         \/ UpdateAccount(d) \/ MoveAccount(d) \/ FailDemand(d)
    \/ ExpireCode

AccountsSpec == AccountsInit /\ [][AccountsNext]_accountVars

-----------------------------------------------------------------------------
(* Properties *)

\* An account is what the requests have made of it: no wrong password goes
\* uncounted, no reset and no switch is undone, except by a save that writes
\* back a copy read before another request changed the row.
AccountAsMeant ==
    \A i \in AccountId \ muddled : Meaning(account[i]) = meant[i]

\* One live account per address, unless two requests to create it overlapped
\* (the column has no unique index), a copy from before a deletion or a change of
\* address was saved, or updateUser moved an account to an address that was
\* another's (only createUser asks).
OneLiveAccount ==
    Cardinality(LiveAccounts) <= 1 \/ twins \/ seized \/ muddled # {}

\* A code sets one password, unless two demands have verified it before either
\* deletes it, or the one that used it failed before it could.
CodeUsedOnce ==
    \A c \in Demand : Cardinality(users[c]) <= 1 \/ c \in reused

\* The code mailed last is the one that is accepted, until it is used: a reset
\* with an older code does not take it away.
MailedCodeStands ==
    \/ mailed = Nothing
    \/ code.value = mailed
    \/ users[mailed] # {}
    \/ mixed

\* The accounts of an address and its codes are what its requests have made of
\* them, however they overlap or fail, outside of the named races.
AccountsAreSound ==
    AccountsTypeOK /\ AccountAsMeant /\ OneLiveAccount /\ CodeUsedOnce /\ MailedCodeStands
=============================================================================
