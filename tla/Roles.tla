-------------------------------- MODULE Roles --------------------------------
(***************************************************************************)
(* Roles, the permissions they carry, and who has which role:              *)
(* app/services/role_service.py behind app/api/v1/users.py.                *)
(*                                                                         *)
(* Every request is judged by the ladder rule: its actor may only give or  *)
(* take permissions that it holds.  As everywhere in the service a request *)
(* loads and checks (`...Load'), and writes at its commit, with anything   *)
(* committing in between.  A role is a row: it is created once, and a new  *)
(* role of the same name is another row.                                   *)
(***************************************************************************)
EXTENDS Naturals

CONSTANTS
    User,           \* the verified accounts
    Role,           \* the rows that the roles table can have
    BuiltIn,        \* those that the migrations made (is_system)
    Permission,     \* the permission codes
    NOT_A_POWER,    \* those that anyone may hand out
    FirstGrants,    \* the permissions of the built-in roles to start with
    FirstRole,      \* the role that each account starts with
    Request,        \* the requests the server can be handling at a time
    Calls           \* the endpoints that the clients of this instance call

ASSUME RolesAssumption ==
    /\ BuiltIn \subseteq Role
    /\ NOT_A_POWER \subseteq Permission
    /\ {"role.manage", "user.manage"} \subseteq Permission
    /\ FirstGrants \in [BuiltIn -> SUBSET Permission]
    /\ FirstRole \in [User -> BuiltIn]

VARIABLES
    roles,      \* the roles table, with role_permissions
    accounts,   \* role_id and is_active of the users table
    txn,        \* txn[r]: what request r has loaded and is about to write
    effects     \* the actor of the last commit, and the permissions it held
                \* when it was judged: an observer's variable

vars == <<roles, accounts, txn, effects>>

RoleRow == [state: {"none", "live", "deleted"}, permissions: SUBSET Permission]
Account == [role: Role, active: BOOLEAN]

Idle == [call |-> "idle"]

Txn == [call: {"create", "edit", "delete", "assign", "active"},
        actor: User, held: SUBSET Permission, role: Role,
        before: SUBSET Permission, after: SUBSET Permission,
        user: User, active: BOOLEAN]

TypeOK ==
    /\ roles \in [Role -> RoleRow]
    /\ accounts \in [User -> Account]
    /\ txn \in [Request -> Txn \cup {Idle}]
    /\ \A i \in Role : roles[i].state # "live" => roles[i].permissions = {}

Init ==
    /\ roles = [i \in Role |->
            IF i \in BuiltIn THEN [state |-> "live", permissions |-> FirstGrants[i]]
                             ELSE [state |-> "none", permissions |-> {}]]
    /\ accounts = [u \in User |-> [role |-> FirstRole[u], active |-> TRUE]]
    /\ txn = [r \in Request |-> Idle]
    /\ effects = [action |-> "none"]

Live(i) == roles[i].state = "live"

Permissions(u) == roles[accounts[u].role].permissions

\* What the account may do now: a disabled one may do nothing.
Powers == [u \in User |-> IF accounts[u].active THEN Permissions(u) ELSE {}]

Changes(before, after) == (before \ after) \cup (after \ before)

\* require_permission on the caller.
MayCall(u, p) == accounts[u].active /\ p \in Permissions(u)

CheckActorMayChange_Granted(u, before, after) ==    \* slip: what is taken is not checked
    after \subseteq Permissions(u) \cup NOT_A_POWER

CheckActorMayChange(u, before, after) ==
    before \cup after \subseteq Permissions(u) \cup NOT_A_POWER

NotYourOwn_Any(u, other) == TRUE    \* slip: the checks on yourself left out

NotYourOwn(own, other) == own # other

Begin(r, call, u, i, before, after, user, active) ==
    /\ call \in Calls
    /\ txn[r] = Idle
    /\ txn' = [txn EXCEPT ![r] = [call |-> call, actor |-> u, held |-> Permissions(u),
                                  role |-> i, before |-> before, after |-> after,
                                  user |-> user, active |-> active]]
    /\ effects' = [action |-> "none"]
    /\ UNCHANGED <<roles, accounts>>

\* The commit of request r.
Commit(r, call) ==
    /\ txn[r].call = call
    /\ txn' = [txn EXCEPT ![r] = Idle]
    /\ effects' = [action |-> call, actor |-> txn[r].actor, held |-> txn[r].held]

-----------------------------------------------------------------------------
(* Role management. *)

CreateLoad(r, u, i, permissions) ==
    /\ MayCall(u, "role.manage")
    /\ roles[i].state = "none"
    /\ CheckActorMayChange(u, {}, permissions)
    /\ Begin(r, "create", u, i, {}, permissions, u, TRUE)

CreateCommit(r) ==
    /\ Commit(r, "create")
    /\ roles[txn[r].role].state = "none"
    /\ roles' = [roles EXCEPT ![txn[r].role] =
                    [state |-> "live", permissions |-> txn[r].after]]
    /\ UNCHANGED accounts

SetPermissionsLoad(r, u, i, permissions) ==
    /\ MayCall(u, "role.manage")
    /\ Live(i)
    /\ NotYourOwn(accounts[u].role, i)
    /\ LET before == roles[i].permissions IN
       /\ before # permissions
       /\ CheckActorMayChange(u, before \ permissions, permissions \ before)
       /\ Begin(r, "edit", u, i, before, permissions, u, TRUE)

\* The ORM inserts and deletes the rows of role_permissions that differ from
\* those it loaded.  An insert needs its role, and fails if the row is there;
\* the delete of a row that is gone does nothing, or fails (Abort).
Rewritten_Whole(x, permissions) == x.after  \* slip: every row written anew

Rewritten(x, permissions) ==
    (permissions \ (x.before \ x.after)) \cup (x.after \ x.before)

SetPermissionsCommit(r) ==
    /\ Commit(r, "edit")
    /\ LET x == txn[r]
           added == x.after \ x.before
       IN
       /\ added # {} => Live(x.role)
       /\ added \cap roles[x.role].permissions = {}
       /\ roles' = [roles EXCEPT ![x.role].permissions = Rewritten(x, @)]
    /\ UNCHANGED accounts

DeleteLoad(r, u, i) ==
    /\ MayCall(u, "role.manage")
    /\ Live(i)
    /\ i \notin BuiltIn
    /\ \A v \in User : accounts[v].role # i
    /\ Begin(r, "delete", u, i, {}, {}, u, TRUE)

\* users.role_id references roles ON DELETE RESTRICT.
ReferencesRestrict_None(i) == TRUE      \* slip: only the count of users, read at load

ReferencesRestrict(i) == \A v \in User : accounts[v].role # i

\* Its grants go with it, ON DELETE CASCADE.
Deleted(row) == [state |-> "deleted", permissions |-> {}]

DeleteCommit(r) ==
    /\ Commit(r, "delete")
    /\ ReferencesRestrict(txn[r].role)
    /\ roles' = [roles EXCEPT ![txn[r].role] = Deleted(@)]
    /\ UNCHANGED accounts

-----------------------------------------------------------------------------
(* Roles and access of accounts. *)

AssignLoad(r, u, v, i) ==
    /\ MayCall(u, "user.manage")
    /\ NotYourOwn(u, v)
    /\ Live(i)
    /\ accounts[v].role # i
    /\ CheckActorMayChange(u, Permissions(v), roles[i].permissions)
    /\ Begin(r, "assign", u, i, {}, {}, v, TRUE)

\* The foreign key again: the role must still be there.
AssignCommit(r) ==
    /\ Commit(r, "assign")
    /\ Live(txn[r].role)
    /\ accounts' = [accounts EXCEPT ![txn[r].user].role = txn[r].role]
    /\ UNCHANGED roles

SetActiveLoad(r, u, v, active) ==
    /\ MayCall(u, "user.manage")
    /\ NotYourOwn(u, v)
    /\ CheckActorMayChange(u, Permissions(v), {})
    /\ accounts[v].active # active
    /\ Begin(r, "active", u, accounts[v].role, {}, {}, v, active)

SetActiveCommit(r) ==
    /\ Commit(r, "active")
    /\ accounts' = [accounts EXCEPT ![txn[r].user].active = txn[r].active]
    /\ UNCHANGED roles

\* An error, or the rollback of a write that a constraint refused.
Abort(r) ==
    /\ txn[r] # Idle
    /\ txn' = [txn EXCEPT ![r] = Idle]
    /\ effects' = [action |-> "none"]
    /\ UNCHANGED <<roles, accounts>>

-----------------------------------------------------------------------------
Load(r) ==
    \E u \in User :
        \/ \E i \in Role, permissions \in SUBSET Permission :
                \/ CreateLoad(r, u, i, permissions)
                \/ SetPermissionsLoad(r, u, i, permissions)
        \/ \E i \in Role : DeleteLoad(r, u, i)
        \/ \E v \in User, i \in Role : AssignLoad(r, u, v, i)
        \/ \E v \in User, active \in BOOLEAN : SetActiveLoad(r, u, v, active)

Write(r) ==
    \/ CreateCommit(r)
    \/ SetPermissionsCommit(r)
    \/ DeleteCommit(r)
    \/ AssignCommit(r)
    \/ SetActiveCommit(r)

Next == \E r \in Request : Load(r) \/ Write(r) \/ Abort(r)

Spec == Init /\ [][Next]_vars

-----------------------------------------------------------------------------
(* What holds however requests overlap.                                    *)

\* Every account has a role that exists, although a role may be given away
\* while its deletion, which counted no users, is in flight.
RolesExist == \A u \in User : Live(accounts[u].role)

\* Why EditsWithinReach holds: an edit in flight asks for nothing beyond what
\* its actor held when it was judged.
EditInv ==
    \A r \in Request : txn[r].call = "edit" =>
        Changes(txn[r].before, txn[r].after) \subseteq txn[r].held \cup NOT_A_POWER

\* A commit changes nothing about a role but what its actor held when it was
\* judged: overlapping edits of one role keep each other's changes.
EditsWithinReach ==
    [][effects'.action = "edit" => \A i \in Role :
        Changes(roles[i].permissions, roles'[i].permissions)
            \subseteq effects'.held \cup NOT_A_POWER]_vars

-----------------------------------------------------------------------------
(* What the service promises when requests do not overlap.                 *)

\* The ladder rule, by what comes of it: nobody gains or loses a power by the
\* hand of someone who does not hold it, by whatever role, edit or switch.
NoLadder ==
    [][effects'.action # "none" => \A u \in User :
        Changes(Powers[u], Powers'[u]) \subseteq Powers[effects'.actor] \cup NOT_A_POWER]_vars

\* What accounts can do to start with.
FirstPowers == (UNION {FirstGrants[FirstRole[u]] : u \in User}) \ NOT_A_POWER

\* There is no "last holder" check, because none is needed: a power that an
\* account holds at first is never without an active holder.
SomebodyHolds ==
    \A p \in FirstPowers : \E u \in User : p \in Powers[u]

\* Why both hold: while the only request is in flight, what it was judged by is
\* still so.
LadderInv ==
    /\ RolesExist
    /\ \A r \in Request : txn[r] # Idle =>
        LET x == txn[r]
            Within(permissions) == permissions \subseteq x.held \cup NOT_A_POWER
        IN
        /\ accounts[x.actor].active
        /\ x.held = Permissions(x.actor)
        /\ x.call = "create" => ~Live(x.role)
        /\ x.call = "edit" => /\ accounts[x.actor].role # x.role
                             /\ roles[x.role].permissions = x.before
                             /\ Within(Changes(x.before, x.after))
        /\ x.call = "assign" => /\ x.user # x.actor
                               /\ Within(Permissions(x.user) \cup roles[x.role].permissions)
        /\ x.call = "active" => x.user # x.actor /\ Within(Permissions(x.user))
=============================================================================
