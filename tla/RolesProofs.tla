----------------------------- MODULE RolesProofs -----------------------------
(***************************************************************************)
(* Theorems about Roles, for any accounts, roles, permissions and number   *)
(* of overlapping requests.                                                *)
(***************************************************************************)
EXTENDS Roles, TLAPS

\* A slot that is not idle holds a request.
LEMMA Busy ==
  ASSUME TypeOK, NEW r \in Request, txn[r] # Idle
  PROVE  txn[r] \in Txn
BY DEF TypeOK

LEMMA CallBusy ==
  ASSUME NEW r \in Request, NEW c, Commit(r, c), c # "idle"
  PROVE  txn[r] # Idle
BY DEF Commit, Idle

\* The rows stay typed, and the grants of a role go with it.
THEOREM TypeCorrect == Spec => []TypeOK
<1>1. Init => TypeOK
  BY RolesAssumption DEF Init, TypeOK, RoleRow, Account
<1>2. TypeOK /\ [Next]_vars => TypeOK'
  <2>. SUFFICES ASSUME TypeOK, [Next]_vars
                PROVE  TypeOK'
    OBVIOUS
  <2>. USE DEF TypeOK, RoleRow, Account
  <2>1. ASSUME NEW r \in Request, Load(r)
        PROVE  TypeOK'
    <3>1. PICK u \in User : Load(r)!(u)
      BY <2>1 DEF Load
    <3>2. ASSUME NEW call \in {"create", "edit", "delete", "assign", "active"},
                 NEW i \in Role, NEW before \in SUBSET Permission,
                 NEW after \in SUBSET Permission, NEW v \in User,
                 NEW active \in BOOLEAN, Begin(r, call, u, i, before, after, v, active)
          PROVE  TypeOK'
      <4>1. Permissions(u) \in SUBSET Permission
        BY DEF Permissions
      <4>2. txn' \in [Request -> Txn \cup {Idle}]
        BY <3>2, <4>1 DEF Begin, Txn
      <4>. QED
        BY <3>2, <4>2 DEF Begin
    <3>3. ASSUME NEW i \in Role, NEW permissions \in SUBSET Permission,
                 CreateLoad(r, u, i, permissions) \/ SetPermissionsLoad(r, u, i, permissions)
          PROVE  TypeOK'
      BY <3>2, <3>3 DEF CreateLoad, SetPermissionsLoad
    <3>4. ASSUME NEW i \in Role, DeleteLoad(r, u, i)
          PROVE  TypeOK'
      BY <3>2, <3>4 DEF DeleteLoad
    <3>5. ASSUME NEW v \in User, NEW i \in Role, AssignLoad(r, u, v, i)
          PROVE  TypeOK'
      BY <3>2, <3>5 DEF AssignLoad
    <3>6. ASSUME NEW v \in User, NEW active \in BOOLEAN, SetActiveLoad(r, u, v, active)
          PROVE  TypeOK'
      <4>1. accounts[v].role \in Role
        OBVIOUS
      <4>2. {} \in SUBSET Permission
        OBVIOUS
      <4>3. Begin(r, "active", u, accounts[v].role, {}, {}, v, active)
        BY <3>6 DEF SetActiveLoad
      <4>. HIDE DEF TypeOK, RoleRow, Account
      <4>. QED
        BY <3>2, <4>1, <4>2, <4>3
    <3>. QED
      BY <3>1, <3>3, <3>4, <3>5, <3>6
  <2>2. ASSUME NEW r \in Request, CreateCommit(r)
        PROVE  TypeOK'
    BY <2>2, Busy, CallBusy DEF CreateCommit, Commit, Txn
  <2>3. ASSUME NEW r \in Request, SetPermissionsCommit(r)
        PROVE  TypeOK'
    <3>1. txn[r] \in Txn
      BY <2>3, Busy, CallBusy DEF SetPermissionsCommit
    <3>2. roles' = [roles EXCEPT ![txn[r].role].permissions = Rewritten(txn[r], @)]
      BY <2>3 DEF SetPermissionsCommit
    <3>3. roles' \in [Role -> RoleRow]
      BY <3>1, <3>2 DEF Txn, Rewritten
    <3>4. ASSUME NEW i \in Role, roles'[i].state # "live"
          PROVE  roles'[i].permissions = {}
      <4>1. roles[i].state # "live" /\ roles[i].permissions = {}
        BY <3>1, <3>2, <3>4 DEF Txn
      <4>2. CASE i = txn[r].role
        <5>1. txn[r].after \ txn[r].before = {}
          BY <2>3, <4>1, <4>2 DEF SetPermissionsCommit, Live
        <5>2. roles'[i].permissions = Rewritten(txn[r], roles[i].permissions)
          BY <3>1, <3>2, <4>2 DEF Txn
        <5>. QED
          BY <4>1, <5>1, <5>2 DEF Rewritten
      <4>3. CASE i # txn[r].role
        BY <3>2, <4>1, <4>3
      <4>. QED
        BY <4>2, <4>3
    <3>5. txn' \in [Request -> Txn \cup {Idle}]
      BY <2>3 DEF SetPermissionsCommit, Commit
    <3>. QED
      BY <2>3, <3>3, <3>4, <3>5 DEF SetPermissionsCommit
  <2>4. ASSUME NEW r \in Request, DeleteCommit(r)
        PROVE  TypeOK'
    BY <2>4, Busy, CallBusy DEF DeleteCommit, Deleted, Commit, Txn
  <2>5. ASSUME NEW r \in Request, AssignCommit(r) \/ SetActiveCommit(r)
        PROVE  TypeOK'
    <3>1. txn[r] \in Txn
      BY <2>5, Busy, CallBusy DEF AssignCommit, SetActiveCommit
    <3>. QED
      BY <2>5, <3>1 DEF AssignCommit, SetActiveCommit, Commit, Txn
  <2>6. ASSUME NEW r \in Request, Abort(r)
        PROVE  TypeOK'
    BY <2>6 DEF Abort
  <2>7. CASE UNCHANGED vars
    BY <2>7 DEF vars
  <2>. QED
    BY <2>1, <2>2, <2>3, <2>4, <2>5, <2>6, <2>7 DEF Next, Write
<1>. QED
  BY <1>1, <1>2, PTL DEF Spec

-----------------------------------------------------------------------------
\* A request that loads and one that is rolled back leave the rows alone.
LEMMA RowsUnchanged ==
  ASSUME NEW r \in Request, Load(r) \/ Abort(r)
  PROVE  UNCHANGED <<roles, accounts>> /\ effects'.action = "none"
<1>1. CASE Load(r)
  <2>1. PICK u \in User : Load(r)!(u)
    BY <1>1 DEF Load
  <2>2. ASSUME NEW call, NEW i, NEW before, NEW after, NEW v, NEW active,
               Begin(r, call, u, i, before, after, v, active)
        PROVE  UNCHANGED <<roles, accounts>> /\ effects'.action = "none"
    BY <2>2 DEF Begin
  <2>3. ASSUME NEW i \in Role, NEW permissions \in SUBSET Permission,
               CreateLoad(r, u, i, permissions) \/ SetPermissionsLoad(r, u, i, permissions)
        PROVE  UNCHANGED <<roles, accounts>> /\ effects'.action = "none"
    BY <2>2, <2>3 DEF CreateLoad, SetPermissionsLoad
  <2>4. ASSUME NEW i \in Role, DeleteLoad(r, u, i)
        PROVE  UNCHANGED <<roles, accounts>> /\ effects'.action = "none"
    BY <2>2, <2>4 DEF DeleteLoad
  <2>5. ASSUME NEW v \in User, NEW i \in Role, AssignLoad(r, u, v, i)
        PROVE  UNCHANGED <<roles, accounts>> /\ effects'.action = "none"
    BY <2>2, <2>5 DEF AssignLoad
  <2>6. ASSUME NEW v \in User, NEW active \in BOOLEAN, SetActiveLoad(r, u, v, active)
        PROVE  UNCHANGED <<roles, accounts>> /\ effects'.action = "none"
    BY <2>2, <2>6 DEF SetActiveLoad
  <2>. QED
    BY <2>1, <2>3, <2>4, <2>5, <2>6
<1>2. CASE Abort(r)
  BY <1>2 DEF Abort
<1>. QED
  BY <1>1, <1>2

\* Deletions, assignments and edits may overlap as they like: nobody is left
\* with a role that does not exist.
THEOREM RolesExistAlways == Spec => []RolesExist
<1>1. Init => RolesExist
  <2>. SUFFICES ASSUME Init, NEW u \in User
                PROVE  roles[accounts[u].role].state = "live"
    BY DEF RolesExist, Live
  <2>1. accounts[u].role \in BuiltIn /\ accounts[u].role \in Role
    BY RolesAssumption DEF Init
  <2>. QED
    BY <2>1 DEF Init
<1>2. TypeOK /\ RolesExist /\ [Next]_vars => RolesExist'
  <2>. SUFFICES ASSUME TypeOK, RolesExist, [Next]_vars
                PROVE  RolesExist'
    OBVIOUS
  <2>. USE DEF TypeOK, RoleRow, Account, RolesExist, Live
  <2>1. ASSUME NEW r \in Request, Load(r) \/ Abort(r)
        PROVE  RolesExist'
    BY <2>1, RowsUnchanged
  <2>2. ASSUME NEW r \in Request, CreateCommit(r) \/ SetPermissionsCommit(r)
        PROVE  RolesExist'
    <3>1. accounts' = accounts
      BY <2>2 DEF CreateCommit, SetPermissionsCommit
    <3>2. \A i \in Role : roles[i].state = "live" => roles'[i].state = "live"
      BY <2>2 DEF CreateCommit, SetPermissionsCommit
    <3>. QED
      BY <3>1, <3>2
  <2>3. ASSUME NEW r \in Request, DeleteCommit(r)
        PROVE  RolesExist'
    <3>1. \A u \in User : accounts[u].role # txn[r].role
      BY <2>3 DEF DeleteCommit, ReferencesRestrict
    <3>. QED
      BY <2>3, <3>1 DEF DeleteCommit
  <2>4. ASSUME NEW r \in Request, AssignCommit(r)
        PROVE  RolesExist'
    BY <2>4, Busy, CallBusy DEF AssignCommit
  <2>5. ASSUME NEW r \in Request, SetActiveCommit(r)
        PROVE  RolesExist'
    BY <2>5 DEF SetActiveCommit
  <2>6. CASE UNCHANGED vars
    BY <2>6 DEF vars
  <2>. QED
    BY <2>1, <2>2, <2>3, <2>4, <2>5, <2>6 DEF Next, Write
<1>. QED
  BY <1>1, <1>2, TypeCorrect, PTL DEF Spec

-----------------------------------------------------------------------------
LEMMA EditInvStep ==
  ASSUME TypeOK, EditInv, [Next]_vars
  PROVE  EditInv'
<1>. USE DEF EditInv
<1>1. ASSUME NEW r \in Request, txn'[r] = Idle \/ txn'[r].call # "edit",
             \A q \in Request \ {r} : txn'[q] = txn[q]
      PROVE  EditInv'
  BY <1>1 DEF Idle
<1>2. ASSUME NEW r \in Request, NEW u \in User, NEW i \in Role,
             NEW permissions \in SUBSET Permission,
             SetPermissionsLoad(r, u, i, permissions)
      PROVE  EditInv'
  <2>1. /\ \A q \in Request \ {r} : txn'[q] = txn[q]
        /\ txn'[r].before = roles[i].permissions
        /\ txn'[r].after = permissions
        /\ txn'[r].held = Permissions(u)
    BY <1>2 DEF SetPermissionsLoad, Begin, TypeOK
  <2>2. Changes(roles[i].permissions, permissions) \subseteq Permissions(u) \cup NOT_A_POWER
    BY <1>2 DEF SetPermissionsLoad, CheckActorMayChange, Changes
  <2>. QED
    BY <2>1, <2>2
<1>3. ASSUME NEW r \in Request, Load(r)
      PROVE  EditInv'
  <2>1. PICK u \in User : Load(r)!(u)
    BY <1>3 DEF Load
  <2>2. ASSUME NEW call \in {"create", "delete", "assign", "active"},
               NEW i, NEW before, NEW after, NEW v, NEW active,
               Begin(r, call, u, i, before, after, v, active)
        PROVE  EditInv'
    BY <1>1, <2>2 DEF Begin, TypeOK
  <2>3. ASSUME NEW i \in Role, NEW permissions \in SUBSET Permission,
               CreateLoad(r, u, i, permissions)
        PROVE  EditInv'
    BY <2>2, <2>3 DEF CreateLoad
  <2>4. ASSUME NEW i \in Role, DeleteLoad(r, u, i)
        PROVE  EditInv'
    BY <2>2, <2>4 DEF DeleteLoad
  <2>5. ASSUME NEW v \in User, NEW i \in Role, AssignLoad(r, u, v, i)
        PROVE  EditInv'
    BY <2>2, <2>5 DEF AssignLoad
  <2>6. ASSUME NEW v \in User, NEW active \in BOOLEAN, SetActiveLoad(r, u, v, active)
        PROVE  EditInv'
    BY <2>2, <2>6 DEF SetActiveLoad
  <2>. QED
    BY <1>2, <2>1, <2>3, <2>4, <2>5, <2>6
<1>4. ASSUME NEW r \in Request, Write(r) \/ Abort(r)
      PROVE  EditInv'
  <2>1. txn' = [txn EXCEPT ![r] = Idle]
    BY <1>4 DEF Write, CreateCommit, SetPermissionsCommit, DeleteCommit, AssignCommit,
                SetActiveCommit, Commit, Abort
  <2>. QED
    BY <1>1, <2>1 DEF TypeOK
<1>5. CASE UNCHANGED vars
  BY <1>5 DEF vars
<1>. QED
  BY <1>3, <1>4, <1>5 DEF Next

\* Two edits of a role at once keep each other's changes, and neither reaches
\* further than its actor could.
THEOREM EditsWithinReachAlways == Spec => EditsWithinReach
<1>. DEFINE Step == effects'.action = "edit" => \A i \in Role :
                Changes(roles[i].permissions, roles'[i].permissions)
                    \subseteq effects'.held \cup NOT_A_POWER
<1>1. Init => EditInv
  BY DEF Init, EditInv, Idle
<1>2. TypeOK /\ EditInv /\ [Next]_vars => EditInv'
  BY EditInvStep
<1>3. ASSUME TypeOK, EditInv, [Next]_vars
      PROVE  [Step]_vars
  <2>1. ASSUME NEW r \in Request, Load(r) \/ Abort(r)
        PROVE  Step
    BY <2>1, RowsUnchanged
  <2>2. ASSUME NEW r \in Request,
               CreateCommit(r) \/ DeleteCommit(r) \/ AssignCommit(r) \/ SetActiveCommit(r)
        PROVE  Step
    BY <2>2 DEF CreateCommit, DeleteCommit, AssignCommit, SetActiveCommit, Commit
  <2>3. ASSUME NEW r \in Request, SetPermissionsCommit(r)
        PROVE  Step
    <3>. USE <1>3
    <3>1. Changes(txn[r].before, txn[r].after) \subseteq txn[r].held \cup NOT_A_POWER
      BY <2>3 DEF EditInv, SetPermissionsCommit, Commit
    <3>2. effects'.held = txn[r].held
      BY <2>3 DEF SetPermissionsCommit, Commit
    <3>3. ASSUME NEW i \in Role
          PROVE  \/ roles'[i].permissions = roles[i].permissions
                 \/ roles'[i].permissions = Rewritten(txn[r], roles[i].permissions)
      BY <2>3 DEF SetPermissionsCommit, TypeOK, RoleRow
    <3>. QED
      BY <3>1, <3>2, <3>3 DEF Changes, Rewritten
  <2>. QED
    BY <1>3, <2>1, <2>2, <2>3 DEF Next, Write
<1>. QED
  BY <1>1, <1>2, <1>3, TypeCorrect, PTL DEF Spec, EditsWithinReach

-----------------------------------------------------------------------------
(* The service that handles one request at a time. *)

OneAtATime == \A r, q \in Request : r = q

\* Changes within the reach of an actor who keeps its powers lose no holder.
LEMMA NoLastHolderLost ==
  ASSUME NEW a \in User, Powers'[a] = Powers[a], SomebodyHolds,
         \A u \in User : Changes(Powers[u], Powers'[u]) \subseteq Powers[a] \cup NOT_A_POWER
  PROVE  SomebodyHolds'
<1>. SUFFICES ASSUME NEW p \in FirstPowers
              PROVE  \E u \in User : p \in Powers'[u]
  BY DEF SomebodyHolds
<1>1. PICK u \in User : p \in Powers[u]
  BY DEF SomebodyHolds
<1>2. CASE p \in Powers'[u]
  BY <1>2
<1>3. CASE p \notin Powers'[u]
  <2>1. p \in Changes(Powers[u], Powers'[u])
    BY <1>1, <1>3 DEF Changes
  <2>2. p \notin NOT_A_POWER
    BY DEF FirstPowers
  <2>3. p \in Powers[a]
    BY <2>1, <2>2
  <2>. QED
    BY <2>3
<1>. QED
  BY <1>2, <1>3

\* What a commit does to powers, by what its request was judged by.
LEMMA CommitWithinReach ==
  ASSUME TypeOK, LadderInv, NEW r \in Request, Write(r)
  PROVE  /\ txn[r].actor \in User
         /\ effects'.actor = txn[r].actor
         /\ Powers'[txn[r].actor] = Powers[txn[r].actor]
         /\ \A u \in User : Changes(Powers[u], Powers'[u])
                \subseteq Powers[txn[r].actor] \cup NOT_A_POWER
<1>. DEFINE x == txn[r]
            a == txn[r].actor
<1>1. x # Idle /\ effects'.actor = a
  BY CallBusy DEF Write, CreateCommit, SetPermissionsCommit, DeleteCommit, AssignCommit,
                  SetActiveCommit, Commit
<1>2. x \in Txn /\ a \in User
  BY <1>1, Busy DEF Txn
<1>3. /\ accounts[a].active
      /\ x.held = Permissions(a)
      /\ Powers[a] = x.held
  BY <1>1, <1>2 DEF LadderInv, Powers
<1>4. \A u \in User : accounts[u].role \in Role /\ Live(accounts[u].role)
  BY DEF LadderInv, RolesExist, TypeOK, Account
<1>5. CASE CreateCommit(r) \/ DeleteCommit(r)
  <2>1. accounts' = accounts
    BY <1>5 DEF CreateCommit, DeleteCommit
  <2>2. \A u \in User : accounts[u].role # x.role
    BY <1>4, <1>5 DEF CreateCommit, DeleteCommit, ReferencesRestrict, Live
  <2>3. \A u \in User : roles'[accounts[u].role] = roles[accounts[u].role]
    BY <1>4, <1>5, <2>2 DEF CreateCommit, DeleteCommit, TypeOK
  <2>4. \A u \in User : Powers'[u] = Powers[u]
    BY <2>1, <2>3 DEF Powers, Permissions
  <2>. QED
    BY <1>1, <1>2, <2>4 DEF Changes
<1>6. CASE SetPermissionsCommit(r)
  <2>1. /\ accounts[a].role # x.role
        /\ roles[x.role].permissions = x.before
        /\ Changes(x.before, x.after) \subseteq x.held \cup NOT_A_POWER
    BY <1>1, <1>6 DEF LadderInv, SetPermissionsCommit, Commit
  <2>2. accounts' = accounts
    BY <1>6 DEF SetPermissionsCommit
  <2>3. \A i \in Role : roles'[i].permissions =
            IF i = x.role THEN Rewritten(x, roles[i].permissions) ELSE roles[i].permissions
    BY <1>2, <1>6 DEF SetPermissionsCommit, TypeOK, RoleRow, Txn
  <2>4. Powers'[a] = Powers[a]
    BY <1>2, <1>4, <2>1, <2>2, <2>3 DEF Powers, Permissions
  <2>5. ASSUME NEW u \in User
        PROVE  Changes(Powers[u], Powers'[u]) \subseteq x.held \cup NOT_A_POWER
    <3>1. CASE accounts[u].role = x.role /\ accounts[u].active
      <4>1. Powers[u] = x.before /\ Powers'[u] = Rewritten(x, x.before)
        BY <1>4, <2>1, <2>2, <2>3, <3>1 DEF Powers, Permissions
      <4>. QED
        BY <2>1, <4>1 DEF Changes, Rewritten
    <3>2. CASE ~(accounts[u].role = x.role /\ accounts[u].active)
      <4>1. Powers'[u] = Powers[u]
        BY <1>4, <2>2, <2>3, <3>2 DEF Powers, Permissions
      <4>. QED
        BY <4>1 DEF Changes
    <3>. QED
      BY <3>1, <3>2
  <2>. QED
    BY <1>1, <1>2, <1>3, <2>4, <2>5
<1>7. CASE AssignCommit(r) \/ SetActiveCommit(r)
  <2>1. /\ roles' = roles
        /\ x.user # a /\ x.user \in User /\ x.role \in Role
        /\ Permissions(x.user) \subseteq x.held \cup NOT_A_POWER
        /\ x.call = "assign" => roles[x.role].permissions \subseteq x.held \cup NOT_A_POWER
    BY <1>1, <1>2, <1>7 DEF LadderInv, AssignCommit, SetActiveCommit, Commit, Txn
  <2>2. \A u \in User \ {x.user} : accounts'[u] = accounts[u]
    BY <1>7 DEF AssignCommit, SetActiveCommit, TypeOK
  <2>3. \/ accounts'[x.user].role = accounts[x.user].role
        \/ x.call = "assign" /\ accounts'[x.user].role = x.role
    BY <1>7, <2>1 DEF AssignCommit, SetActiveCommit, Commit, TypeOK, Account
  <2>4. \A u \in User \ {x.user} : Powers'[u] = Powers[u]
    BY <2>1, <2>2 DEF Powers, Permissions
  <2>5. /\ Powers[x.user] \subseteq x.held \cup NOT_A_POWER
        /\ Powers'[x.user] \subseteq x.held \cup NOT_A_POWER
    BY <2>1, <2>3 DEF Powers, Permissions
  <2>6. ASSUME NEW u \in User
        PROVE  Changes(Powers[u], Powers'[u]) \subseteq x.held \cup NOT_A_POWER
    <3>1. CASE u = x.user
      BY <2>5, <3>1 DEF Changes
    <3>2. CASE u # x.user
      BY <2>4, <3>2 DEF Changes
    <3>. QED
      BY <3>1, <3>2
  <2>. QED
    BY <1>1, <1>2, <1>3, <2>1, <2>4, <2>6
<1>. QED
  BY <1>5, <1>6, <1>7 DEF Write

LEMMA LadderInvStep ==
  ASSUME OneAtATime, TypeOK, LadderInv, RolesExist', [Next]_vars
  PROVE  LadderInv'
<1>1. ASSUME NEW r \in Request, txn'[r] = Idle
      PROVE  LadderInv'
  <2>1. \A q \in Request : txn'[q] = Idle
    BY <1>1 DEF OneAtATime
  <2>. QED
    BY <2>1 DEF LadderInv
<1>2. ASSUME NEW r \in Request, Write(r) \/ Abort(r)
      PROVE  LadderInv'
  <2>1. txn' = [txn EXCEPT ![r] = Idle]
    BY <1>2 DEF Write, CreateCommit, SetPermissionsCommit, DeleteCommit, AssignCommit,
                SetActiveCommit, Commit, Abort
  <2>. QED
    BY <1>1, <2>1 DEF TypeOK
<1>3. ASSUME NEW r \in Request, Load(r)
      PROVE  LadderInv'
  <2>. DEFINE Judged(x) ==
        /\ accounts[x.actor].active
        /\ x.held = Permissions(x.actor)
        /\ x.call = "create" => ~Live(x.role)
        /\ x.call = "edit" =>
              /\ accounts[x.actor].role # x.role
              /\ roles[x.role].permissions = x.before
              /\ Changes(x.before, x.after) \subseteq x.held \cup NOT_A_POWER
        /\ x.call = "assign" =>
              /\ x.user # x.actor
              /\ Permissions(x.user) \cup roles[x.role].permissions
                    \subseteq x.held \cup NOT_A_POWER
        /\ x.call = "active" =>
              /\ x.user # x.actor
              /\ Permissions(x.user) \subseteq x.held \cup NOT_A_POWER
  <2>1. UNCHANGED <<roles, accounts>>
    BY <1>3, RowsUnchanged
  <2>2. PICK u \in User : Load(r)!(u)
    BY <1>3 DEF Load
  <2>3. ASSUME NEW i \in Role, NEW permissions \in SUBSET Permission,
               CreateLoad(r, u, i, permissions)
        PROVE  Judged(txn'[r])
    <3>1. accounts[u].active /\ ~Live(i)
      BY <2>3 DEF CreateLoad, MayCall, Live
    <3>2. txn'[r] =
               [call |-> "create", actor |-> u, held |-> Permissions(u), role |-> i,
                 before |-> {}, after |-> permissions, user |-> u, active |-> TRUE]
      BY <2>3 DEF CreateLoad, Begin, TypeOK
    <3>. QED
      BY <3>1, <3>2
  <2>4. ASSUME NEW i \in Role, NEW permissions \in SUBSET Permission,
               SetPermissionsLoad(r, u, i, permissions)
        PROVE  Judged(txn'[r])
    <3>1. /\ accounts[u].active /\ accounts[u].role # i
          /\ Changes(roles[i].permissions, permissions)
                \subseteq Permissions(u) \cup NOT_A_POWER
      BY <2>4 DEF SetPermissionsLoad, MayCall, NotYourOwn, CheckActorMayChange, Changes
    <3>2. txn'[r] =
               [call |-> "edit", actor |-> u, held |-> Permissions(u), role |-> i,
                 before |-> roles[i].permissions, after |-> permissions, user |-> u, active |-> TRUE]
      BY <2>4 DEF SetPermissionsLoad, Begin, TypeOK
    <3>. QED
      BY <3>1, <3>2
  <2>5. ASSUME NEW i \in Role, DeleteLoad(r, u, i)
        PROVE  Judged(txn'[r])
    <3>1. accounts[u].active
      BY <2>5 DEF DeleteLoad, MayCall
    <3>2. txn'[r] =
               [call |-> "delete", actor |-> u, held |-> Permissions(u), role |-> i,
                 before |-> {}, after |-> {}, user |-> u, active |-> TRUE]
      BY <2>5 DEF DeleteLoad, Begin, TypeOK
    <3>. QED
      BY <3>1, <3>2
  <2>6. ASSUME NEW v \in User, NEW i \in Role, AssignLoad(r, u, v, i)
        PROVE  Judged(txn'[r])
    <3>1. /\ accounts[u].active /\ u # v
          /\ Permissions(v) \cup roles[i].permissions \subseteq Permissions(u) \cup NOT_A_POWER
      BY <2>6 DEF AssignLoad, MayCall, NotYourOwn, CheckActorMayChange
    <3>2. txn'[r] =
               [call |-> "assign", actor |-> u, held |-> Permissions(u), role |-> i,
                 before |-> {}, after |-> {}, user |-> v, active |-> TRUE]
      BY <2>6 DEF AssignLoad, Begin, TypeOK
    <3>. QED
      BY <3>1, <3>2
  <2>7. ASSUME NEW v \in User, NEW active \in BOOLEAN, SetActiveLoad(r, u, v, active)
        PROVE  Judged(txn'[r])
    <3>1. /\ accounts[u].active /\ u # v
          /\ Permissions(v) \subseteq Permissions(u) \cup NOT_A_POWER
      BY <2>7 DEF SetActiveLoad, MayCall, NotYourOwn, CheckActorMayChange
    <3>2. txn'[r] =
               [call |-> "active", actor |-> u, held |-> Permissions(u), role |-> accounts[v].role,
                 before |-> {}, after |-> {}, user |-> v, active |-> active]
      BY <2>7 DEF SetActiveLoad, Begin, TypeOK
    <3>. QED
      BY <3>1, <3>2
  <2>8. Judged(txn'[r])
    BY <2>2, <2>3, <2>4, <2>5, <2>6, <2>7
  <2>9. \A q \in Request : q = r
    BY DEF OneAtATime
  <2>. QED
    BY <2>1, <2>8, <2>9 DEF LadderInv, Permissions, Live
<1>4. CASE UNCHANGED vars
  BY <1>4 DEF vars, LadderInv, RolesExist, Permissions, Live
<1>. QED
  BY <1>2, <1>3, <1>4 DEF Next

LEMMA LadderInvAlways ==
  ASSUME OneAtATime
  PROVE  Spec => []LadderInv
<1>1. Init /\ RolesExist => LadderInv
  BY DEF Init, LadderInv
<1>2. TypeOK /\ RolesExist' /\ LadderInv /\ [Next]_vars => LadderInv'
  BY LadderInvStep
<1>. QED
  BY <1>1, <1>2, TypeCorrect, RolesExistAlways, PTL DEF Spec

\* One request at a time, nobody gains or loses a power by the hand of someone
\* who does not hold it.
THEOREM NoLadderSerially ==
  ASSUME OneAtATime
  PROVE  Spec => NoLadder
<1>. DEFINE Step == effects'.action # "none" => \A u \in User :
            Changes(Powers[u], Powers'[u]) \subseteq Powers[effects'.actor] \cup NOT_A_POWER
<1>1. ASSUME TypeOK, LadderInv, [Next]_vars
      PROVE  [Step]_vars
  <2>1. ASSUME NEW r \in Request, Load(r) \/ Abort(r)
        PROVE  Step
    BY <2>1, RowsUnchanged
  <2>2. ASSUME NEW r \in Request, Write(r)
        PROVE  Step
    BY <1>1, <2>2, CommitWithinReach
  <2>. QED
    BY <1>1, <2>1, <2>2 DEF Next
<1>. QED
  BY <1>1, TypeCorrect, LadderInvAlways, PTL DEF Spec, NoLadder

\* One request at a time, no power loses its last active holder: the comment in
\* set_permissions is right about the serial service.
THEOREM SomebodyHoldsSerially ==
  ASSUME OneAtATime
  PROVE  Spec => []SomebodyHolds
<1>1. Init => SomebodyHolds
  <2>. SUFFICES ASSUME Init, NEW p, NEW u \in User, p \in FirstGrants[FirstRole[u]]
                PROVE  p \in Powers[u]
    BY DEF SomebodyHolds, FirstPowers
  <2>1. FirstRole[u] \in BuiltIn /\ FirstRole[u] \in Role
    BY RolesAssumption
  <2>. QED
    BY <2>1 DEF Init, Powers, Permissions
<1>2. TypeOK /\ LadderInv /\ SomebodyHolds /\ [Next]_vars => SomebodyHolds'
  <2>. SUFFICES ASSUME TypeOK, LadderInv, SomebodyHolds, [Next]_vars
                PROVE  SomebodyHolds'
    OBVIOUS
  <2>1. ASSUME NEW r \in Request, Load(r) \/ Abort(r)
        PROVE  SomebodyHolds'
    BY <2>1, RowsUnchanged DEF SomebodyHolds, Powers, Permissions
  <2>2. ASSUME NEW r \in Request, Write(r)
        PROVE  SomebodyHolds'
    BY <2>2, CommitWithinReach, NoLastHolderLost
  <2>3. CASE UNCHANGED vars
    BY <2>3 DEF vars, SomebodyHolds, Powers, Permissions
  <2>. QED
    BY <2>1, <2>2, <2>3 DEF Next
<1>. QED
  BY <1>1, <1>2, TypeCorrect, LadderInvAlways, PTL DEF Spec
=============================================================================
