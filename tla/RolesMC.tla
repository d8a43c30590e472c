------------------------------- MODULE RolesMC -------------------------------
(***************************************************************************)
(* Small instances of Roles: two administrators, or one and an agent whose *)
(* role was given role.manage.  There is room for one more role.           *)
(***************************************************************************)
EXTENDS Roles, TLC

CONSTANTS grace, gus, admin, agent, supervisor

MCRole   == {admin, agent, supervisor}
MCGrants == admin :> {"role.manage", "user.manage"} @@ agent :> {}
MCFirst  == grace :> admin @@ gus :> admin
MCGrantsOne  == admin :> {"role.manage", "user.manage"}
MCGrantsEach == admin :> {"role.manage", "user.manage"} @@ agent :> {"role.manage"}
MCFirstEach  == grace :> admin @@ gus :> agent
=============================================================================
