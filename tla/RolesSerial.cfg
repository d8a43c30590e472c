\* One request at a time: the ladder rule and the last holder.
CONSTANTS
    grace = grace
    gus = gus
    admin = admin
    agent = agent
    supervisor = supervisor
    User = {grace, gus}
    Role <- MCRole
    BuiltIn = {admin, agent}
    Permission = {"role.manage", "user.manage", "ticket.starts_high"}
    NOT_A_POWER = {"ticket.starts_high"}
    FirstGrants <- MCGrants
    FirstRole <- MCFirst
    Request = {r1}
    Calls = {"create", "edit", "delete", "assign", "active"}
SPECIFICATION Spec
INVARIANTS SomebodyHolds
PROPERTIES NoLadder
CHECK_DEADLOCK FALSE
