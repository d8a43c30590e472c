\* Two overlapping requests: what is left of the promises.
CONSTANTS
    grace = grace
    gus = gus
    admin = admin
    agent = agent
    supervisor = supervisor
    User = {grace, gus}
    Role = {admin, supervisor}
    BuiltIn = {admin}
    Permission = {"role.manage", "user.manage"}
    NOT_A_POWER = {}
    FirstGrants <- MCGrantsOne
    FirstRole <- MCFirst
    Request = {r1, r2}
    Calls = {"create", "edit", "delete", "assign"}
SPECIFICATION Spec
INVARIANTS RolesExist
PROPERTIES EditsWithinReach
CHECK_DEADLOCK FALSE
