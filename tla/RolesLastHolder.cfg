\* Two role managers edit each other's role at the same time.
CONSTANTS
    grace = grace
    gus = gus
    admin = admin
    agent = agent
    supervisor = supervisor
    User = {grace, gus}
    Role <- MCRole
    BuiltIn = {admin, agent}
    Permission = {"role.manage", "user.manage"}
    NOT_A_POWER = {}
    FirstGrants <- MCGrantsEach
    FirstRole <- MCFirstEach
    Request = {r1, r2}
    Calls = {"edit"}
SPECIFICATION Spec
INVARIANTS SomebodyHolds
CHECK_DEADLOCK FALSE
