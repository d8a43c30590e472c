\* Two workers beside one request, whose tickets live as the workflow says.
CONSTANTS
    eva = eva
    ada = ada
    bob = bob
    grace = grace
    network = network
    accounts = accounts
    vpn = vpn
    password = password
    User <- MCUser
    Grants <- MCGrants
    Disabled = {}
    Team <- MCTeam
    Category <- MCCategory
    TeamOf <- MCTeamOf
    SlaHours <- MCSlaHours
    Patches = {{"category_id"}}
    Memberships <- MCStaffedTwo
    Ticket = {t1}
    Request = {r1}
    Calls = {"create", "status", "assign", "update", "delete"}
    MaxTime = 3
    Worker = {w1, w2}
    BatchSize = 1
SPECIFICATION SweepSpec
PROPERTIES AlertedOnce OwnerIsAlerted LateIsFlagged ImplementsWorkflow
CHECK_DEADLOCK FALSE
