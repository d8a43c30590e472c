\* One request at a time, from creation to closing or deletion.
CONSTANTS
    eva = eva
    ada = ada
    bob = bob
    grace = grace
    network = network
    accounts = accounts
    vpn = vpn
    password = password
    printer = printer
    User = {eva, ada, grace}
    Grants <- MCGrantsOne
    Disabled = {}
    Team <- MCTeam
    Category <- MCCategory
    TeamOf <- MCTeamOf
    SlaHours <- MCSlaHours
    Patches <- MCPatches
    Memberships <- MCStaffedOne
    Ticket = {t1}
    Request = {r1}
    Calls = {"create", "status", "assign", "delete", "update", "member"}
    MaxTime = 2
SPECIFICATION Spec
INVARIANTS ListedIsViewable QueuedToItsCategory OffersMatchRules ToldMayRead ToldOnce
PROPERTIES AssigneeJoinsTeam RoomsMatchViewers
CHECK_DEADLOCK FALSE
