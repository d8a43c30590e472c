\* Two overlapping requests of two agents, one of whom may reassign: what still
\* holds of the owners and the stamps of a ticket.
CONSTANTS
    eva = eva
    ada = ada
    bob = bob
    grace = grace
    network = network
    accounts = accounts
    vpn = vpn
    password = password
    printer = printer
    User = {ada, bob}
    Grants <- MCGrantsStaff
    Disabled = {}
    Team <- MCTeam
    Category <- MCCategory
    TeamOf <- MCTeamOf
    SlaHours <- MCSlaHours
    Patches = {{"category_id"}}
    Memberships <- MCStaffed
    Ticket = {t1}
    Request = {r1, r2}
    Calls = {"create", "status", "assign", "update", "delete"}
    MaxTime = 1
SPECIFICATION Spec
INVARIANTS OneHolder StampsMatchStatus
PROPERTIES NoSteal
CHECK_DEADLOCK FALSE
