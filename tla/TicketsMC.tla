------------------------------ MODULE TicketsMC ------------------------------
(***************************************************************************)
(* Small instances of Tickets: a requester, an agent of each of two teams, *)
(* and an administrator; one category in each team.                        *)
(***************************************************************************)
EXTENDS Notices, TLC

CONSTANTS eva, ada, bob, grace, network, accounts, vpn, password, printer

MCUser     == {eva, ada, bob, grace}
MCGrants   == eva :> RequesterRole @@ ada :> AgentRole
                @@ bob :> AgentRole @@ grace :> AdminRole
MCGrantsStaff == ada :> AgentRole @@ bob :> (AgentRole \cup {"ticket.reassign"})
MCGrantsOne == eva :> RequesterRole @@ ada :> AgentRole @@ grace :> AdminRole
MCTeam     == {network, accounts}
MCCategory == {vpn, password}
MCTeamOf   == vpn :> network @@ password :> accounts
MCSlaHours == vpn :> 1 @@ password :> 2
MCCategoryThree == {vpn, password, printer}
MCTeamOfThree   == MCTeamOf @@ printer :> network
MCSlaHoursThree == MCSlaHours @@ printer :> 1
MCStaffed  == {network :> {ada} @@ accounts :> {bob}}
MCStaffedOne == {network :> {ada} @@ accounts :> {}}
MCPatches  == {{"title"}, {"priority"}, {"category_id"}}
=============================================================================
