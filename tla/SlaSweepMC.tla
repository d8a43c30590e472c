------------------------------ MODULE SlaSweepMC ------------------------------
(* Small instances of SlaSweep: the people, teams and catalog of TicketsMC. *)
EXTENDS SlaSweep, TLC

CONSTANTS eva, ada, bob, grace, network, accounts, vpn, password

MCUser     == {eva, ada, bob, grace}
MCGrants   == eva :> RequesterRole @@ ada :> AgentRole
                @@ bob :> AgentRole @@ grace :> AdminRole
MCGrantsOne == eva :> RequesterRole @@ ada :> AgentRole @@ grace :> AdminRole
MCTeam     == {network, accounts}
MCCategory == {vpn, password}
MCTeamOf   == vpn :> network @@ password :> accounts
MCSlaHours == vpn :> 1 @@ password :> 2
MCStaffed  == {network :> {ada} @@ accounts :> {bob}}
MCStaffedTwo == {network :> {ada, bob} @@ accounts :> {}}
MCStaffedOne == {network :> {ada} @@ accounts :> {}}
=============================================================================
