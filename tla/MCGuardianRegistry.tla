------------------------- MODULE MCGuardianRegistry -------------------------
(* A small registry: two vaults of two owners, two keys, nonces up to 2.     *)
EXTENDS GuardianRegistry, TLC

CONSTANTS alice, bob, deployer, v1, v2

MCAccounts == {alice, bob, deployer}
MCVaults == {v1, v2}
MCAgentVaultOwner == v1 :> alice @@ v2 :> bob
=============================================================================
