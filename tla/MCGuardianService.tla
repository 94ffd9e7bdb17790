-------------------------- MODULE MCGuardianService --------------------------
(* Constants that a .cfg cannot write down, and a deployed initial state.     *)
EXTENDS GuardianService, TLC

CONSTANTS alice, bob, deployer, v1, v2

OneVaultOwner == v1 :> alice
TwoVaultOwners == v1 :> alice @@ v2 :> bob

\* Healthy; liquidatable for the pool only, by a factor wider than a uint64
\* that is 0 modulo 2^64.
MCFactorPairs == {[vault |-> 0, pool |-> 0], [vault |-> 0, pool |-> MaxUint64 + 1]}

\* Vaults that stay in danger, where only what follows from it matters.
DangerOnly == {[vault |-> 0, pool |-> MaxUint64 + 1]}

\* Bounds: explore no further from a state with more returned signatures, next
\* to those the handlers hold; with a row from before setGuardianSigner, which
\* uses up the only nonce there is; or with another request in a slot of the
\* other callers than one for guard 1 with the vault of guard 2.
MaxIssued == 2
SafetyBound ==
  /\ Cardinality(issued) <= MaxIssued
  /\ \A id \in GuardIds : unsigned[id] = 0
  /\ \A h \in OtherSlots \ svc.slot :
       handlers[h].pc # "idle" =>
         handlers[h].guardId = 1 /\ handlers[h].agentVault = v2

-----------------------------------------------------------------------------
(* Both vaults have a guard with the smallest policy (docs/LIVE_E2E.md, steps *)
(* 1 to 4); the registry's signer is set or not yet.                          *)
RegisteredGuard(vault) ==
  [agentVault |-> vault, owner |-> AgentVaultOwner[vault],
   vaultCollateralRatioBIPS |-> 1, topUpAmountWei |-> 1,
   lastActionNonce |-> 0, active |-> TRUE]

RegisteredInit ==
  /\ guardianSigner \in Keys \cup {ZeroAddress} /\ enclaveKey \in Keys
  /\ paused = FALSE
  /\ guardCount = 2
  /\ guards = <<RegisteredGuard(v1), RegisteredGuard(v2)>>
  /\ guardIdOfVault = v1 :> 1 @@ v2 :> 2
  /\ actions = <<<<>>, <<>>>>
  /\ factors \in [Vaults -> FactorPairs]
  /\ handlers = [h \in Handlers |-> IdleHandler]
  /\ state = InitState
  /\ issued = {}
  /\ offers = <<{1}, {1}>> /\ unsigned = <<0, 0>>
  /\ svc = Asleep /\ health = InitHealth /\ mempool = <<>> /\ faults = 0

RegisteredSpec == RegisteredInit /\ [][ServiceNext]_allVars

\* The enclave's key is registered too, which completes the deployment.
DeployedInit == RegisteredInit /\ guardianSigner = enclaveKey

FairDeployedSpec == DeployedInit /\ [][ServiceNext]_allVars /\ Fairness
=============================================================================
