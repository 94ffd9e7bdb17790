-------------------------- MODULE GuardianRegistry --------------------------
(***************************************************************************)
(* contracts/src/GuardianRegistry.sol: the on-chain policy store and audit *)
(* ledger.  A transaction is atomic and either applies every assignment of *)
(* its function or reverts and changes nothing, so each external function  *)
(* is one action whose guard is the conjunction of the function's checks.  *)
(* Block timestamps and events are left out.                               *)
(***************************************************************************)
EXTENDS Integers, Sequences

CONSTANTS
  Accounts,         \* addresses that send transactions
  ZeroAddress,      \* address(0)
  RegistryOwner,    \* the deployer; no function changes `owner'
  Vaults,           \* FAssets agent vaults
  AgentVaultOwner,  \* AssetManager.getAgentVaultOwner, fixed per vault
  Keys,             \* addresses of signing keys
  OtherAddress,     \* what ecrecover yields for a signature of another digest
  Ratios,           \* uint64 collateral ratios a caller may pass, in BIPS
  Amounts,          \* uint256 amounts a caller may pass, in wei
  ActionTypes,      \* uint8 action types a caller may pass, valid or not
  MaxUint64,        \* largest value of a uint64
  ChainIds,         \* chain ids a signature may have been made for
  ChainId           \* block.chainid

ASSUME RegistryAssumption ==
  /\ RegistryOwner \in Accounts
  /\ AgentVaultOwner \in [Vaults -> Accounts]
  /\ ZeroAddress \notin Accounts \cup Vaults \cup Keys
  /\ OtherAddress \notin Keys \cup {ZeroAddress}
  /\ Ratios \subseteq Nat /\ Amounts \subseteq Nat /\ ActionTypes \subseteq Nat
  /\ MaxUint64 \in Nat \ {0}
  /\ ChainId \in ChainIds

VARIABLES
  guardianSigner,   \* enclave key whose signatures are accepted
  paused,
  guardCount,
  guards,           \* guards[id] for the ids 1..guardCount
  guardIdOfVault,   \* agentVault -> guardId, 0 when not registered
  actions           \* _actions[id] for the ids 1..guardCount

registryVars ==
  <<guardianSigner, paused, guardCount, guards, guardIdOfVault, actions>>

ACTION_HEARTBEAT == 0
ACTION_VAULT_TOP_UP == 1
ACTION_REDEMPTION_HANDLED == 2

NonceInputs == 0 .. MaxUint64
GuardIds == 1 .. guardCount

\* A stored guard; createdAt is left out.
Guard ==
  [agentVault : Vaults, owner : Accounts, vaultCollateralRatioBIPS : Ratios,
   topUpAmountWei : Amounts, lastActionNonce : NonceInputs, active : BOOLEAN]

Action == [actionType : ActionTypes, amount : Amounts, nonce : NonceInputs]

\* What reading an unset slot of the `guards' mapping returns.
NoGuard ==
  [agentVault |-> ZeroAddress, owner |-> ZeroAddress,
   vaultCollateralRatioBIPS |-> 0, topUpAmountWei |-> 0,
   lastActionNonce |-> 0, active |-> FALSE]

\* The public getter guards(id): a mapping has a value for every key.
GuardAt(id) == IF id \in GuardIds THEN guards[id] ELSE NoGuard

-----------------------------------------------------------------------------
(* Signatures.  A signature is known by the key that made it, the digest it *)
(* signs and its encoding; ZeroAddress stands for an unrecoverable one.     *)

SignatureForms == {"lowS", "highS", "badLength", "badV"}

\* keccak is collision free: a digest is the tuple that is hashed.
Digest(chain, guardId, actionType, amount, nonce) ==
  <<chain, guardId, actionType, amount, nonce>>

\* Whether _recover returns at all instead of reverting with InvalidSignature.
WellFormed(sig) == sig.form = "lowS"

\* The address ecrecover returns: the signer's only for the digest it signed.
Recover(digest, sig) == IF sig.digest = digest THEN sig.signer ELSE OtherAddress

-----------------------------------------------------------------------------
RegistryInit ==
  /\ guardianSigner = ZeroAddress
  /\ paused = FALSE
  /\ guardCount = 0
  /\ guards = <<>>
  /\ guardIdOfVault = [v \in Vaults |-> 0]
  /\ actions = <<>>

SetGuardianSigner(sender, signer) ==
  /\ sender = RegistryOwner
  /\ signer # ZeroAddress
  /\ guardianSigner' = signer
  /\ UNCHANGED <<paused, guardCount, guards, guardIdOfVault, actions>>

SetPaused(sender, value) ==
  /\ sender = RegistryOwner
  /\ paused' = value
  /\ UNCHANGED <<guardianSigner, guardCount, guards, guardIdOfVault, actions>>

\* The Guard that registerAgentVault stores.
NewGuard(sender, vault, ratio, topUp) ==
  [agentVault |-> vault, owner |-> sender,
   vaultCollateralRatioBIPS |-> ratio, topUpAmountWei |-> topUp,
   lastActionNonce |-> 0, active |-> TRUE]

\* Mutant: guardId = guardCount + 1, the counter itself is not incremented.
RegisterWithoutCounting(sender, vault, ratio, topUp) ==
  /\ ~paused /\ vault # ZeroAddress /\ guardIdOfVault[vault] = 0
  /\ AgentVaultOwner[vault] = sender /\ ratio # 0 /\ topUp # 0
  /\ guards' = Append(guards, NewGuard(sender, vault, ratio, topUp))
  /\ guardIdOfVault' = [guardIdOfVault EXCEPT ![vault] = guardCount + 1]
  /\ actions' = Append(actions, <<>>)
  /\ UNCHANGED <<guardianSigner, paused, guardCount>>

\* Mutant: no DuplicateGuard check.
RegisterTwice(sender, vault, ratio, topUp) ==
  /\ ~paused /\ vault # ZeroAddress /\ guardCount < 3
  /\ AgentVaultOwner[vault] = sender /\ ratio # 0 /\ topUp # 0
  /\ guardCount' = guardCount + 1
  /\ guards' = Append(guards, NewGuard(sender, vault, ratio, topUp))
  /\ guardIdOfVault' = [guardIdOfVault EXCEPT ![vault] = guardCount + 1]
  /\ actions' = Append(actions, <<>>)
  /\ UNCHANGED <<guardianSigner, paused>>

\* Mutant: the new guard is stored under the last id that is already taken.
RegisterOverLast(sender, vault, ratio, topUp) ==
  /\ ~paused /\ vault # ZeroAddress /\ guardIdOfVault[vault] = 0
  /\ AgentVaultOwner[vault] = sender /\ ratio # 0 /\ topUp # 0
  /\ guardCount' = guardCount + 1
  /\ guards' = Append([i \in GuardIds |->
                  IF i = guardCount THEN NewGuard(sender, vault, ratio, topUp)
                  ELSE guards[i]], NewGuard(sender, vault, ratio, topUp))
  /\ guardIdOfVault' = [guardIdOfVault EXCEPT ![vault] = guardCount + 1]
  /\ actions' = Append(actions, <<>>)
  /\ UNCHANGED <<guardianSigner, paused>>

RegisterAgentVault(sender, vault, ratio, topUp) ==
  /\ ~paused
  /\ vault # ZeroAddress
  /\ guardIdOfVault[vault] = 0
  /\ AgentVaultOwner[vault] = sender
  /\ ratio # 0 /\ topUp # 0
  /\ guardCount' = guardCount + 1
  /\ guards' = Append(guards, NewGuard(sender, vault, ratio, topUp))
  /\ guardIdOfVault' = [guardIdOfVault EXCEPT ![vault] = guardCount + 1]
  /\ actions' = Append(actions, <<>>)
  /\ UNCHANGED <<guardianSigner, paused>>

\* Mutant: a function of the guard's owner without the notPaused modifier.
OwnsGuardEvenPaused(sender, id) ==
  GuardAt(id).agentVault # ZeroAddress /\ sender = GuardAt(id).owner

\* The three checks every function on an existing guard starts with.
OwnsGuard(sender, id) ==
  /\ ~paused
  /\ GuardAt(id).agentVault # ZeroAddress
  /\ sender = GuardAt(id).owner

SetPolicy(sender, id, ratio, topUp) ==
  /\ OwnsGuard(sender, id)
  /\ ratio # 0 /\ topUp # 0
  /\ guards' = [guards EXCEPT ![id].vaultCollateralRatioBIPS = ratio,
                              ![id].topUpAmountWei = topUp]
  /\ UNCHANGED <<guardianSigner, paused, guardCount, guardIdOfVault, actions>>

SetGuardActive(sender, id, value) ==
  /\ OwnsGuard(sender, id)
  /\ guards' = [guards EXCEPT ![id].active = value]
  /\ UNCHANGED <<guardianSigner, paused, guardCount, guardIdOfVault, actions>>

\* Mutant: the nonce check lets the last nonce through again.
AcceptsSameNonce(id, actionType, amount, nonce, sig) ==
  /\ ~paused /\ GuardAt(id).agentVault # ZeroAddress
  /\ actionType <= ACTION_REDEMPTION_HANDLED
  /\ nonce >= GuardAt(id).lastActionNonce
  /\ WellFormed(sig)
  /\ Recover(Digest(ChainId, id, actionType, amount, nonce), sig) = guardianSigner

\* Mutant: only a repetition of the very last nonce is refused.
AcceptsOlderNonce(id, actionType, amount, nonce, sig) ==
  /\ ~paused /\ GuardAt(id).agentVault # ZeroAddress
  /\ actionType <= ACTION_REDEMPTION_HANDLED
  /\ nonce # GuardAt(id).lastActionNonce /\ Len(actions[id]) < MaxUint64 + 1
  /\ WellFormed(sig)
  /\ Recover(Digest(ChainId, id, actionType, amount, nonce), sig) = guardianSigner

\* Whether postAction gets past all of its checks; anyone may send it.
Accepts(id, actionType, amount, nonce, sig) ==
  /\ ~paused
  /\ GuardAt(id).agentVault # ZeroAddress
  /\ actionType <= ACTION_REDEMPTION_HANDLED
  /\ nonce > GuardAt(id).lastActionNonce
  /\ WellFormed(sig)
  /\ Recover(Digest(ChainId, id, actionType, amount, nonce), sig) = guardianSigner

\* The row that postAction pushes.
NewAction(actionType, amount, nonce) ==
  [actionType |-> actionType, amount |-> amount, nonce |-> nonce]

\* Mutant: the row is pushed and lastActionNonce left as it was.
PostWithoutNonce(id, actionType, amount, nonce, sig) ==
  /\ Accepts(id, actionType, amount, nonce, sig)
  /\ actions' = [actions EXCEPT ![id] =
                   Append(@, NewAction(actionType, amount, nonce))]
  /\ UNCHANGED <<guardianSigner, paused, guardCount, guards, guardIdOfVault>>

PostAction(id, actionType, amount, nonce, sig) ==
  /\ Accepts(id, actionType, amount, nonce, sig)
  /\ guards' = [guards EXCEPT ![id].lastActionNonce = nonce]
  /\ actions' = [actions EXCEPT ![id] =
                   Append(@, NewAction(actionType, amount, nonce))]
  /\ UNCHANGED <<guardianSigner, paused, guardCount, guardIdOfVault>>

-----------------------------------------------------------------------------
(* The functions of the contract's owner and of the vaults' owners.         *)
OwnerNext ==
  \E sender \in Accounts :
    \/ \E signer \in Keys \cup {ZeroAddress} : SetGuardianSigner(sender, signer)
    \/ \E value \in BOOLEAN : SetPaused(sender, value)
    \/ \E vault \in Vaults \cup {ZeroAddress}, ratio \in Ratios, topUp \in Amounts :
         RegisterAgentVault(sender, vault, ratio, topUp)
    \/ \E id \in GuardIds, ratio \in Ratios, topUp \in Amounts :
         SetPolicy(sender, id, ratio, topUp)
    \/ \E id \in GuardIds, value \in BOOLEAN : SetGuardActive(sender, id, value)

(* On its own the registry sees the signatures anyone could submit: by any   *)
(* key or by none, in any encoding, and over a digest made for this call or   *)
(* for another chain, guard or nonce.                                        *)
PostNext ==
  \E id \in 1 .. guardCount + 1, actionType \in ActionTypes,
     amount \in Amounts, nonce \in NonceInputs,
     signer \in Keys \cup {ZeroAddress}, form \in SignatureForms,
     signedChain \in ChainIds, signedId \in GuardIds, signedNonce \in NonceInputs :
    PostAction(id, actionType, amount, nonce,
      [signer |-> signer, form |-> form,
       digest |-> Digest(signedChain, signedId, actionType, amount, signedNonce)])

RegistryNext == OwnerNext \/ PostNext

RegistrySpec == RegistryInit /\ [][RegistryNext]_registryVars
-----------------------------------------------------------------------------
(* Properties                                                               *)

\* Every variable holds a value of its Solidity type, and the two arrays
\* have one entry per registered guard.
RegistryTypeOK ==
  /\ guardianSigner \in Keys \cup {ZeroAddress}
  /\ paused \in BOOLEAN
  /\ guardCount \in Nat
  /\ guards \in Seq(Guard) /\ Len(guards) = guardCount
  /\ guardIdOfVault \in [Vaults -> Nat]
  /\ actions \in Seq(Seq(Action)) /\ Len(actions) = guardCount

\* registerAgentVault's DuplicateGuard check makes guardIdOfVault and guards
\* inverse to each other: a vault has at most one guard, every guard is found
\* through its vault, and it belongs to that vault's owner on the AssetManager.
VaultIndex ==
  /\ \A id \in GuardIds :
       /\ guardIdOfVault[guards[id].agentVault] = id
       /\ guards[id].owner = AgentVaultOwner[guards[id].agentVault]
  /\ \A v \in Vaults :
       guardIdOfVault[v] # 0 =>
         /\ guardIdOfVault[v] \in GuardIds
         /\ guards[guardIdOfVault[v]].agentVault = v

Ledger == INSTANCE AuditLedger WITH Rows <- Action, log <- actions

\* postAction's replay check: the nonce a guard stores is always the nonce of
\* the last row of its ledger, so lastActionNonce can stand for the whole ledger.
NonceIsTail ==
  \A id \in GuardIds :
    guards[id].lastActionNonce = Ledger!TailNonce(actions[id])

\* The contract implements the append-only audit ledger that getActions()
\* readers rely on: rows are only added, with strictly increasing nonces.
ImplementsLedger == Ledger!Spec

\* While the registry is paused only setPaused and setGuardianSigner take
\* effect: no guard, policy or ledger row changes under a reader's feet.
PauseFreezes ==
  [][paused => UNCHANGED <<guardCount, guards, guardIdOfVault, actions>>]_registryVars

\* No sequence of calls moves a guard to another vault or another owner.
IdentityImmutable ==
  [][\A id \in GuardIds :
       /\ guards'[id].agentVault = guards[id].agentVault
       /\ guards'[id].owner = guards[id].owner]_registryVars
=============================================================================
