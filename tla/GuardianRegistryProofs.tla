----------------------- MODULE GuardianRegistryProofs -----------------------
(* What GuardianRegistry.sol guarantees for every set of vaults, accounts,   *)
(* keys, policies and nonces, whatever transactions and signatures reach it. *)
EXTENDS GuardianRegistry, TLAPS

(* An id that reads as a guard is the id of a registered one. *)
LEMMA KnownGuard ==
  ASSUME NEW id, GuardAt(id).agentVault # ZeroAddress
  PROVE  id \in GuardIds /\ GuardAt(id) = guards[id]
  BY DEF GuardAt, NoGuard

(* A new guard is a Guard. *)
LEMMA NewGuardType ==
  ASSUME NEW sender \in Accounts, NEW vault \in Vaults,
         NEW ratio \in Ratios, NEW topUp \in Amounts
  PROVE  NewGuard(sender, vault, ratio, topUp) \in Guard
  BY RegistryAssumption DEF NewGuard, Guard, NonceInputs

(* Updating or appending to a typed sequence. *)
LEMMA SeqUpdate ==
  ASSUME NEW S, NEW s \in Seq(S), NEW i \in 1 .. Len(s), NEW e \in S
  PROVE  LET t == [s EXCEPT ![i] = e] IN
           /\ t \in Seq(S) /\ Len(t) = Len(s)
           /\ t[i] = e
           /\ \A j \in 1 .. Len(s) : j # i => t[j] = s[j]
  OBVIOUS

LEMMA SeqAppend ==
  ASSUME NEW S, NEW s \in Seq(S), NEW e \in S
  PROVE  LET t == Append(s, e) IN
           /\ t \in Seq(S) /\ Len(t) = Len(s) + 1
           /\ t[Len(s) + 1] = e
           /\ \A j \in 1 .. Len(s) : t[j] = s[j]
  OBVIOUS

-----------------------------------------------------------------------------
(* The inductive invariant: the types, the vault index, and lastActionNonce   *)
(* as the tail of the ledger.                                                 *)
RegistryInv == RegistryTypeOK /\ VaultIndex /\ NonceIsTail

LEMMA RegistryInitially == RegistryInit => RegistryInv
  <1> SUFFICES ASSUME RegistryInit PROVE RegistryInv
    OBVIOUS
  <1>1. GuardIds = {}
    BY DEF RegistryInit, GuardIds
  <1>2. guards \in Seq(Guard) /\ Len(guards) = 0
        /\ actions \in Seq(Seq(Action)) /\ Len(actions) = 0
    BY DEF RegistryInit
  <1>3. RegistryTypeOK
    BY <1>2 DEF RegistryInit, RegistryTypeOK
  <1>4. VaultIndex
    BY <1>1 DEF RegistryInit, VaultIndex
  <1>5. NonceIsTail
    BY <1>1 DEF NonceIsTail
  <1> QED
    BY <1>3, <1>4, <1>5 DEF RegistryInv

(* The owner's two switches change no guard and no ledger. *)
LEMMA SwitchesKeep ==
  ASSUME RegistryInv, NEW signer \in Keys \cup {ZeroAddress}, NEW value \in BOOLEAN,
         NEW sender,
         SetGuardianSigner(sender, signer) \/ SetPaused(sender, value)
  PROVE  RegistryInv'
  BY DEF RegistryInv, RegistryTypeOK, VaultIndex, NonceIsTail, GuardIds,
         SetGuardianSigner, SetPaused

(* A registration appends a guard with an empty ledger. *)
LEMMA RegisterKeeps ==
  ASSUME RegistryInv,
         NEW sender \in Accounts, NEW vault \in Vaults \cup {ZeroAddress},
         NEW ratio \in Ratios, NEW topUp \in Amounts,
         RegisterAgentVault(sender, vault, ratio, topUp)
  PROVE  RegistryInv'
  <1> DEFINE new == NewGuard(sender, vault, ratio, topUp)
  <1>1. vault \in Vaults /\ new \in Guard
    BY NewGuardType DEF RegisterAgentVault
  <1>2. /\ guards \in Seq(Guard) /\ actions \in Seq(Seq(Action))
        /\ Len(guards) = guardCount /\ Len(actions) = guardCount
        /\ guardCount \in Nat /\ guardCount' = guardCount + 1
        /\ guardIdOfVault \in [Vaults -> Nat] /\ guardIdOfVault[vault] = 0
        /\ guardIdOfVault' = [guardIdOfVault EXCEPT ![vault] = guardCount + 1]
    BY DEF RegistryInv, RegistryTypeOK, RegisterAgentVault
  <1>3. /\ guards' \in Seq(Guard) /\ Len(guards') = guardCount'
        /\ guards'[guardCount + 1] = new
        /\ \A j \in GuardIds : guards'[j] = guards[j]
    BY <1>1, <1>2, SeqAppend DEF RegisterAgentVault, GuardIds
  <1>4. /\ actions' \in Seq(Seq(Action)) /\ Len(actions') = guardCount'
        /\ actions'[guardCount + 1] = <<>>
        /\ \A j \in GuardIds : actions'[j] = actions[j]
    <2>1. <<>> \in Seq(Action)
      OBVIOUS
    <2> QED
      BY <1>2, <2>1, SeqAppend DEF RegisterAgentVault, GuardIds
  <1>5. GuardIds' = GuardIds \cup {guardCount + 1}
    BY <1>2 DEF GuardIds
  <1>6. RegistryTypeOK'
    BY <1>1, <1>2, <1>3, <1>4 DEF RegistryInv, RegistryTypeOK, RegisterAgentVault
  <1>7. new.agentVault = vault /\ new.owner = AgentVaultOwner[vault]
        /\ new.lastActionNonce = 0
    BY DEF NewGuard, RegisterAgentVault
  <1>8. VaultIndex'
    <2>0. \A j \in GuardIds : guards[j].agentVault \in Vaults
      <3>1. \A j \in GuardIds : guards[j] \in Guard
        BY <1>2 DEF GuardIds
      <3> QED
        BY <3>1 DEF Guard
    <2>1. \A j \in GuardIds : guards[j].agentVault # vault
      <3>1. 0 \notin GuardIds
        BY DEF GuardIds
      <3>2. \A j \in GuardIds : guardIdOfVault[guards[j].agentVault] = j
        BY DEF RegistryInv, VaultIndex
      <3> QED
        BY <1>2, <3>1, <3>2
    <2>2. \A j \in GuardIds' :
            /\ guardIdOfVault'[guards'[j].agentVault] = j
            /\ guards'[j].owner = AgentVaultOwner[guards'[j].agentVault]
      BY <1>1, <1>2, <1>3, <1>5, <1>7, <2>0, <2>1 DEF RegistryInv, VaultIndex
    <2>3. \A v \in Vaults : guardIdOfVault'[v] # 0 =>
            /\ guardIdOfVault'[v] \in GuardIds'
            /\ guards'[guardIdOfVault'[v]].agentVault = v
      BY <1>1, <1>2, <1>3, <1>5, <1>7 DEF RegistryInv, VaultIndex
    <2> QED
      BY <2>2, <2>3 DEF VaultIndex
  <1>9. NonceIsTail'
    BY <1>3, <1>4, <1>5, <1>7 DEF RegistryInv, NonceIsTail, Ledger!TailNonce
  <1> QED
    BY <1>6, <1>8, <1>9 DEF RegistryInv

(* Replacing the policy or the flag of a guard keeps what the index and the    *)
(* ledger depend on.                                                          *)
LEMMA UpdateKeeps ==
  ASSUME RegistryInv, NEW id \in GuardIds, NEW g \in Guard,
         g.agentVault = guards[id].agentVault, g.owner = guards[id].owner,
         g.lastActionNonce = guards[id].lastActionNonce,
         guards' = [guards EXCEPT ![id] = g],
         UNCHANGED <<guardianSigner, paused, guardCount, guardIdOfVault, actions>>
  PROVE  RegistryInv'
  <1>1. /\ guards' \in Seq(Guard) /\ Len(guards') = Len(guards)
        /\ guards'[id] = g
        /\ \A j \in GuardIds : j # id => guards'[j] = guards[j]
    BY SeqUpdate DEF RegistryInv, RegistryTypeOK, GuardIds
  <1>2. \A j \in GuardIds :
          /\ guards'[j].agentVault = guards[j].agentVault
          /\ guards'[j].owner = guards[j].owner
          /\ guards'[j].lastActionNonce = guards[j].lastActionNonce
    BY <1>1
  <1>3. RegistryTypeOK'
    BY <1>1 DEF RegistryInv, RegistryTypeOK
  <1>4. VaultIndex'
    BY <1>2 DEF RegistryInv, VaultIndex, GuardIds
  <1>5. NonceIsTail'
    BY <1>2 DEF RegistryInv, NonceIsTail, GuardIds
  <1> QED
    BY <1>3, <1>4, <1>5 DEF RegistryInv

LEMMA PolicyKeeps ==
  ASSUME RegistryInv, NEW sender, NEW id,
         NEW ratio \in Ratios, NEW topUp \in Amounts,
         SetPolicy(sender, id, ratio, topUp)
  PROVE  RegistryInv'
  <1> DEFINE g == [guards[id] EXCEPT !.vaultCollateralRatioBIPS = ratio,
                                     !.topUpAmountWei = topUp]
  <1>1. id \in GuardIds
    BY KnownGuard DEF SetPolicy, OwnsGuard
  <1>2. guards[id] \in Guard
    BY <1>1 DEF RegistryInv, RegistryTypeOK, GuardIds
  <1>3. /\ g \in Guard /\ g.agentVault = guards[id].agentVault
        /\ g.owner = guards[id].owner
        /\ g.lastActionNonce = guards[id].lastActionNonce
    BY <1>2 DEF Guard
  <1>4. guards' = [guards EXCEPT ![id] = g]
    BY DEF SetPolicy
  <1> QED
    BY <1>1, <1>3, <1>4, UpdateKeeps DEF SetPolicy

LEMMA ActiveKeeps ==
  ASSUME RegistryInv, NEW sender, NEW id, NEW value \in BOOLEAN,
         SetGuardActive(sender, id, value)
  PROVE  RegistryInv'
  <1> DEFINE g == [guards[id] EXCEPT !.active = value]
  <1>1. id \in GuardIds
    BY KnownGuard DEF SetGuardActive, OwnsGuard
  <1>2. guards[id] \in Guard
    BY <1>1 DEF RegistryInv, RegistryTypeOK, GuardIds
  <1>3. /\ g \in Guard /\ g.agentVault = guards[id].agentVault
        /\ g.owner = guards[id].owner
        /\ g.lastActionNonce = guards[id].lastActionNonce
    BY <1>2 DEF Guard
  <1>4. guards' = [guards EXCEPT ![id] = g]
    BY DEF SetGuardActive
  <1> QED
    BY <1>1, <1>3, <1>4, UpdateKeeps DEF SetGuardActive

(* A call that postAction accepts: the row it adds and what it leaves alone.  *)
LEMMA PostEffect ==
  ASSUME RegistryInv, NEW id, NEW actionType \in ActionTypes,
         NEW amount \in Amounts, NEW nonce \in NonceInputs, NEW sig,
         PostAction(id, actionType, amount, nonce, sig)
  PROVE  /\ id \in GuardIds /\ NewAction(actionType, amount, nonce) \in Action
         /\ guards[id] \in Guard
         /\ nonce > guards[id].lastActionNonce
         /\ guards' \in Seq(Guard) /\ Len(guards') = Len(guards)
         /\ guards'[id] \in Guard /\ guards'[id].lastActionNonce = nonce
         /\ guards'[id].agentVault = guards[id].agentVault
         /\ guards'[id].owner = guards[id].owner
         /\ guards'[id].active = guards[id].active
         /\ guards'[id].topUpAmountWei = guards[id].topUpAmountWei
         /\ \A j \in GuardIds : j # id => guards'[j] = guards[j]
         /\ actions[id] \in Seq(Action)
         /\ actions' \in Seq(Seq(Action)) /\ Len(actions') = Len(actions)
         /\ actions'[id] = Append(actions[id], NewAction(actionType, amount, nonce))
         /\ \A j \in GuardIds : j # id => actions'[j] = actions[j]
         /\ GuardIds' = GuardIds
  <1> DEFINE row == NewAction(actionType, amount, nonce)
             g == [guards[id] EXCEPT !.lastActionNonce = nonce]
  <1>1. id \in GuardIds /\ nonce > guards[id].lastActionNonce
    BY KnownGuard DEF PostAction, Accepts
  <1>2. guards[id] \in Guard /\ actions[id] \in Seq(Action) /\ row \in Action
    BY <1>1 DEF RegistryInv, RegistryTypeOK, GuardIds, Action, NewAction
  <1>3. g \in Guard /\ Append(actions[id], row) \in Seq(Action)
    BY <1>2 DEF Guard
  <1>4. /\ guards' = [guards EXCEPT ![id] = g]
        /\ actions' = [actions EXCEPT ![id] = Append(actions[id], row)]
        /\ GuardIds' = GuardIds
    BY DEF PostAction, GuardIds
  <1>5. /\ guards' \in Seq(Guard) /\ Len(guards') = Len(guards)
        /\ guards'[id] = g
        /\ \A j \in GuardIds : j # id => guards'[j] = guards[j]
    BY <1>1, <1>3, <1>4, SeqUpdate DEF RegistryInv, RegistryTypeOK, GuardIds
  <1>6. /\ actions' \in Seq(Seq(Action)) /\ Len(actions') = Len(actions)
        /\ actions'[id] = Append(actions[id], row)
        /\ \A j \in GuardIds : j # id => actions'[j] = actions[j]
    BY <1>1, <1>3, <1>4, SeqUpdate DEF RegistryInv, RegistryTypeOK, GuardIds
  <1>7. /\ g.lastActionNonce = nonce
        /\ g.agentVault = guards[id].agentVault
        /\ g.owner = guards[id].owner
        /\ g.active = guards[id].active
        /\ g.topUpAmountWei = guards[id].topUpAmountWei
    BY <1>2 DEF Guard
  <1> HIDE DEF g
  <1> QED
    BY <1>1, <1>2, <1>3, <1>4, <1>5, <1>6, <1>7

LEMMA PostKeeps ==
  ASSUME RegistryInv, NEW id, NEW actionType \in ActionTypes,
         NEW amount \in Amounts, NEW nonce \in NonceInputs, NEW sig,
         PostAction(id, actionType, amount, nonce, sig)
  PROVE  RegistryInv'
  <1> DEFINE row == NewAction(actionType, amount, nonce)
  <1>1. RegistryTypeOK'
    BY PostEffect DEF RegistryInv, RegistryTypeOK, PostAction
  <1>2. \A j \in GuardIds :
          /\ guards'[j].agentVault = guards[j].agentVault
          /\ guards'[j].owner = guards[j].owner
    BY PostEffect DEF Guard
  <1>3. VaultIndex'
    <2>1. GuardIds' = GuardIds /\ guardIdOfVault' = guardIdOfVault
      BY PostEffect DEF PostAction
    <2> QED
      BY <1>2, <2>1 DEF RegistryInv, VaultIndex
  <1>4. NonceIsTail'
    <2>1. guards'[id].lastActionNonce = nonce
      BY PostEffect DEF Guard
    <2>2. Ledger!TailNonce(actions'[id]) = nonce
      <3>1. actions[id] \in Seq(Action) /\ row \in Action
            /\ actions'[id] = Append(actions[id], row)
        BY PostEffect
      <3>2. /\ actions'[id] # <<>>
            /\ actions'[id][Len(actions'[id])] = row
        BY <3>1
      <3> QED
        BY <3>2 DEF Ledger!TailNonce, NewAction
    <2> QED
      BY <2>1, <2>2, PostEffect DEF RegistryInv, NonceIsTail
  <1> QED
    BY <1>1, <1>3, <1>4 DEF RegistryInv

LEMMA OwnerKeeps == RegistryInv /\ OwnerNext => RegistryInv'
  BY SwitchesKeep, RegisterKeeps, PolicyKeeps, ActiveKeeps DEF OwnerNext

LEMMA RegistryStepKeeps == RegistryInv /\ [RegistryNext]_registryVars => RegistryInv'
  <1> SUFFICES ASSUME RegistryInv, [RegistryNext]_registryVars
               PROVE  RegistryInv'
    OBVIOUS
  <1>1. CASE OwnerNext
    BY <1>1, OwnerKeeps
  <1>2. CASE PostNext
    BY <1>2, PostKeeps DEF PostNext
  <1>3. CASE UNCHANGED registryVars
    BY <1>3 DEF registryVars, RegistryInv, RegistryTypeOK, VaultIndex, NonceIsTail,
                GuardIds
  <1> QED
    BY <1>1, <1>2, <1>3 DEF RegistryNext

LEMMA RegistryAlways == RegistrySpec => []RegistryInv
  BY RegistryInitially, RegistryStepKeeps, PTL DEF RegistrySpec

(* Whatever transactions reach the contract, its storage stays typed, with one *)
(* guard and one ledger per registered id.                                    *)
THEOREM RegistryTypes == RegistrySpec => []RegistryTypeOK
  <1>1. RegistryInv => RegistryTypeOK
    BY DEF RegistryInv
  <1> QED
    BY <1>1, RegistryAlways, PTL

(* guardIdOfVault is always the exact inverse of guards: a vault never gets a  *)
(* second guard, and a guard always belongs to its vault's owner.             *)
THEOREM VaultIndexIsExact == RegistrySpec => []VaultIndex
  <1>1. RegistryInv => VaultIndex
    BY DEF RegistryInv
  <1> QED
    BY <1>1, RegistryAlways, PTL

(* The nonce postAction compares with is always the nonce of the ledger's last *)
(* row, so the replay check sees the whole ledger.                            *)
THEOREM NonceIsLedgerTail == RegistrySpec => []NonceIsTail
  <1>1. RegistryInv => NonceIsTail
    BY DEF RegistryInv
  <1> QED
    BY <1>1, RegistryAlways, PTL

-----------------------------------------------------------------------------
(* Refinement: the contract's ledgers are an AuditLedger.                     *)

LEMMA RegisterOpens ==
  ASSUME NEW sender, NEW vault, NEW ratio, NEW topUp,
         RegisterAgentVault(sender, vault, ratio, topUp)
  PROVE  Ledger!Open
  BY DEF RegisterAgentVault, Ledger!Open

LEMMA PostRecords ==
  ASSUME RegistryInv, NEW id, NEW actionType \in ActionTypes,
         NEW amount \in Amounts, NEW nonce \in NonceInputs, NEW sig,
         PostAction(id, actionType, amount, nonce, sig)
  PROVE  \E g \in DOMAIN actions, row \in Action : Ledger!Record(g, row)
  <1> DEFINE row == NewAction(actionType, amount, nonce)
  <1>1. id \in GuardIds /\ row \in Action /\ nonce > guards[id].lastActionNonce
    BY PostEffect
  <1>2. id \in DOMAIN actions
    BY <1>1 DEF RegistryInv, RegistryTypeOK, GuardIds
  <1>3. row.nonce > Ledger!TailNonce(actions[id])
    BY <1>1 DEF RegistryInv, NonceIsTail, NewAction
  <1>4. actions' = [actions EXCEPT ![id] = Append(@, row)]
    BY DEF PostAction
  <1> QED
    BY <1>1, <1>2, <1>3, <1>4 DEF Ledger!Record

LEMMA OwnerLedger ==
  OwnerNext => Ledger!Open \/ UNCHANGED actions
  BY RegisterOpens DEF OwnerNext, SetGuardianSigner, SetPaused, SetPolicy,
                       SetGuardActive

(* The contract implements the append-only audit ledger: getActions() only    *)
(* ever grows, one row at a time, by strictly increasing nonces.              *)
THEOREM RegistryIsAuditLedger == RegistrySpec => ImplementsLedger
  <1>1. RegistryInit => Ledger!Init
    BY DEF RegistryInit, Ledger!Init
  <1>2. RegistryInv /\ [RegistryNext]_registryVars => [Ledger!Next]_actions
    <2> SUFFICES ASSUME RegistryInv, [RegistryNext]_registryVars
                 PROVE  [Ledger!Next]_actions
      OBVIOUS
    <2>1. CASE OwnerNext
      BY <2>1, OwnerLedger DEF Ledger!Next
    <2>2. CASE PostNext
      BY <2>2, PostRecords DEF PostNext, Ledger!Next
    <2>3. CASE UNCHANGED registryVars
      BY <2>3 DEF registryVars
    <2> QED
      BY <2>1, <2>2, <2>3 DEF RegistryNext
  <1> QED
    BY <1>1, <1>2, RegistryAlways, PTL DEF RegistrySpec, ImplementsLedger, Ledger!Spec

-----------------------------------------------------------------------------
(* Action properties.                                                         *)

(* A paused registry is frozen but for its owner's two switches. *)
THEOREM PausedIsFrozen == RegistrySpec => PauseFreezes
  <1>1. [RegistryNext]_registryVars =>
          [paused => UNCHANGED <<guardCount, guards, guardIdOfVault, actions>>]_registryVars
    <2> SUFFICES ASSUME RegistryNext, paused
                 PROVE  UNCHANGED <<guardCount, guards, guardIdOfVault, actions>>
      OBVIOUS
    <2>1. ~PostNext
      BY DEF PostNext, PostAction, Accepts
    <2>2. OwnerNext
      BY <2>1 DEF RegistryNext
    <2> QED
      BY <2>2 DEF OwnerNext, SetGuardianSigner, SetPaused, RegisterAgentVault,
                  SetPolicy, SetGuardActive, OwnsGuard
  <1> QED
    BY <1>1, PTL DEF RegistrySpec, PauseFreezes

(* The functions of the owners leave every guard's vault and owner alone. *)
LEMMA OwnerIdentity ==
  ASSUME RegistryInv, OwnerNext, NEW id \in GuardIds
  PROVE  /\ guards'[id].agentVault = guards[id].agentVault
         /\ guards'[id].owner = guards[id].owner
  <1>1. guards \in Seq(Guard) /\ id \in 1 .. Len(guards) /\ guards[id] \in Guard
    BY DEF RegistryInv, RegistryTypeOK, GuardIds
  <1>2. CASE \E sender \in Accounts, vault \in Vaults \cup {ZeroAddress},
                ratio \in Ratios, topUp \in Amounts :
               RegisterAgentVault(sender, vault, ratio, topUp)
    <2>1. PICK sender \in Accounts, vault \in Vaults \cup {ZeroAddress},
               ratio \in Ratios, topUp \in Amounts :
                 RegisterAgentVault(sender, vault, ratio, topUp)
      BY <1>2
    <2>2. NewGuard(sender, vault, ratio, topUp) \in Guard
      BY <2>1, NewGuardType DEF RegisterAgentVault
    <2>3. guards' = Append(guards, NewGuard(sender, vault, ratio, topUp))
      BY <2>1 DEF RegisterAgentVault
    <2>4. guards'[id] = guards[id]
      BY <1>1, <2>2, <2>3, SeqAppend
    <2> QED
      BY <2>4
  <1>3. CASE \E sender \in Accounts, i \in GuardIds, ratio \in Ratios,
                topUp \in Amounts : SetPolicy(sender, i, ratio, topUp)
    BY <1>1, <1>3 DEF SetPolicy, Guard
  <1>4. CASE \E sender \in Accounts, i \in GuardIds, value \in BOOLEAN :
               SetGuardActive(sender, i, value)
    BY <1>1, <1>4 DEF SetGuardActive, Guard
  <1>5. CASE UNCHANGED guards
    BY <1>5
  <1> QED
    BY <1>2, <1>3, <1>4, <1>5 DEF OwnerNext, SetGuardianSigner, SetPaused

(* No guard ever moves to another vault or another owner. *)
THEOREM IdentityIsImmutable == RegistrySpec => IdentityImmutable
  <1> DEFINE Same == \A id \in GuardIds :
                        /\ guards'[id].agentVault = guards[id].agentVault
                        /\ guards'[id].owner = guards[id].owner
  <1>1. RegistryInv /\ [RegistryNext]_registryVars => [Same]_registryVars
    <2> SUFFICES ASSUME RegistryInv, RegistryNext
                 PROVE  Same
      OBVIOUS
    <2>1. CASE OwnerNext
      BY <2>1, OwnerIdentity
    <2>2. CASE PostNext
      <3>1. PICK i \in 1 .. guardCount + 1, actionType \in ActionTypes,
                 amount \in Amounts, nonce \in NonceInputs,
                 signer \in Keys \cup {ZeroAddress}, form \in SignatureForms,
                 chain \in ChainIds, j \in GuardIds, m \in NonceInputs :
                   PostAction(i, actionType, amount, nonce,
                     [signer |-> signer, form |-> form,
                      digest |-> Digest(chain, j, actionType, amount, m)])
        BY <2>2, Zenon DEF PostNext
      <3> QED
        BY <3>1, PostEffect
    <2> QED
      BY <2>1, <2>2 DEF RegistryNext
  <1> QED
    BY <1>1, RegistryAlways, PTL DEF RegistrySpec, IdentityImmutable
=============================================================================
