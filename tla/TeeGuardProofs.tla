--------------------------- MODULE TeeGuardProofs ---------------------------
(* What the enclave's guard and the registry guarantee together, for any     *)
(* number of concurrent handlers, any vaults, keys and policies, any relaying *)
(* of the returned signatures and any rows added while no signer was set.     *)
EXTENDS TeeGuard, GuardianRegistryProofs, FiniteSetTheorems

(* The policy a handler has read may be stale, but in one direction only: its *)
(* nonce is never ahead of the registry's, and if it is still the registry's  *)
(* then the amount it read has been offered since the guard's last row.       *)
SnapshotsCurrent ==
  \A h \in Handlers :
    handlers[h].policy.active =>
      /\ handlers[h].guardId \in GuardIds
      /\ handlers[h].policy.lastActionNonce <= guards[handlers[h].guardId].lastActionNonce
      /\ handlers[h].policy.lastActionNonce = guards[handlers[h].guardId].lastActionNonce
           => handlers[h].policy.topUpAmountWei \in offers[handlers[h].guardId]

\* Only a handler that read an active guard gets to sign.
SignsActive ==
  \A h \in Handlers : handlers[h].pc = "sign" => handlers[h].policy.active

\* What an active guard's policy says is among its offers.
OffersCurrent ==
  \A id \in GuardIds : CurrentOffer(guards[id]) \subseteq offers[id]

(* The inductive invariant. *)
TeeInv ==
  /\ RegistryInv /\ TeeTypeOK /\ GapFree
  /\ SnapshotsCurrent /\ SignsActive /\ SignaturesCurrent /\ OffersCurrent

-----------------------------------------------------------------------------
(* The nonce the enclave signs is in range and is the successor or, after the *)
(* last uint64, zero.                                                         *)
LEMMA NextNonceRange ==
  ASSUME NEW n \in NonceInputs
  PROVE  /\ NextNonce(n) \in NonceInputs
         /\ NextNonce(n) = n + 1 \/ NextNonce(n) = 0
  <1>1. MaxUint64 \in Nat /\ n \in 0 .. MaxUint64
    BY RegistryAssumption DEF NonceInputs
  <1>2. CASE n = MaxUint64
    BY <1>1, <1>2 DEF NextNonce, NonceInputs
  <1>3. CASE n < MaxUint64
    BY <1>1, <1>3 DEF NextNonce, NonceInputs
  <1> QED
    BY <1>1, <1>2, <1>3

(* The counters wrap around within their type. *)
LEMMA CounterRange ==
  ASSUME NEW n \in 0 .. CounterMod - 1
  PROVE  (n + 1) % CounterMod \in 0 .. CounterMod - 1
  BY TeeAssumption

(* A sequence given by its elements. *)
LEMMA SeqByElements ==
  ASSUME NEW S, NEW n \in Nat, NEW f, f = [i \in 1 .. n |-> f[i]],
         \A i \in 1 .. n : f[i] \in S
  PROVE  f \in Seq(S) /\ Len(f) = n
  OBVIOUS

(* What the functions of the owners leave alone: existing ledgers and nonces. *)
LEMMA OwnerEffect ==
  ASSUME RegistryInv, OwnerNext, NEW id \in GuardIds
  PROVE  /\ id \in GuardIds' /\ actions'[id] = actions[id]
         /\ guards'[id].lastActionNonce = guards[id].lastActionNonce
  <1>1. /\ guards \in Seq(Guard) /\ id \in 1 .. Len(guards) /\ guards[id] \in Guard
        /\ actions \in Seq(Seq(Action)) /\ id \in 1 .. Len(actions)
        /\ guardCount \in Nat /\ GuardIds = 1 .. guardCount
    BY DEF RegistryInv, RegistryTypeOK, GuardIds
  <1>2. CASE \E sender \in Accounts, vault \in Vaults \cup {ZeroAddress},
                ratio \in Ratios, topUp \in Amounts :
               RegisterAgentVault(sender, vault, ratio, topUp)
    <2>1. PICK sender \in Accounts, vault \in Vaults \cup {ZeroAddress},
               ratio \in Ratios, topUp \in Amounts :
                 RegisterAgentVault(sender, vault, ratio, topUp)
      BY <1>2
    <2>2. NewGuard(sender, vault, ratio, topUp) \in Guard /\ <<>> \in Seq(Action)
      BY <2>1, NewGuardType DEF RegisterAgentVault
    <2>3. /\ guards' = Append(guards, NewGuard(sender, vault, ratio, topUp))
          /\ actions' = Append(actions, <<>>) /\ guardCount' = guardCount + 1
      BY <2>1 DEF RegisterAgentVault
    <2>4. guards'[id] = guards[id]
      BY <1>1, <2>2, <2>3, SeqAppend
    <2>5. actions'[id] = actions[id]
      BY <1>1, <2>2, <2>3, SeqAppend
    <2> QED
      BY <1>1, <2>3, <2>4, <2>5 DEF GuardIds
  <1>3. CASE \E sender \in Accounts, i \in GuardIds, ratio \in Ratios,
                topUp \in Amounts : SetPolicy(sender, i, ratio, topUp)
    BY <1>1, <1>3 DEF SetPolicy, Guard, GuardIds
  <1>4. CASE \E sender \in Accounts, i \in GuardIds, value \in BOOLEAN :
               SetGuardActive(sender, i, value)
    BY <1>1, <1>4 DEF SetGuardActive, Guard, GuardIds
  <1>5. CASE UNCHANGED <<guardCount, guards, actions>>
    BY <1>5 DEF GuardIds
  <1> QED
    BY <1>2, <1>3, <1>4, <1>5 DEF OwnerNext, SetGuardianSigner, SetPaused

(* How the history of offers moves with the registry: it stays typed, it has  *)
(* the current offers, and it only loses offers when the ledger grows.        *)
LEMMA OffersEffect ==
  ASSUME TeeTypeOK, RegistryInv', UpdateOffers
  PROVE  /\ offers' \in Seq(SUBSET Amounts) /\ Len(offers') = guardCount'
         /\ OffersCurrent'
         /\ \A id \in GuardIds : id \in GuardIds' /\ actions'[id] = actions[id] =>
              offers'[id] = offers[id] \cup CurrentOffer(guards'[id])
  <1>1. /\ guardCount' \in Nat /\ GuardIds' = 1 .. guardCount'
        /\ \A id \in GuardIds' : guards'[id] \in Guard
    BY DEF RegistryInv, RegistryTypeOK, GuardIds
  <1>2. \A id \in GuardIds' : CurrentOffer(guards'[id]) \subseteq Amounts
    BY <1>1 DEF CurrentOffer, Guard
  <1>3. \A id \in GuardIds : offers[id] \in SUBSET Amounts
    BY DEF TeeTypeOK, RegistryTypeOK, GuardIds
  <1>4. offers' = [id \in GuardIds' |->
               (IF id \in GuardIds /\ actions'[id] = actions[id]
                THEN offers[id] ELSE {}) \cup CurrentOffer(guards'[id])]
    BY <1>1 DEF UpdateOffers
  <1>5. \A id \in GuardIds' : offers'[id] \in SUBSET Amounts
    BY <1>2, <1>3, <1>4
  <1>6. offers' = [id \in 1 .. guardCount' |-> offers'[id]]
    BY <1>1, <1>4
  <1>7. offers' \in Seq(SUBSET Amounts) /\ Len(offers') = guardCount'
    BY <1>1, <1>5, <1>6, SeqByElements
  <1>8. OffersCurrent'
    BY <1>4 DEF OffersCurrent
  <1> QED
    BY <1>4, <1>7, <1>8

(* How the history of unsigned rows moves with the registry: as long as no    *)
(* signer is set it counts every row, afterwards it stays.                    *)
LEMMA UnsignedEffect ==
  ASSUME TeeTypeOK, RegistryInv', UpdateUnsigned
  PROVE  /\ unsigned' \in Seq(Nat) /\ Len(unsigned') = guardCount'
         /\ guardianSigner = ZeroAddress =>
              \A id \in GuardIds' : unsigned'[id] = Len(actions'[id])
         /\ guardianSigner # ZeroAddress =>
              \A id \in GuardIds : id \in GuardIds' => unsigned'[id] = unsigned[id]
  <1>1. /\ guardCount' \in Nat /\ GuardIds' = 1 .. guardCount'
        /\ \A id \in GuardIds' : Len(actions'[id]) \in Nat
    BY DEF RegistryInv, RegistryTypeOK, GuardIds
  <1>2. \A id \in GuardIds : unsigned[id] \in Nat
    BY DEF TeeTypeOK, RegistryTypeOK, GuardIds
  <1>3. CASE guardianSigner = ZeroAddress
    <2>1. unsigned' = [id \in GuardIds' |-> Len(actions'[id])]
      BY <1>1, <1>3 DEF UpdateUnsigned
    <2>2. \A id \in 1 .. guardCount' : unsigned'[id] \in Nat
      BY <1>1, <2>1
    <2>3. unsigned' = [id \in 1 .. guardCount' |-> unsigned'[id]]
      BY <1>1, <2>1
    <2> QED
      BY <1>1, <1>3, <2>1, <2>2, <2>3, SeqByElements
  <1>4. CASE guardianSigner # ZeroAddress
    <2>1. unsigned' = [id \in GuardIds' |-> IF id \in GuardIds THEN unsigned[id] ELSE 0]
      BY <1>1, <1>4 DEF UpdateUnsigned
    <2>2. \A id \in 1 .. guardCount' : unsigned'[id] \in Nat
      BY <1>1, <1>2, <2>1
    <2>3. unsigned' = [id \in 1 .. guardCount' |-> unsigned'[id]]
      BY <1>1, <2>1
    <2> QED
      BY <1>1, <1>4, <2>1, <2>2, <2>3, SeqByElements
  <1> QED
    BY <1>3, <1>4

(* A relayed signature that postAction accepts was made by the registered key *)
(* for exactly this call, and its nonce is the guard's next one.              *)
LEMMA RelayForces ==
  ASSUME TeeInv, NEW sig \in issued, NEW id, NEW actionType \in ActionTypes,
         NEW amount \in Amounts, NEW nonce \in NonceInputs,
         PostAction(id, actionType, amount, nonce, sig)
  PROVE  /\ sig.digest = Digest(ChainId, id, actionType, amount, nonce)
         /\ sig.signer = guardianSigner
         /\ actionType = ACTION_VAULT_TOP_UP
         /\ nonce = guards[id].lastActionNonce + 1
         /\ amount \in offers[id]
  <1>1. Recover(Digest(ChainId, id, actionType, amount, nonce), sig) = guardianSigner
    BY DEF PostAction, Accepts
  <1>2. guardianSigner # OtherAddress
    BY RegistryAssumption DEF TeeInv, TeeTypeOK, RegistryTypeOK
  <1>3. /\ sig.digest = Digest(ChainId, id, actionType, amount, nonce)
        /\ sig.signer = guardianSigner
    BY <1>1, <1>2 DEF Recover
  <1>4. /\ SignedGuardId(sig) = id /\ SignedAmount(sig) = amount
        /\ SignedNonce(sig) = nonce /\ sig.digest[3] = actionType
    BY <1>3 DEF Digest, SignedGuardId, SignedAmount, SignedNonce
  <1>5. sig \in Signature /\ sig \in Outstanding
    BY DEF TeeInv, TeeTypeOK, Outstanding
  <1>6. actionType = ACTION_VAULT_TOP_UP
    <2>1. sig.digest \in {EnclaveChainId} \X (Nat \ {0}) \X {ACTION_VAULT_TOP_UP}
                           \X Amounts \X NonceInputs
      BY <1>5 DEF Signature
    <2>2. sig.digest[3] \in {ACTION_VAULT_TOP_UP}
      BY <2>1
    <2> QED
      BY <1>4, <2>2
  <1>7. /\ nonce <= guards[id].lastActionNonce + 1
        /\ nonce = guards[id].lastActionNonce + 1 => amount \in offers[id]
    BY <1>4, <1>5 DEF TeeInv, SignaturesCurrent
  <1>8. nonce > guards[id].lastActionNonce /\ guards[id].lastActionNonce \in Int
        /\ nonce \in Int
    <2>1. nonce > guards[id].lastActionNonce /\ guards[id] \in Guard
      BY PostEffect DEF TeeInv
    <2> QED
      BY <2>1, RegistryAssumption DEF Guard, NonceInputs
  <1>9. nonce = guards[id].lastActionNonce + 1
    BY <1>7, <1>8
  <1> QED
    BY <1>3, <1>6, <1>7, <1>9

(* Signatures of the enclave are only accepted once a signer is set.          *)
LEMMA RelaySigner ==
  ASSUME TeeInv, NEW sig \in issued, NEW id, NEW actionType \in ActionTypes,
         NEW amount \in Amounts, NEW nonce \in NonceInputs,
         PostAction(id, actionType, amount, nonce, sig)
  PROVE  guardianSigner # ZeroAddress
  <1>1. sig.signer = guardianSigner
    BY RelayForces
  <1>2. sig.signer \in Keys
    BY DEF TeeInv, TeeTypeOK, Signature
  <1> QED
    BY <1>1, <1>2, RegistryAssumption

(* Nothing a handler or a returned signature depends on is undone by a step   *)
(* of the registry: ids stay, nonces do not decrease, and as long as a nonce  *)
(* stays the offers stay.                                                     *)
Monotone ==
  \A id \in GuardIds :
    /\ id \in GuardIds'
    /\ guards[id].lastActionNonce <= guards'[id].lastActionNonce
    /\ guards'[id].lastActionNonce = guards[id].lastActionNonce
         => offers[id] \subseteq offers'[id]

LEMMA OwnerMonotone ==
  ASSUME TeeInv, OwnerNext, UpdateOffers
  PROVE  Monotone
  <1>1. RegistryInv /\ RegistryInv' /\ TeeTypeOK
    BY OwnerKeeps DEF TeeInv
  <1>2. \A id \in GuardIds : guards[id].lastActionNonce \in Int
    <2>1. \A id \in GuardIds : guards[id] \in Guard
      BY <1>1 DEF TeeTypeOK, RegistryTypeOK, GuardIds
    <2> QED
      BY <2>1, RegistryAssumption DEF Guard, NonceInputs
  <1> QED
    BY <1>1, <1>2, OwnerEffect, OffersEffect DEF Monotone

LEMMA RelayMonotone ==
  ASSUME TeeInv, NEW sig, NEW id, NEW actionType \in ActionTypes,
         NEW amount \in Amounts, NEW nonce \in NonceInputs,
         PostAction(id, actionType, amount, nonce, sig), UpdateOffers
  PROVE  Monotone
  <1>1. RegistryInv /\ RegistryInv' /\ TeeTypeOK
    BY PostKeeps DEF TeeInv
  <1>2. \A j \in GuardIds : guards[j].lastActionNonce \in Int
    <2>1. \A j \in GuardIds : guards[j] \in Guard
      BY <1>1 DEF TeeTypeOK, RegistryTypeOK, GuardIds
    <2> QED
      BY <2>1, RegistryAssumption DEF Guard, NonceInputs
  <1>3. /\ GuardIds' = GuardIds /\ id \in GuardIds
        /\ nonce > guards[id].lastActionNonce
        /\ guards'[id].lastActionNonce = nonce
        /\ \A j \in GuardIds : j # id =>
             guards'[j] = guards[j] /\ actions'[j] = actions[j]
    BY <1>1, PostEffect
  <1>4. nonce \in Int
    BY RegistryAssumption DEF NonceInputs
  <1>5. \A j \in GuardIds : j # id => offers[j] \subseteq offers'[j]
    BY <1>1, <1>3, OffersEffect
  <1> QED
    BY <1>2, <1>3, <1>4, <1>5 DEF Monotone

(* A monotone step that leaves the enclave alone keeps everything the         *)
(* invariant says about handlers and signatures.                              *)
LEMMA MonotoneKeeps ==
  ASSUME TeeInv, Monotone, UNCHANGED teeVars, RegistryInv',
         offers' \in Seq(SUBSET Amounts), Len(offers') = guardCount',
         unsigned' \in Seq(Nat), Len(unsigned') = guardCount'
  PROVE  TeeTypeOK' /\ SnapshotsCurrent' /\ SignsActive' /\ SignaturesCurrent'
  <1>1. \A id \in GuardIds :
          /\ guards[id].lastActionNonce \in Int
          /\ guards'[id].lastActionNonce \in Int
    <2>1. \A id \in GuardIds : guards[id] \in Guard /\ guards'[id] \in Guard
      BY DEF TeeInv, RegistryInv, RegistryTypeOK, GuardIds, Monotone
    <2> QED
      BY <2>1, RegistryAssumption DEF Guard, NonceInputs
  <1>2. TeeTypeOK'
    BY DEF TeeInv, TeeTypeOK, RegistryInv, teeVars
  <1>3. SnapshotsCurrent'
    <2> SUFFICES ASSUME NEW h \in Handlers, handlers[h].policy.active
                 PROVE  LET id == handlers[h].guardId
                            policy == handlers[h].policy IN
                        /\ id \in GuardIds'
                        /\ policy.lastActionNonce <= guards'[id].lastActionNonce
                        /\ policy.lastActionNonce = guards'[id].lastActionNonce
                             => policy.topUpAmountWei \in offers'[id]
      BY DEF SnapshotsCurrent, teeVars
    <2> DEFINE id == handlers[h].guardId
               n == handlers[h].policy.lastActionNonce
               amount == handlers[h].policy.topUpAmountWei
    <2>1. /\ id \in GuardIds /\ n <= guards[id].lastActionNonce
          /\ n = guards[id].lastActionNonce => amount \in offers[id]
      BY DEF TeeInv, SnapshotsCurrent
    <2>2. n \in Int
      <3>1. handlers[h].policy \in Guard
        BY DEF TeeInv, TeeTypeOK, Handler, NoGuard
      <3> QED
        BY <3>1, RegistryAssumption DEF Guard, NonceInputs
    <2> HIDE DEF id, n, amount
    <2>3. /\ id \in GuardIds' /\ n <= guards'[id].lastActionNonce
          /\ n = guards'[id].lastActionNonce => amount \in offers'[id]
      BY <1>1, <2>1, <2>2 DEF Monotone
    <2> QED
      BY <2>3 DEF id, n, amount
  <1>4. SignsActive'
    BY DEF TeeInv, SignsActive, teeVars
  <1>5. SignaturesCurrent'
    <2>1. Outstanding' = Outstanding
      BY DEF Outstanding, teeVars
    <2> SUFFICES ASSUME NEW sig \in Outstanding
                 PROVE  LET id == SignedGuardId(sig) IN
                        /\ id \in GuardIds'
                        /\ SignedNonce(sig) <= guards'[id].lastActionNonce + 1
                        /\ SignedNonce(sig) = guards'[id].lastActionNonce + 1
                             => SignedAmount(sig) \in offers'[id]
      BY <2>1 DEF SignaturesCurrent
    <2> DEFINE id == SignedGuardId(sig)
               n == SignedNonce(sig)
    <2>2. /\ id \in GuardIds /\ n <= guards[id].lastActionNonce + 1
          /\ n = guards[id].lastActionNonce + 1 => SignedAmount(sig) \in offers[id]
      BY DEF TeeInv, SignaturesCurrent
    <2>3. n \in Int
      <3>1. sig \in Signature
        BY DEF TeeInv, TeeTypeOK, Outstanding, Handler
      <3> QED
        BY <3>1, RegistryAssumption DEF Signature, NonceInputs, SignedNonce
    <2> HIDE DEF id, n
    <2>4. /\ id \in GuardIds' /\ n <= guards'[id].lastActionNonce + 1
          /\ n = guards'[id].lastActionNonce + 1 => SignedAmount(sig) \in offers'[id]
      BY <1>1, <2>2, <2>3 DEF Monotone
    <2> QED
      BY <2>4 DEF id, n
  <1> QED
    BY <1>2, <1>3, <1>4, <1>5
-----------------------------------------------------------------------------
(* One lemma per kind of step: it keeps the inductive invariant.              *)

LEMMA TeeInitially == TeeInit => TeeInv
  <1> SUFFICES ASSUME TeeInit PROVE TeeInv
    OBVIOUS
  <1>1. RegistryInv /\ GuardIds = {} /\ guardCount = 0
    BY RegistryInitially DEF TeeInit, RegistryInit, GuardIds
  <1>2. \A h \in Handlers : handlers[h] = IdleHandler
    BY DEF TeeInit
  <1>3. IdleHandler \in Handler /\ ~IdleHandler.policy.active
        /\ IdleHandler.signed = {} /\ IdleHandler.pc = "idle"
    BY DEF IdleHandler, Handler, Phases, NoGuard
  <1>4. TeeTypeOK
    <2>1. handlers \in [Handlers -> Handler]
      BY <1>3 DEF TeeInit
    <2>2. state \in [checksPerformed : 0 .. CounterMod - 1,
                     actionsSigned : 0 .. CounterMod - 1]
      BY TeeAssumption DEF TeeInit, InitState
    <2>3. /\ offers \in Seq(SUBSET Amounts) /\ Len(offers) = guardCount
          /\ unsigned \in Seq(Nat) /\ Len(unsigned) = guardCount
      BY <1>1 DEF TeeInit
    <2> QED
      BY <1>1, <1>2, <1>3, <2>1, <2>2, <2>3 DEF TeeInit, TeeTypeOK, RegistryInv
  <1>5. Outstanding = {}
    BY <1>2, <1>3 DEF Outstanding, TeeInit
  <1> QED
    BY <1>1, <1>2, <1>3, <1>4, <1>5
       DEF TeeInv, GapFree, SnapshotsCurrent, SignsActive, SignaturesCurrent,
           OffersCurrent

(* While no signer is set, every row counts as unsigned.                      *)
LEMMA UnsetGapFree ==
  ASSUME TeeTypeOK, RegistryInv', UpdateUnsigned, guardianSigner = ZeroAddress
  PROVE  GapFree'
  <1>1. \A id \in GuardIds' : unsigned'[id] = Len(actions'[id]) /\ Len(actions'[id]) \in Nat
    BY UnsignedEffect DEF RegistryInv, RegistryTypeOK, GuardIds
  <1> QED
    BY <1>1 DEF GapFree

(* An owner's transaction leaves every ledger as it is; a new one is empty.   *)
LEMMA OwnerGapFree ==
  ASSUME RegistryInv, TeeTypeOK, GapFree, OwnerNext, RegistryInv', UpdateUnsigned
  PROVE  GapFree'
  <1>0. CASE guardianSigner = ZeroAddress
    BY <1>0, UnsetGapFree
  <1>1. CASE guardianSigner # ZeroAddress
    <2> SUFFICES ASSUME NEW id \in GuardIds', NEW i \in 1 .. Len(actions'[id]),
                        i > unsigned'[id]
                 PROVE  actions'[id][i].nonce =
                          (IF i = 1 THEN 0 ELSE actions'[id][i - 1].nonce) + 1
      BY DEF GapFree
    <2>1. CASE id \in GuardIds
      <3>1. actions'[id] = actions[id] /\ unsigned'[id] = unsigned[id]
        BY <1>1, <2>1, OwnerEffect, UnsignedEffect
      <3> QED
        BY <2>1, <3>1 DEF GapFree
    <2>2. CASE id \notin GuardIds
      <3>1. PICK sender \in Accounts, vault \in Vaults \cup {ZeroAddress},
                 ratio \in Ratios, topUp \in Amounts :
                   RegisterAgentVault(sender, vault, ratio, topUp)
        BY <2>2 DEF OwnerNext, SetGuardianSigner, SetPaused, SetPolicy,
                    SetGuardActive, GuardIds
      <3>2. actions \in Seq(Seq(Action)) /\ Len(actions) = guardCount /\ guardCount \in Nat
        BY DEF RegistryInv, RegistryTypeOK
      <3>3. actions' = Append(actions, <<>>) /\ guardCount' = guardCount + 1
        BY <3>1 DEF RegisterAgentVault
      <3>4. id = guardCount + 1 /\ <<>> \in Seq(Action)
        BY <2>2, <3>2, <3>3 DEF GuardIds
      <3>5. actions'[id] = <<>>
        BY <3>2, <3>3, <3>4, SeqAppend
      <3> QED
        BY <3>5
    <2> QED
      BY <2>1, <2>2
  <1> QED
    BY <1>0, <1>1

LEMMA OwnerStepKeeps == TeeInv /\ OwnerStep => TeeInv'
  <1> SUFFICES ASSUME TeeInv, OwnerStep PROVE TeeInv'
    OBVIOUS
  <1>1. OwnerNext /\ UpdateOffers /\ UpdateUnsigned /\ UNCHANGED teeVars
    BY DEF OwnerStep, UpdateHistory
  <1>2. RegistryInv'
    BY <1>1, OwnerKeeps DEF TeeInv
  <1>3. /\ offers' \in Seq(SUBSET Amounts) /\ Len(offers') = guardCount'
        /\ unsigned' \in Seq(Nat) /\ Len(unsigned') = guardCount'
        /\ OffersCurrent'
    BY <1>1, <1>2, OffersEffect, UnsignedEffect DEF TeeInv
  <1>4. TeeTypeOK' /\ SnapshotsCurrent' /\ SignsActive' /\ SignaturesCurrent'
    BY <1>1, <1>2, <1>3, OwnerMonotone, MonotoneKeeps
  <1>5. GapFree'
    BY <1>1, <1>2, OwnerGapFree DEF TeeInv
  <1> QED
    BY <1>2, <1>3, <1>4, <1>5 DEF TeeInv

(* An accepted postAction, of a signed row or of an unsigned one, keeps        *)
(* everything but what the ledger's numbers say.                              *)
LEMMA PostHistoryKeeps ==
  ASSUME TeeInv, NEW sig, NEW id, NEW actionType \in ActionTypes,
         NEW amount \in Amounts, NEW nonce \in NonceInputs,
         PostAction(id, actionType, amount, nonce, sig), UpdateHistory,
         UNCHANGED teeVars, GapFree'
  PROVE  TeeInv'
  <1>1. UpdateOffers /\ UpdateUnsigned /\ RegistryInv /\ TeeTypeOK
    BY DEF UpdateHistory, TeeInv
  <1>2. RegistryInv'
    BY <1>1, PostKeeps
  <1>3. /\ offers' \in Seq(SUBSET Amounts) /\ Len(offers') = guardCount'
        /\ unsigned' \in Seq(Nat) /\ Len(unsigned') = guardCount'
        /\ OffersCurrent'
    BY <1>1, <1>2, OffersEffect, UnsignedEffect
  <1>4. TeeTypeOK' /\ SnapshotsCurrent' /\ SignsActive' /\ SignaturesCurrent'
    BY <1>1, <1>2, <1>3, RelayMonotone, MonotoneKeeps
  <1> QED
    BY <1>2, <1>3, <1>4 DEF TeeInv

(* A signed row carries the number after the last row's.                      *)
LEMMA RelayKeeps ==
  ASSUME TeeInv, NEW sig \in issued, NEW id, NEW actionType \in ActionTypes,
         NEW amount \in Amounts, NEW nonce \in NonceInputs,
         Relay(sig, id, actionType, amount, nonce)
  PROVE  TeeInv'
  <1> DEFINE row == NewAction(actionType, amount, nonce)
             last == Len(actions[id])
  <1>1. PostAction(id, actionType, amount, nonce, sig) /\ UpdateHistory
        /\ UpdateUnsigned /\ UNCHANGED teeVars /\ RegistryInv /\ TeeTypeOK
    BY DEF Relay, UpdateHistory, TeeInv
  <1>2. /\ id \in GuardIds /\ GuardIds' = GuardIds /\ row \in Action
        /\ actions[id] \in Seq(Action)
        /\ actions'[id] = Append(actions[id], row)
        /\ \A j \in GuardIds : j # id => actions'[j] = actions[j]
    BY <1>1, PostEffect
  <1>3. \A j \in GuardIds : unsigned'[j] = unsigned[j]
    <2>1. guardianSigner # ZeroAddress
      BY <1>1, RelaySigner
    <2>2. RegistryInv'
      BY <1>1, PostKeeps
    <2> QED
      BY <1>1, <1>2, <2>1, <2>2, UnsignedEffect
  <1>4. row.nonce = (IF actions[id] = <<>> THEN 0 ELSE actions[id][last].nonce) + 1
    <2>1. nonce = guards[id].lastActionNonce + 1
      BY <1>1, RelayForces
    <2> QED
      BY <1>1, <1>2, <2>1 DEF RegistryInv, NonceIsTail, Ledger!TailNonce, NewAction
  <1>5. /\ Len(actions'[id]) = last + 1 /\ last \in Nat
        /\ actions'[id][last + 1] = row
        /\ \A i \in 1 .. last : actions'[id][i] = actions[id][i]
        /\ last = 0 <=> actions[id] = <<>>
    BY <1>2, SeqAppend
  <1> HIDE DEF row
  <1>6. \A i \in 1 .. Len(actions'[id]) :
          i > unsigned[id] =>
            actions'[id][i].nonce = (IF i = 1 THEN 0 ELSE actions'[id][i - 1].nonce) + 1
    <2> SUFFICES ASSUME NEW i \in 1 .. Len(actions'[id]), i > unsigned[id]
                 PROVE  actions'[id][i].nonce =
                          (IF i = 1 THEN 0 ELSE actions'[id][i - 1].nonce) + 1
      OBVIOUS
    <2>1. CASE i \in 1 .. last
      <3>1. i = 1 \/ i - 1 \in 1 .. last
        BY <1>5, <2>1
      <3>2. actions[id][i].nonce = (IF i = 1 THEN 0 ELSE actions[id][i - 1].nonce) + 1
        BY <1>2, <2>1 DEF TeeInv, GapFree
      <3> QED
        BY <1>5, <2>1, <3>1, <3>2
    <2>2. CASE i = last + 1
      <3>1. i = 1 <=> actions[id] = <<>>
        BY <1>5, <2>2
      <3>2. i # 1 => i - 1 = last /\ last \in 1 .. last
        BY <1>5, <2>2
      <3> QED
        BY <1>4, <1>5, <2>2, <3>1, <3>2
    <2> QED
      BY <1>5, <2>1, <2>2
  <1>7. GapFree'
    <2> SUFFICES ASSUME NEW j \in GuardIds, NEW i \in 1 .. Len(actions'[j]),
                        i > unsigned'[j]
                 PROVE  actions'[j][i].nonce =
                          (IF i = 1 THEN 0 ELSE actions'[j][i - 1].nonce) + 1
      BY <1>2 DEF GapFree
    <2>1. CASE j = id
      BY <1>2, <1>3, <1>6, <2>1
    <2>2. CASE j # id
      <3>1. actions'[j] = actions[j] /\ unsigned'[j] = unsigned[j]
        BY <1>2, <1>3, <2>2
      <3> QED
        BY <3>1 DEF TeeInv, GapFree
    <2> QED
      BY <2>1, <2>2
  <1> QED
    BY <1>1, <1>7, PostHistoryKeeps

(* A signature nobody made is only accepted while no signer is set.           *)
LEMMA UnrecoverableKeeps ==
  ASSUME TeeInv, NEW id, NEW actionType \in ActionTypes,
         NEW amount \in Amounts, NEW nonce \in NonceInputs,
         PostUnrecoverable(id, actionType, amount, nonce)
  PROVE  TeeInv' /\ guardianSigner = ZeroAddress
  <1> DEFINE sig == [signer |-> ZeroAddress, form |-> "lowS",
                     digest |-> Digest(ChainId, id, actionType, amount, nonce)]
  <1>1. PostAction(id, actionType, amount, nonce, sig) /\ UpdateHistory
        /\ UNCHANGED teeVars /\ UpdateUnsigned /\ TeeTypeOK
    BY DEF PostUnrecoverable, UpdateHistory, TeeInv
  <1>2. guardianSigner = ZeroAddress
    BY <1>1 DEF PostAction, Accepts, Recover
  <1> HIDE DEF sig
  <1>3. RegistryInv'
    BY <1>1, PostKeeps DEF TeeInv
  <1>4. GapFree'
    BY <1>1, <1>2, <1>3, UnsetGapFree
  <1> QED
    BY <1>1, <1>2, <1>4, PostHistoryKeeps
-----------------------------------------------------------------------------
(* Steps of the enclave leave the registry alone: it is enough that the       *)
(* record of the handler that moves stays sound.                              *)

CurrentSignature(sig) ==
  /\ SignedGuardId(sig) \in GuardIds
  /\ SignedNonce(sig) <= guards[SignedGuardId(sig)].lastActionNonce + 1
  /\ SignedNonce(sig) = guards[SignedGuardId(sig)].lastActionNonce + 1
       => SignedAmount(sig) \in offers[SignedGuardId(sig)]

CurrentSnapshot(id, policy) ==
  policy.active =>
    /\ id \in GuardIds
    /\ policy.lastActionNonce <= guards[id].lastActionNonce
    /\ policy.lastActionNonce = guards[id].lastActionNonce
         => policy.topUpAmountWei \in offers[id]

Sound(r) ==
  /\ r \in Handler
  /\ r.pc # "idle" => r.agentVault \in Vaults
  /\ r.pc = "sign" => r.policy.active
  /\ CurrentSnapshot(r.guardId, r.policy)
  /\ \A sig \in r.signed : CurrentSignature(sig)

LEMMA IdleSound == Sound(IdleHandler)
  BY DEF Sound, CurrentSnapshot, IdleHandler, Handler, Phases, NoGuard

LEMMA HandlersSound ==
  ASSUME TeeInv
  PROVE  /\ \A h \in Handlers : Sound(handlers[h])
         /\ \A sig \in issued : CurrentSignature(sig)
  <1>1. \A sig \in Outstanding : CurrentSignature(sig)
    BY DEF TeeInv, SignaturesCurrent, CurrentSignature
  <1>2. \A h \in Handlers : handlers[h].signed \subseteq Outstanding
    BY DEF Outstanding
  <1>3. issued \subseteq Outstanding
    BY DEF Outstanding
  <1>4. \A h \in Handlers : CurrentSnapshot(handlers[h].guardId, handlers[h].policy)
    BY DEF TeeInv, SnapshotsCurrent, CurrentSnapshot
  <1>5. \A h \in Handlers :
          /\ handlers[h] \in Handler
          /\ handlers[h].pc # "idle" => handlers[h].agentVault \in Vaults
          /\ handlers[h].pc = "sign" => handlers[h].policy.active
    BY DEF TeeInv, TeeTypeOK, SignsActive
  <1> QED
    BY <1>1, <1>2, <1>3, <1>4, <1>5 DEF Sound

LEMMA EnclaveKeeps ==
  ASSUME TeeInv, UNCHANGED <<registryVars, offers, unsigned>>,
         factors' \in [Vaults -> FactorPairs], enclaveKey' \in Keys \cup {NoKey},
         state' \in [checksPerformed : 0 .. CounterMod - 1,
                     actionsSigned : 0 .. CounterMod - 1],
         handlers' \in [Handlers -> Handler],
         \A h \in Handlers : Sound(handlers'[h]),
         issued' \subseteq Signature,
         \A sig \in issued' : CurrentSignature(sig)
  PROVE  TeeInv'
  <1>1. GuardIds' = GuardIds /\ guards' = guards /\ offers' = offers
        /\ actions' = actions /\ guardCount' = guardCount
    BY DEF registryVars, GuardIds
  <1>2. RegistryInv'
    BY RegistryStepKeeps DEF TeeInv
  <1>3. GapFree' /\ OffersCurrent'
    BY <1>1 DEF TeeInv, GapFree, OffersCurrent
  <1>4. TeeTypeOK'
    BY <1>1, <1>2 DEF TeeInv, TeeTypeOK, RegistryInv, Sound
  <1>5. SnapshotsCurrent' /\ SignsActive'
    BY <1>1 DEF SnapshotsCurrent, SignsActive, Sound, CurrentSnapshot
  <1>6. SignaturesCurrent'
    <2>1. \A sig \in Outstanding' : CurrentSignature(sig)
      BY DEF Outstanding, Sound
    <2> QED
      BY <1>1, <2>1 DEF SignaturesCurrent, CurrentSignature
  <1> QED
    BY <1>2, <1>3, <1>4, <1>5, <1>6 DEF TeeInv

(* The common case: one handler moves, the others and issued stay. *)
LEMMA MoveKeeps ==
  ASSUME TeeInv, NEW h \in Handlers, NEW r, Sound(r),
         handlers' = [handlers EXCEPT ![h] = r],
         UNCHANGED <<registryVars, factors, enclaveKey, offers, unsigned>>,
         state' \in [checksPerformed : 0 .. CounterMod - 1,
                     actionsSigned : 0 .. CounterMod - 1],
         issued' \subseteq issued \cup handlers[h].signed
  PROVE  TeeInv'
  <1>1. /\ \A g \in Handlers : Sound(handlers[g])
        /\ \A sig \in issued : CurrentSignature(sig)
    BY HandlersSound
  <1>2. handlers \in [Handlers -> Handler] /\ r \in Handler
        /\ issued \subseteq Signature /\ handlers[h].signed \subseteq Signature
        /\ factors \in [Vaults -> FactorPairs] /\ enclaveKey \in Keys \cup {NoKey}
    <2>1. handlers[h] \in Handler
      BY <1>1 DEF Sound
    <2> QED
      BY <2>1 DEF TeeInv, TeeTypeOK, Sound, Handler
  <1>3. handlers' \in [Handlers -> Handler]
        /\ \A g \in Handlers : Sound(handlers'[g])
    BY <1>1, <1>2
  <1>4. \A sig \in issued' : CurrentSignature(sig)
    BY <1>1 DEF Sound
  <1> QED
    BY <1>2, <1>3, <1>4, EnclaveKeeps
LEMMA ArriveKeeps ==
  ASSUME TeeInv, NEW h \in Handlers, NEW v \in Vaults, NEW guardId \in Nat,
         Arrive(h, v, guardId)
  PROVE  TeeInv'
  <1> DEFINE r == [IdleHandler EXCEPT !.pc = "health", !.agentVault = v,
                                      !.guardId = guardId]
  <1>1. Sound(r)
    BY DEF Sound, CurrentSnapshot, IdleHandler, Handler, Phases, NoGuard
  <1> HIDE DEF r
  <1>2. handlers' = [handlers EXCEPT ![h] = r]
        /\ UNCHANGED <<registryVars, factors, enclaveKey, state, issued, offers, unsigned>>
    BY DEF Arrive, r
  <1> QED
    BY <1>1, <1>2, MoveKeeps DEF TeeInv, TeeTypeOK

LEMMA ReadVaultHealthKeeps ==
  ASSUME TeeInv, NEW h \in Handlers, ReadVaultHealth(h)
  PROVE  TeeInv'
  <1> DEFINE r == [handlers[h] EXCEPT !.pc = "policy",
                                      !.health = factors[handlers[h].agentVault]]
  <1>1. Sound(handlers[h])
    BY HandlersSound
  <1>2. /\ handlers[h] \in Handler /\ handlers[h].agentVault \in Vaults
        /\ factors[handlers[h].agentVault] \in FactorPairs
    BY <1>1 DEF Sound, ReadVaultHealth, TeeInv, TeeTypeOK
  <1>3. /\ r \in Handler /\ r.pc = "policy" /\ r.agentVault = handlers[h].agentVault
        /\ r.guardId = handlers[h].guardId /\ r.policy = handlers[h].policy
        /\ r.signed = handlers[h].signed
    BY <1>2 DEF Handler, Phases
  <1> HIDE DEF r
  <1>4. Sound(r)
    BY <1>1, <1>2, <1>3 DEF Sound
  <1>5. handlers' = [handlers EXCEPT ![h] = r]
        /\ UNCHANGED <<registryVars, factors, enclaveKey, state, issued, offers, unsigned>>
    BY DEF ReadVaultHealth, r
  <1> QED
    BY <1>4, <1>5, MoveKeeps DEF TeeInv, TeeTypeOK

(* What the guard reads now is current: the policy of an active guard is      *)
(* among its offers.                                                          *)
LEMMA ReadGuardKeeps ==
  ASSUME TeeInv, NEW h \in Handlers, ReadGuard(h)
  PROVE  TeeInv'
  <1> DEFINE id == handlers[h].guardId
             policy == GuardAt(id)
             r == [handlers[h] EXCEPT !.pc = "record", !.policy = policy]
  <1>1. Sound(handlers[h])
    BY HandlersSound
  <1>2. /\ handlers[h] \in Handler /\ handlers[h].agentVault \in Vaults
    BY <1>1 DEF Sound, ReadGuard
  <1>3. policy \in Guard \cup {NoGuard}
    BY DEF GuardAt, GuardIds, TeeInv, RegistryInv, RegistryTypeOK
  <1>4. CurrentSnapshot(id, policy)
    <2> SUFFICES ASSUME policy.active
                 PROVE  /\ id \in GuardIds
                        /\ policy.lastActionNonce <= guards[id].lastActionNonce
                        /\ policy.topUpAmountWei \in offers[id]
      BY DEF CurrentSnapshot
    <2>1. id \in GuardIds /\ policy = guards[id]
      BY DEF GuardAt, NoGuard
    <2>2. policy \in Guard
      BY <2>1 DEF GuardIds, TeeInv, RegistryInv, RegistryTypeOK
    <2>3. policy.lastActionNonce \in Int
      BY <2>2, RegistryAssumption DEF Guard, NonceInputs
    <2>4. policy.topUpAmountWei \in offers[id]
      BY <2>1 DEF TeeInv, OffersCurrent, CurrentOffer
    <2> QED
      BY <2>1, <2>3, <2>4
  <1> HIDE DEF policy
  <1>5. /\ r \in Handler /\ r.pc = "record" /\ r.agentVault = handlers[h].agentVault
        /\ r.guardId = id /\ r.policy = policy
        /\ r.signed = handlers[h].signed
    BY <1>2, <1>3 DEF Handler, Phases
  <1> HIDE DEF r, id
  <1>6. Sound(r)
    BY <1>1, <1>2, <1>4, <1>5 DEF Sound
  <1>7. handlers' = [handlers EXCEPT ![h] = r]
        /\ UNCHANGED <<registryVars, factors, enclaveKey, state, issued, offers, unsigned>>
    BY DEF ReadGuard, r, id, policy
  <1> QED
    BY <1>6, <1>7, MoveKeeps DEF TeeInv, TeeTypeOK

LEMMA RecordCheckKeeps ==
  ASSUME TeeInv, NEW h \in Handlers, RecordCheck(h)
  PROVE  TeeInv'
  <1> DEFINE signs == Decision(handlers[h].health) = "TOP_UP_REQUIRED"
                        /\ handlers[h].policy.active
             pc == IF signs THEN "sign" ELSE "respond"
             r == [handlers[h] EXCEPT !.pc = pc]
  <1>1. Sound(handlers[h])
    BY HandlersSound
  <1>2. /\ handlers[h] \in Handler /\ handlers[h].agentVault \in Vaults
    BY <1>1 DEF Sound, RecordCheck
  <1>3. pc \in Phases /\ (pc = "sign" => handlers[h].policy.active)
    BY DEF Phases
  <1>4. /\ handlers' = [handlers EXCEPT ![h] = r]
        /\ state' = [state EXCEPT !.checksPerformed =
                       (state.checksPerformed + 1) % CounterMod]
        /\ UNCHANGED <<registryVars, factors, enclaveKey, issued, offers, unsigned>>
    BY DEF RecordCheck
  <1> HIDE DEF pc, signs
  <1>5. /\ r \in Handler /\ r.pc = pc /\ r.agentVault = handlers[h].agentVault
        /\ r.guardId = handlers[h].guardId /\ r.policy = handlers[h].policy
        /\ r.signed = handlers[h].signed
    BY <1>2, <1>3 DEF Handler
  <1> HIDE DEF r
  <1>6. Sound(r)
    BY <1>1, <1>2, <1>3, <1>5 DEF Sound
  <1>7. state' \in [checksPerformed : 0 .. CounterMod - 1,
                    actionsSigned : 0 .. CounterMod - 1]
    BY <1>4, CounterRange DEF TeeInv, TeeTypeOK
  <1> QED
    BY <1>4, <1>6, <1>7, MoveKeeps

(* The signature made from a stale snapshot is still no more than one ahead. *)
LEMMA SignActionKeeps ==
  ASSUME TeeInv, NEW h \in Handlers, SignAction(h)
  PROVE  TeeInv'
  <1> DEFINE id == handlers[h].guardId
             policy == handlers[h].policy
             n == NextNonce(policy.lastActionNonce)
             sig == SignTopUpAction(enclaveKey, id, policy.topUpAmountWei, n)
             r == [handlers[h] EXCEPT !.pc = "respond", !.signed = {sig}]
  <1>1. Sound(handlers[h])
    BY HandlersSound
  <1>2. /\ handlers[h] \in Handler /\ handlers[h].agentVault \in Vaults
        /\ policy.active /\ CurrentSnapshot(id, policy)
    BY <1>1 DEF Sound, SignAction
  <1>3. policy \in Guard
    BY <1>2 DEF Handler, NoGuard
  <1>4. /\ policy.lastActionNonce \in NonceInputs /\ policy.topUpAmountWei \in Amounts
    BY <1>3 DEF Guard
  <1>5. n \in NonceInputs /\ (n = policy.lastActionNonce + 1 \/ n = 0)
    BY <1>4, NextNonceRange
  <1>6. /\ id \in GuardIds
        /\ policy.lastActionNonce <= guards[id].lastActionNonce
        /\ policy.lastActionNonce = guards[id].lastActionNonce
             => policy.topUpAmountWei \in offers[id]
    BY <1>2 DEF CurrentSnapshot
  <1>7. policy.lastActionNonce \in Nat /\ guards[id].lastActionNonce \in Nat
    <2>1. guards[id] \in Guard
      BY <1>6 DEF GuardIds, TeeInv, RegistryInv, RegistryTypeOK
    <2> QED
      BY <1>4, <2>1, RegistryAssumption DEF Guard, NonceInputs
  <1>8. /\ handlers' = [handlers EXCEPT ![h] = r]
        /\ state' = [state EXCEPT !.actionsSigned =
                       (state.actionsSigned + 1) % CounterMod]
        /\ UNCHANGED <<registryVars, factors, enclaveKey, issued, offers, unsigned>>
        /\ enclaveKey # NoKey
    BY DEF SignAction
  <1> HIDE DEF n
  <1>9. /\ SignedGuardId(sig) = id /\ SignedNonce(sig) = n
        /\ SignedAmount(sig) = policy.topUpAmountWei
    BY DEF SignTopUpAction, Digest, SignedGuardId, SignedNonce, SignedAmount
  <1>10. sig \in Signature
    <2>1. id \in Nat \ {0} /\ enclaveKey \in Keys
      BY <1>6, <1>8 DEF GuardIds, TeeInv, TeeTypeOK, RegistryInv, RegistryTypeOK
    <2> QED
      BY <1>4, <1>5, <2>1 DEF Signature, SignTopUpAction, Digest
  <1> HIDE DEF sig
  <1>11. CurrentSignature(sig)
    BY <1>5, <1>6, <1>7, <1>9 DEF CurrentSignature
  <1>12. /\ r \in Handler /\ r.pc = "respond" /\ r.agentVault = handlers[h].agentVault
         /\ r.guardId = id /\ r.policy = policy /\ r.signed = {sig}
    BY <1>2, <1>10 DEF Handler, Phases
  <1> HIDE DEF r, id, policy
  <1>13. Sound(r)
    BY <1>2, <1>11, <1>12 DEF Sound
  <1>14. state' \in [checksPerformed : 0 .. CounterMod - 1,
                     actionsSigned : 0 .. CounterMod - 1]
    BY <1>8, CounterRange DEF TeeInv, TeeTypeOK
  <1> QED
    BY <1>8, <1>13, <1>14, MoveKeeps

LEMMA FinishKeeps ==
  ASSUME TeeInv, NEW h \in Handlers, Respond(h) \/ Fail(h)
  PROVE  TeeInv'
  <1>1. /\ handlers' = [handlers EXCEPT ![h] = IdleHandler]
        /\ UNCHANGED <<registryVars, factors, enclaveKey, state, offers, unsigned>>
        /\ issued' \subseteq issued \cup handlers[h].signed
    BY DEF Respond, Fail
  <1> QED
    BY <1>1, IdleSound, MoveKeeps DEF TeeInv, TeeTypeOK

LEMMA RestartKeeps ==
  ASSUME TeeInv, NEW key \in Keys \cup {NoKey}, EnclaveRestart(key)
  PROVE  TeeInv'
  <1>1. handlers' \in [Handlers -> Handler]
        /\ \A h \in Handlers : Sound(handlers'[h])
    BY IdleSound DEF EnclaveRestart, Sound
  <1>2. state' \in [checksPerformed : 0 .. CounterMod - 1,
                    actionsSigned : 0 .. CounterMod - 1]
    BY TeeAssumption DEF EnclaveRestart, InitState
  <1>3. issued' \subseteq Signature /\ \A sig \in issued' : CurrentSignature(sig)
    BY HandlersSound DEF EnclaveRestart, TeeInv, TeeTypeOK
  <1>4. factors' \in [Vaults -> FactorPairs] /\ enclaveKey' \in Keys \cup {NoKey}
        /\ UNCHANGED <<registryVars, offers, unsigned>>
    BY DEF EnclaveRestart, TeeInv, TeeTypeOK
  <1> QED
    BY <1>1, <1>2, <1>3, <1>4, EnclaveKeeps

LEMMA FactorsChangeKeeps ==
  ASSUME TeeInv, NEW v \in Vaults, NEW pair \in FactorPairs, FactorsChange(v, pair)
  PROVE  TeeInv'
  <1>1. factors' \in [Vaults -> FactorPairs] /\ UNCHANGED <<registryVars, offers, unsigned>>
    BY DEF FactorsChange, TeeInv, TeeTypeOK
  <1>2. UNCHANGED <<enclaveKey, handlers, state, issued>>
    BY DEF FactorsChange
  <1> QED
    BY <1>1, <1>2, HandlersSound, EnclaveKeeps DEF TeeInv, TeeTypeOK

LEMMA TeeStutterKeeps == TeeInv /\ UNCHANGED vars => TeeInv'
  <1> SUFFICES ASSUME TeeInv, UNCHANGED vars PROVE TeeInv'
    OBVIOUS
  <1>1. UNCHANGED <<registryVars, offers, unsigned, factors, enclaveKey, handlers,
                    state, issued>>
    BY DEF vars, teeVars
  <1> QED
    BY <1>1, HandlersSound, EnclaveKeeps DEF TeeInv, TeeTypeOK

LEMMA TeeStepKeeps == TeeInv /\ [TeeNext]_vars => TeeInv'
  <1> SUFFICES ASSUME TeeInv, [TeeNext]_vars PROVE TeeInv'
    OBVIOUS
  <1>1. CASE OwnerStep
    BY <1>1, OwnerStepKeeps
  <1>2. CASE \E sig \in issued, id \in GuardIds, actionType \in ActionTypes,
                amount \in Amounts, nonce \in NonceInputs :
               Relay(sig, id, actionType, amount, nonce)
    BY <1>2, RelayKeeps
  <1>3. CASE \E h \in Handlers, v \in Vaults, guardId \in 1 .. guardCount + 1 :
               Arrive(h, v, guardId)
    <2>1. 1 .. guardCount + 1 \subseteq Nat
      BY DEF TeeInv, RegistryInv, RegistryTypeOK
    <2> QED
      BY <1>3, <2>1, ArriveKeeps
  <1>4. CASE \E h \in Handlers : HandlerStep(h)
    BY <1>4, ReadVaultHealthKeeps, ReadGuardKeeps, RecordCheckKeeps,
       SignActionKeeps, FinishKeeps DEF HandlerStep
  <1>5. CASE \E key \in Keys \cup {NoKey} : EnclaveRestart(key)
    BY <1>5, RestartKeeps
  <1>6. CASE \E v \in Vaults, pair \in FactorPairs : FactorsChange(v, pair)
    BY <1>6, FactorsChangeKeeps
  <1>7. CASE UNCHANGED vars
    BY <1>7, TeeStutterKeeps
  <1>8. CASE UnrecoverableStep
    BY <1>8, UnrecoverableKeeps DEF UnrecoverableStep
  <1> QED
    BY <1>1, <1>2, <1>3, <1>4, <1>5, <1>6, <1>7, <1>8 DEF TeeNext, RelayStep

LEMMA TeeAlways == TeeSpec => []TeeInv
  BY TeeInitially, TeeStepKeeps, PTL DEF TeeSpec

(* Every variable of the enclave and of the registry keeps its type. *)
THEOREM TeeTypes == TeeSpec => []TeeTypeOK
  <1>1. TeeInv => TeeTypeOK
    BY DEF TeeInv
  <1> QED
    BY <1>1, TeeAlways, PTL

(* From setGuardianSigner on ledgers never skip a number, whatever handlers    *)
(* run concurrently and however their signatures are delayed, lost, repeated   *)
(* or submitted with other arguments, and whatever rows others added before.   *)
THEOREM LedgerIsGapFree == TeeSpec => []GapFree
  <1>1. TeeInv => GapFree
    BY DEF TeeInv
  <1> QED
    BY <1>1, TeeAlways, PTL

(* Signatures, however stale the policy they were made from, run at most one   *)
(* row ahead of the ledger and then carry an amount that was offered.          *)
THEOREM SignaturesAreCurrent == TeeSpec => []SignaturesCurrent
  <1>1. TeeInv => SignaturesCurrent
    BY DEF TeeInv
  <1> QED
    BY <1>1, TeeAlways, PTL
-----------------------------------------------------------------------------
(* The decision: what a handler does with the factors and the policy it read. *)

(* A factor parsed with ParseUint's error ignored is positive exactly when the *)
(* factor itself is: saturation never turns danger into zero.                 *)
LEMMA DecisionIsLiquidatable ==
  ASSUME NEW health \in FactorPairs \cup {NoFactors}
  PROVE  Decision(health) = "TOP_UP_REQUIRED" <=> Liquidatable(health)
  <1>1. health.vault \in Nat /\ health.pool \in Nat
    BY TeeAssumption DEF NoFactors
  <1>2. MaxUint64 \in Nat /\ MaxUint64 > 0
    BY RegistryAssumption
  <1>3. \A n \in Nat : ParseUint64(n) > 0 <=> n > 0
    BY <1>2 DEF ParseUint64
  <1> QED
    BY <1>1, <1>3 DEF Decision, Liquidatable

\* What DangerDecides says of one handler, and that no earlier phase has signed.
Decided(r) ==
  /\ r.pc # "respond" => r.signed = {}
  /\ r.pc \in {"sign", "respond"} =>
       ((r.pc = "sign" \/ r.signed # {}) <=> (Liquidatable(r.health) /\ r.policy.active))

DangerInv == \A h \in Handlers : Decided(handlers[h])

LEMMA IdleDecided == Decided(IdleHandler)
  BY DEF Decided, IdleHandler

(* Only the handler that moves can disturb the invariant. *)
LEMMA MoveDecided ==
  ASSUME TeeInv, DangerInv, NEW h \in Handlers, NEW r, Decided(r),
         handlers' = [handlers EXCEPT ![h] = r]
  PROVE  DangerInv'
  <1>1. \A g \in Handlers : handlers'[g] = IF g = h THEN r ELSE handlers[g]
    BY DEF TeeInv, TeeTypeOK
  <1> QED
    BY <1>1 DEF DangerInv

LEMMA HandlerStepDecided ==
  ASSUME TeeInv, DangerInv, NEW h \in Handlers, HandlerStep(h)
  PROVE  DangerInv'
  <1> DEFINE r == handlers[h]
  <1>1. r \in Handler /\ Decided(r)
    BY DEF TeeInv, TeeTypeOK, DangerInv
  <1> HIDE DEF r
  <1>2. CASE ReadVaultHealth(h)
    <2> DEFINE q == [r EXCEPT !.pc = "policy", !.health = factors[r.agentVault]]
    <2>1. r.pc = "health" /\ handlers' = [handlers EXCEPT ![h] = q]
      BY <1>2 DEF ReadVaultHealth, r
    <2>2. Decided(q)
      BY <1>1, <2>1 DEF Handler, Decided
    <2> HIDE DEF q
    <2> QED
      BY <2>1, <2>2, MoveDecided
  <1>3. CASE ReadGuard(h)
    <2> DEFINE q == [r EXCEPT !.pc = "record", !.policy = GuardAt(r.guardId)]
    <2>1. r.pc = "policy" /\ handlers' = [handlers EXCEPT ![h] = q]
      BY <1>3 DEF ReadGuard, r
    <2>2. Decided(q)
      BY <1>1, <2>1 DEF Handler, Decided
    <2> HIDE DEF q
    <2> QED
      BY <2>1, <2>2, MoveDecided
  <1>4. CASE RecordCheck(h)
    <2> DEFINE pc == IF Decision(r.health) = "TOP_UP_REQUIRED" /\ r.policy.active
                     THEN "sign" ELSE "respond"
               q == [r EXCEPT !.pc = pc]
    <2>1. r.pc = "record" /\ handlers' = [handlers EXCEPT ![h] = q]
      BY <1>4 DEF RecordCheck, r
    <2>2. Decision(r.health) = "TOP_UP_REQUIRED" <=> Liquidatable(r.health)
      BY <1>1, DecisionIsLiquidatable DEF Handler
    <2>3. /\ q.pc = pc /\ q.signed = {} /\ q.health = r.health /\ q.policy = r.policy
      BY <1>1, <2>1 DEF Handler, Decided
    <2>4. Decided(q)
      BY <2>2, <2>3 DEF Decided
    <2> HIDE DEF q
    <2> QED
      BY <2>1, <2>4, MoveDecided
  <1>5. CASE SignAction(h)
    <2> DEFINE sig == SignTopUpAction(enclaveKey, r.guardId, r.policy.topUpAmountWei,
                                      NextNonce(r.policy.lastActionNonce))
               q == [r EXCEPT !.pc = "respond", !.signed = {sig}]
    <2>1. r.pc = "sign" /\ handlers' = [handlers EXCEPT ![h] = q]
      BY <1>5 DEF SignAction, r
    <2> HIDE DEF sig
    <2>2. Decided(q)
      BY <1>1, <2>1 DEF Handler, Decided
    <2> HIDE DEF q
    <2> QED
      BY <2>1, <2>2, MoveDecided
  <1>6. CASE Respond(h) \/ Fail(h)
    <2>1. handlers' = [handlers EXCEPT ![h] = IdleHandler]
      BY <1>6 DEF Respond, Fail
    <2> QED
      BY <2>1, IdleDecided, MoveDecided
  <1> QED
    BY <1>2, <1>3, <1>4, <1>5, <1>6 DEF HandlerStep

LEMMA DangerStep == TeeInv /\ DangerInv /\ [TeeNext]_vars => DangerInv'
  <1> SUFFICES ASSUME TeeInv, DangerInv, [TeeNext]_vars PROVE DangerInv'
    OBVIOUS
  <1>1. CASE \E h \in Handlers : HandlerStep(h)
    BY <1>1, HandlerStepDecided
  <1>2. CASE \E h \in Handlers, v \in Vaults, guardId \in 1 .. guardCount + 1 :
               Arrive(h, v, guardId)
    <2>1. PICK h \in Handlers, v \in Vaults, guardId \in 1 .. guardCount + 1 :
            Arrive(h, v, guardId)
      BY <1>2
    <2> DEFINE q == [IdleHandler EXCEPT !.pc = "health", !.agentVault = v,
                                        !.guardId = guardId]
    <2>2. handlers' = [handlers EXCEPT ![h] = q]
      BY <2>1 DEF Arrive
    <2>3. Decided(q)
      BY DEF Decided, IdleHandler
    <2> HIDE DEF q
    <2> QED
      BY <2>2, <2>3, MoveDecided
  <1>3. CASE \E key \in Keys \cup {NoKey} : EnclaveRestart(key)
    BY <1>3, IdleDecided DEF EnclaveRestart, DangerInv
  <1>4. CASE UNCHANGED handlers
    BY <1>4 DEF DangerInv
  <1> QED
    BY <1>1, <1>2, <1>3, <1>4
       DEF TeeNext, OwnerStep, RelayStep, Relay, UnrecoverableStep, PostUnrecoverable,
           FactorsChange, vars, teeVars

(* A handler signs if and only if the factors it read mark the vault as        *)
(* liquidatable and the policy it read is active, for factors of every width.  *)
THEOREM DangerAlwaysDecides == TeeSpec => []DangerDecides
  <1>1. TeeInit => DangerInv
    BY IdleDecided DEF TeeInit, DangerInv
  <1>2. DangerInv => DangerDecides
    BY DEF DangerInv, Decided, DangerDecides
  <1> QED
    BY <1>1, <1>2, DangerStep, TeeAlways, PTL DEF TeeSpec

-----------------------------------------------------------------------------
(* The counters of GET /state.                                                *)

Signing == {h \in Handlers : handlers[h].pc = "sign"}

\* SignedAreCounted with the bound that keeps both counters from wrapping.
CountInv == SignedAreCounted /\ state.checksPerformed <= MaxChecks

LEMMA SigningFinite ==
  ASSUME IsFiniteSet(Handlers)
  PROVE  IsFiniteSet(Signing) /\ Cardinality(Signing) \in Nat
  BY FS_Subset, FS_CardinalityType DEF Signing

(* Steps that neither count nor change who is about to sign. *)
LEMMA SameCount ==
  ASSUME CountInv, Signing' = Signing, state' = state
  PROVE  CountInv'
  BY DEF CountInv, SignedAreCounted, Signing

LEMMA RecordCounts ==
  ASSUME TeeInv, CountInv, IsFiniteSet(Handlers), MaxChecks < CounterMod,
         NEW h \in Handlers, RecordCheck(h)
  PROVE  CountInv'
  <1>1. /\ state \in [checksPerformed : Nat, actionsSigned : Nat]
        /\ handlers \in [Handlers -> Handler] /\ handlers[h] \in Handler
    BY TeeAssumption DEF TeeInv, TeeTypeOK
  <1>2. /\ handlers[h].pc = "record" /\ state.checksPerformed < MaxChecks
        /\ state' = [state EXCEPT !.checksPerformed =
                       (state.checksPerformed + 1) % CounterMod]
    BY DEF RecordCheck
  <1>3. (state.checksPerformed + 1) % CounterMod = state.checksPerformed + 1
    BY <1>1, <1>2, TeeAssumption
  <1>4. /\ state'.checksPerformed = state.checksPerformed + 1
        /\ state'.actionsSigned = state.actionsSigned
    BY <1>1, <1>2, <1>3
  <1>5. Signing' = Signing \/ Signing' = Signing \cup {h}
    BY <1>1 DEF RecordCheck, Signing, Handler
  <1>6. h \notin Signing
    BY <1>2 DEF Signing
  <1>7. /\ Cardinality(Signing) \in Nat
        /\ Cardinality(Signing') \in {Cardinality(Signing), Cardinality(Signing) + 1}
    BY <1>5, <1>6, SigningFinite, FS_AddElement
  <1>8. state.actionsSigned + Cardinality(Signing) <= state.checksPerformed
    BY DEF CountInv, SignedAreCounted, Signing
  <1>9. /\ state'.actionsSigned + Cardinality(Signing') <= state'.checksPerformed
        /\ state'.checksPerformed <= MaxChecks
    BY <1>1, <1>2, <1>4, <1>7, <1>8, TeeAssumption
  <1> QED
    BY <1>9 DEF CountInv, SignedAreCounted, Signing

LEMMA SignCounts ==
  ASSUME TeeInv, CountInv, IsFiniteSet(Handlers), MaxChecks < CounterMod,
         NEW h \in Handlers, SignAction(h) \/ Fail(h)
  PROVE  CountInv'
  <1>1. /\ state \in [checksPerformed : Nat, actionsSigned : Nat]
        /\ handlers \in [Handlers -> Handler] /\ handlers[h] \in Handler
    BY TeeAssumption DEF TeeInv, TeeTypeOK
  <1>2. Signing' = Signing \ {h}
    BY <1>1 DEF SignAction, Fail, IdleHandler, Signing, Handler
  <1>3. /\ Cardinality(Signing) \in Nat
        /\ Cardinality(Signing') = IF h \in Signing THEN Cardinality(Signing) - 1
                                   ELSE Cardinality(Signing)
        /\ h \in Signing => Cardinality(Signing) # 0
    BY <1>2, SigningFinite, FS_RemoveElement, FS_EmptySet
  <1>4. /\ state.actionsSigned + Cardinality(Signing) <= state.checksPerformed
        /\ state.checksPerformed <= MaxChecks
    BY DEF CountInv, SignedAreCounted, Signing
  <1>5. CASE SignAction(h)
    <2>1. /\ h \in Signing
          /\ state' = [state EXCEPT !.actionsSigned =
                         (state.actionsSigned + 1) % CounterMod]
      BY <1>5 DEF SignAction, Signing
    <2>2. (state.actionsSigned + 1) % CounterMod = state.actionsSigned + 1
      BY <1>1, <1>3, <1>4, <2>1, TeeAssumption
    <2>3. /\ state'.actionsSigned = state.actionsSigned + 1
          /\ state'.checksPerformed = state.checksPerformed
      BY <1>1, <2>1, <2>2
    <2>4. /\ state'.actionsSigned + Cardinality(Signing') <= state'.checksPerformed
          /\ state'.checksPerformed <= MaxChecks
      BY <1>1, <1>3, <1>4, <2>1, <2>3
    <2> QED
      BY <2>4 DEF CountInv, SignedAreCounted, Signing
  <1>6. CASE Fail(h)
    <2>1. state' = state
      BY <1>6 DEF Fail
    <2>2. /\ state'.actionsSigned + Cardinality(Signing') <= state'.checksPerformed
          /\ state'.checksPerformed <= MaxChecks
      BY <1>1, <1>3, <1>4, <2>1
    <2> QED
      BY <2>2 DEF CountInv, SignedAreCounted, Signing
  <1> QED
    BY <1>5, <1>6

LEMMA ResetCounts ==
  ASSUME handlers = [h \in Handlers |-> IdleHandler], state = InitState
  PROVE  CountInv
  <1>1. Signing = {}
    BY DEF Signing, IdleHandler
  <1>2. Cardinality(Signing) = 0
    BY <1>1, FS_EmptySet
  <1> QED
    BY <1>2, TeeAssumption DEF CountInv, SignedAreCounted, Signing, InitState

LEMMA CountStep ==
  ASSUME IsFiniteSet(Handlers), MaxChecks < CounterMod
  PROVE  TeeInv /\ CountInv /\ [TeeNext]_vars => CountInv'
  <1> SUFFICES ASSUME TeeInv, CountInv, [TeeNext]_vars PROVE CountInv'
    OBVIOUS
  <1>1. handlers \in [Handlers -> Handler] /\ \A h \in Handlers : handlers[h] \in Handler
    BY DEF TeeInv, TeeTypeOK
  <1>2. CASE \E h \in Handlers : RecordCheck(h)
    BY <1>2, RecordCounts
  <1>3. CASE \E h \in Handlers : SignAction(h) \/ Fail(h)
    BY <1>3, SignCounts
  <1>4. CASE \E h \in Handlers : ReadVaultHealth(h) \/ ReadGuard(h) \/ Respond(h)
    <2>1. Signing' = Signing /\ state' = state
      BY <1>1, <1>4 DEF ReadVaultHealth, ReadGuard, Respond, IdleHandler, Signing, Handler
    <2> QED
      BY <2>1, SameCount
  <1>5. CASE \E h \in Handlers, v \in Vaults, guardId \in 1 .. guardCount + 1 :
               Arrive(h, v, guardId)
    <2>1. Signing' = Signing /\ state' = state
      BY <1>1, <1>5 DEF Arrive, IdleHandler, Signing, Handler
    <2> QED
      BY <2>1, SameCount
  <1>6. CASE \E key \in Keys \cup {NoKey} : EnclaveRestart(key)
    <2>1. handlers' = [h \in Handlers |-> IdleHandler] /\ state' = InitState
      BY <1>6 DEF EnclaveRestart
    <2>2. Signing' = {}
      BY <2>1 DEF Signing, IdleHandler
    <2>3. Cardinality(Signing') = 0
      BY <2>2, FS_EmptySet
    <2> QED
      BY <2>1, <2>3, TeeAssumption DEF CountInv, SignedAreCounted, Signing, InitState
  <1>7. CASE UNCHANGED <<handlers, state>>
    BY <1>7, SameCount DEF Signing
  <1> QED
    BY <1>2, <1>3, <1>4, <1>5, <1>6, <1>7
       DEF TeeNext, HandlerStep, OwnerStep, RelayStep, Relay, UnrecoverableStep,
           PostUnrecoverable, FactorsChange, vars, teeVars

(* With finitely many requests in flight, and before checksPerformed reaches   *)
(* the width of its type, GET /state never shows more signed actions than      *)
(* checks, whatever handlers interleave and however often the enclave restarts. *)
THEOREM SignedActionsAreCounted ==
  ASSUME IsFiniteSet(Handlers), MaxChecks < CounterMod
  PROVE  TeeSpec => []SignedAreCounted
  <1>1. TeeInit => CountInv
    BY ResetCounts DEF TeeInit
  <1>2. CountInv => SignedAreCounted
    BY DEF CountInv
  <1> QED
    BY <1>1, <1>2, CountStep, TeeAlways, PTL DEF TeeSpec

-----------------------------------------------------------------------------
(* Refinement: ledgers and offers are a GuardianPromise.                      *)

promiseVars == <<actions, offers, guardianSigner # ZeroAddress>>

LEMMA SameSeq ==
  ASSUME NEW S, NEW s \in Seq(S), NEW t \in Seq(S), Len(s) = Len(t),
         \A i \in 1 .. Len(s) : s[i] = t[i]
  PROVE  s = t
  OBVIOUS

(* A step on the policy of one guard adds at most that guard's current offer. *)
LEMMA PolicyOffers ==
  ASSUME TeeInv, RegistryInv', UpdateOffers, NEW id \in GuardIds,
         UNCHANGED <<guardCount, actions, guardianSigner>>,
         \A j \in GuardIds : j # id => guards'[j] = guards[j]
  PROVE  [Promise!Next]_promiseVars
  <1>1. /\ GuardIds' = GuardIds /\ GuardIds = 1 .. guardCount
        /\ offers \in Seq(SUBSET Amounts) /\ Len(offers) = guardCount
        /\ DOMAIN actions = GuardIds
    BY DEF GuardIds, TeeInv, TeeTypeOK, RegistryInv, RegistryTypeOK
  <1>2. /\ offers' \in Seq(SUBSET Amounts) /\ Len(offers') = guardCount
        /\ \A j \in GuardIds : offers'[j] = offers[j] \cup CurrentOffer(guards'[j])
    BY <1>1, OffersEffect DEF TeeInv
  <1>3. \A j \in GuardIds : j # id => offers'[j] = offers[j]
    BY <1>2 DEF TeeInv, OffersCurrent
  <1>4. guards'[id] \in Guard
    BY <1>1 DEF RegistryInv, RegistryTypeOK, GuardIds
  <1>5. CASE ~guards'[id].active
    <2>1. offers'[id] = offers[id]
      BY <1>2, <1>5 DEF CurrentOffer
    <2>2. offers' = offers
      BY <1>1, <1>2, <1>3, <2>1, SameSeq
    <2> QED
      BY <2>2 DEF promiseVars
  <1>6. CASE guards'[id].active
    <2> DEFINE a == guards'[id].topUpAmountWei
               t == [offers EXCEPT ![id] = offers[id] \cup {a}]
    <2>1. a \in Amounts
      BY <1>4 DEF Guard
    <2>2. offers'[id] = offers[id] \cup {a}
      BY <1>2, <1>6 DEF CurrentOffer
    <2>3. /\ t \in Seq(SUBSET Amounts) /\ Len(t) = Len(offers)
          /\ t[id] = offers[id] \cup {a}
          /\ \A j \in GuardIds : j # id => t[j] = offers[j]
      <3>1. id \in 1 .. Len(offers) /\ offers[id] \cup {a} \in SUBSET Amounts
        BY <1>1, <2>1
      <3> QED
        BY <1>1, <3>1, SeqUpdate
    <2> HIDE DEF t
    <2>4. offers' = t
      <3>1. \A j \in GuardIds : offers'[j] = t[j]
        BY <1>3, <2>2, <2>3
      <3> QED
        BY <1>1, <1>2, <2>3, <3>1, SameSeq
    <2>5. Promise!Offer(id, a)
      <3>1. (guardianSigner # ZeroAddress)' = (guardianSigner # ZeroAddress)
        OBVIOUS
      <3> QED
        BY <2>4, <3>1 DEF Promise!Offer, t
    <2> QED
      BY <1>1, <2>1, <2>5 DEF Promise!Next
  <1> QED
    BY <1>5, <1>6

(* A registration enrols the guard with the amount it commits to. *)
LEMMA RegisterEnrols ==
  ASSUME TeeInv, RegistryInv', UpdateOffers,
         NEW sender \in Accounts, NEW vault \in Vaults \cup {ZeroAddress},
         NEW ratio \in Ratios, NEW topUp \in Amounts,
         RegisterAgentVault(sender, vault, ratio, topUp)
  PROVE  Promise!Enrol(topUp)
  <1> DEFINE new == NewGuard(sender, vault, ratio, topUp)
             t == Append(offers, {topUp})
  <1>1. /\ guards \in Seq(Guard) /\ Len(guards) = guardCount /\ guardCount \in Nat
        /\ actions \in Seq(Seq(Action)) /\ Len(actions) = guardCount
        /\ offers \in Seq(SUBSET Amounts) /\ Len(offers) = guardCount
    BY DEF TeeInv, TeeTypeOK, RegistryInv, RegistryTypeOK
  <1>2. /\ guards' = Append(guards, new) /\ actions' = Append(actions, <<>>)
        /\ guardCount' = guardCount + 1 /\ new \in Guard
    BY NewGuardType DEF RegisterAgentVault
  <1>3. /\ GuardIds = 1 .. guardCount
        /\ GuardIds' = GuardIds \cup {guardCount + 1}
        /\ guardCount + 1 \notin GuardIds
    BY <1>1, <1>2 DEF GuardIds
  <1>4. /\ guards'[guardCount + 1] = new
        /\ \A j \in GuardIds : guards'[j] = guards[j]
    BY <1>1, <1>2, <1>3, SeqAppend
  <1>5. \A j \in GuardIds : actions'[j] = actions[j]
    <2>1. <<>> \in Seq(Action)
      OBVIOUS
    <2> QED
      BY <1>1, <1>2, <1>3, <2>1, SeqAppend
  <1>6. CurrentOffer(new) = {topUp}
    BY DEF CurrentOffer, NewGuard
  <1> HIDE DEF new
  <1>7. /\ offers' \in Seq(SUBSET Amounts) /\ Len(offers') = guardCount + 1
    BY <1>2, OffersEffect DEF TeeInv
  <1>8. \A j \in GuardIds : offers'[j] = offers[j]
    <2>1. \A j \in GuardIds : offers'[j] = offers[j] \cup CurrentOffer(guards[j])
      BY <1>3, <1>4, <1>5, OffersEffect DEF TeeInv
    <2> QED
      BY <2>1 DEF TeeInv, OffersCurrent
  <1>9. offers'[guardCount + 1] = {topUp}
    <2>1. guardCount + 1 \in 1 .. guardCount'
      BY <1>1, <1>2
    <2>2. offers'[guardCount + 1] = {} \cup CurrentOffer(guards'[guardCount + 1])
      BY <1>3, <2>1 DEF UpdateOffers
    <2> QED
      BY <1>4, <1>6, <2>2
  <1>10. /\ t \in Seq(SUBSET Amounts) /\ Len(t) = guardCount + 1
         /\ t[guardCount + 1] = {topUp}
         /\ \A j \in GuardIds : t[j] = offers[j]
    <2>1. {topUp} \in SUBSET Amounts
      OBVIOUS
    <2> QED
      BY <1>1, <1>3, <2>1, SeqAppend
  <1> HIDE DEF t
  <1>11. \A j \in 1 .. guardCount + 1 : offers'[j] = t[j]
    <2>1. 1 .. guardCount + 1 = GuardIds \cup {guardCount + 1}
      BY <1>1, <1>3
    <2> QED
      BY <1>8, <1>9, <1>10, <2>1
  <1>12. offers' = t
    BY <1>7, <1>10, <1>11, SameSeq
  <1>13. (guardianSigner # ZeroAddress)' = (guardianSigner # ZeroAddress)
    BY DEF RegisterAgentVault
  <1> QED
    BY <1>2, <1>12, <1>13 DEF Promise!Enrol, t

(* An accepted postAction adds its row and resets the guard's offers. *)
LEMMA PostExtends ==
  ASSUME TeeInv, NEW sig, NEW id, NEW actionType \in ActionTypes,
         NEW amount \in Amounts, NEW nonce \in NonceInputs,
         PostAction(id, actionType, amount, nonce, sig), UpdateOffers
  PROVE  LET current == CurrentOffer(guards'[id]) IN
         /\ id \in DOMAIN actions
         /\ current \in {{}} \cup {{a} : a \in Amounts}
         /\ Promise!LastNonce(actions[id]) = guards[id].lastActionNonce
         /\ Promise!Extend(id, NewAction(actionType, amount, nonce), current)
  <1> DEFINE current == CurrentOffer(guards'[id])
             t == [offers EXCEPT ![id] = current]
  <1>1. RegistryInv /\ TeeTypeOK
    BY DEF TeeInv
  <1>2. RegistryInv'
    BY <1>1, PostKeeps
  <1>3. /\ id \in GuardIds /\ GuardIds' = GuardIds
        /\ actions[id] \in Seq(Action) /\ guards'[id] \in Guard
        /\ actions'[id] = Append(actions[id], NewAction(actionType, amount, nonce))
        /\ \A j \in GuardIds : j # id =>
             guards'[j] = guards[j] /\ actions'[j] = actions[j]
    BY <1>1, PostEffect
  <1>4. Promise!LastNonce(actions[id]) = guards[id].lastActionNonce
    BY <1>1, <1>3 DEF RegistryInv, NonceIsTail, Ledger!TailNonce, Promise!LastNonce
  <1>5. /\ GuardIds = 1 .. guardCount /\ guardCount' = guardCount
        /\ offers \in Seq(SUBSET Amounts) /\ Len(offers) = guardCount
        /\ DOMAIN actions = GuardIds
    BY <1>1 DEF GuardIds, TeeTypeOK, RegistryTypeOK, PostAction
  <1>6. current \in {{}} \cup {{a} : a \in Amounts} /\ current \in SUBSET Amounts
    BY <1>3 DEF CurrentOffer, Guard
  <1>7. /\ offers' \in Seq(SUBSET Amounts) /\ Len(offers') = guardCount
        /\ \A j \in GuardIds : j # id => offers'[j] = offers[j]
    <2>1. \A j \in GuardIds : j # id =>
             offers'[j] = offers[j] \cup CurrentOffer(guards[j])
      BY <1>1, <1>2, <1>3, OffersEffect
    <2> QED
      BY <1>1, <1>2, <1>5, <2>1, OffersEffect DEF TeeInv, OffersCurrent
  <1>8. offers'[id] = current
    <2>1. actions'[id] # actions[id]
      <3>1. NewAction(actionType, amount, nonce) \in Action
        BY <1>1, PostEffect
      <3>2. Len(actions'[id]) = Len(actions[id]) + 1 /\ Len(actions[id]) \in Nat
        BY <1>3, <3>1
      <3> QED
        BY <3>2
    <2>2. id \in 1 .. guardCount'
      BY <1>3, <1>5
    <2> QED
      BY <2>1, <2>2, <1>1 DEF UpdateOffers
  <1> HIDE DEF current
  <1>9. /\ t \in Seq(SUBSET Amounts) /\ Len(t) = guardCount /\ t[id] = current
        /\ \A j \in GuardIds : j # id => t[j] = offers[j]
    BY <1>3, <1>5, <1>6, SeqUpdate
  <1> HIDE DEF t
  <1>10. offers' = t
    <2>1. \A j \in 1 .. guardCount : offers'[j] = t[j]
      BY <1>5, <1>7, <1>8, <1>9
    <2> QED
      BY <1>7, <1>9, <2>1, SameSeq
  <1>11. /\ actions' = [actions EXCEPT ![id] =
                          Append(actions[id], NewAction(actionType, amount, nonce))]
         /\ (guardianSigner # ZeroAddress)' = (guardianSigner # ZeroAddress)
    BY DEF PostAction
  <1>12. Promise!Extend(id, NewAction(actionType, amount, nonce), current)
    BY <1>10, <1>11 DEF Promise!Extend, t
  <1> QED
    BY <1>3, <1>4, <1>5, <1>6, <1>12 DEF current

(* An accepted signature records the next row, of an amount on offer. *)
LEMMA RelayRecords ==
  ASSUME TeeInv, NEW sig \in issued, NEW id, NEW actionType \in ActionTypes,
         NEW amount \in Amounts, NEW nonce \in NonceInputs,
         Relay(sig, id, actionType, amount, nonce)
  PROVE  Promise!Next
  <1> DEFINE current == CurrentOffer(guards'[id])
  <1>1. PostAction(id, actionType, amount, nonce, sig) /\ UpdateOffers
    BY DEF Relay, UpdateHistory
  <1>2. /\ id \in DOMAIN actions
        /\ current \in {{}} \cup {{a} : a \in Amounts}
        /\ Promise!LastNonce(actions[id]) = guards[id].lastActionNonce
        /\ Promise!Extend(id, NewAction(actionType, amount, nonce), current)
    BY <1>1, PostExtends
  <1> HIDE DEF current
  <1>3. /\ actionType = ACTION_VAULT_TOP_UP /\ amount \in offers[id]
        /\ nonce = Promise!LastNonce(actions[id]) + 1
        /\ guardianSigner # ZeroAddress
    BY <1>1, <1>2, RelayForces, RelaySigner
  <1>4. Promise!Record(id, amount, current)
    BY <1>2, <1>3 DEF Promise!Record, NewAction
  <1> QED
    BY <1>2, <1>4 DEF Promise!Next

(* A row nobody signed is one the promise admits before the commissioning. *)
LEMMA UnrecoverableAdmits ==
  ASSUME TeeInv, NEW id, NEW actionType \in ActionTypes,
         NEW amount \in Amounts, NEW nonce \in NonceInputs,
         PostUnrecoverable(id, actionType, amount, nonce)
  PROVE  Promise!Next
  <1> DEFINE current == CurrentOffer(guards'[id])
             row == NewAction(actionType, amount, nonce)
             sig == [signer |-> ZeroAddress, form |-> "lowS",
                     digest |-> Digest(ChainId, id, actionType, amount, nonce)]
  <1>1. PostAction(id, actionType, amount, nonce, sig) /\ UpdateOffers
    BY DEF PostUnrecoverable, UpdateHistory
  <1> HIDE DEF sig
  <1>2. /\ id \in DOMAIN actions
        /\ current \in {{}} \cup {{a} : a \in Amounts}
        /\ Promise!LastNonce(actions[id]) = guards[id].lastActionNonce
        /\ Promise!Extend(id, row, current)
    BY <1>1, PostExtends
  <1> HIDE DEF current
  <1>3. row \in Action /\ row.nonce = nonce /\ nonce > guards[id].lastActionNonce
    BY <1>1, PostEffect DEF TeeInv, NewAction
  <1>4. guardianSigner = ZeroAddress
    BY UnrecoverableKeeps
  <1> HIDE DEF row
  <1>5. Promise!Admit(id, row, current)
    BY <1>2, <1>3, <1>4 DEF Promise!Admit
  <1> QED
    BY <1>2, <1>3, <1>5 DEF Promise!Next

LEMMA OwnerPromises ==
  ASSUME TeeInv, OwnerStep
  PROVE  [Promise!Next]_promiseVars
  <1>1. OwnerNext /\ UpdateOffers
    BY DEF OwnerStep, UpdateHistory
  <1>2. RegistryInv' /\ RegistryInv
    BY <1>1, OwnerKeeps DEF TeeInv
  <1>3. CASE \E sender \in Accounts, vault \in Vaults \cup {ZeroAddress},
                ratio \in Ratios, topUp \in Amounts :
               RegisterAgentVault(sender, vault, ratio, topUp)
    BY <1>1, <1>2, <1>3, RegisterEnrols DEF Promise!Next
  <1>4. CASE \E sender \in Accounts, i \in GuardIds, ratio \in Ratios,
                topUp \in Amounts : SetPolicy(sender, i, ratio, topUp)
    <2>0. PICK sender \in Accounts, i \in GuardIds, ratio \in Ratios,
               topUp \in Amounts : SetPolicy(sender, i, ratio, topUp)
      BY <1>4
    <2>1. /\ UNCHANGED <<guardCount, actions, guardianSigner>>
          /\ guards' = [guards EXCEPT ![i] =
               [guards[i] EXCEPT !.vaultCollateralRatioBIPS = ratio,
                                 !.topUpAmountWei = topUp]]
      BY <2>0 DEF SetPolicy
    <2>2. \A j \in GuardIds : j # i => guards'[j] = guards[j]
      BY <1>2, <2>1 DEF RegistryInv, RegistryTypeOK, GuardIds
    <2> QED
      BY <1>1, <1>2, <2>1, <2>2, PolicyOffers
  <1>5. CASE \E sender \in Accounts, i \in GuardIds, value \in BOOLEAN :
               SetGuardActive(sender, i, value)
    <2>0. PICK sender \in Accounts, i \in GuardIds, value \in BOOLEAN :
            SetGuardActive(sender, i, value)
      BY <1>5
    <2>1. /\ UNCHANGED <<guardCount, actions, guardianSigner>>
          /\ guards' = [guards EXCEPT ![i] = [guards[i] EXCEPT !.active = value]]
      BY <2>0 DEF SetGuardActive
    <2>2. \A j \in GuardIds : j # i => guards'[j] = guards[j]
      BY <1>2, <2>1 DEF RegistryInv, RegistryTypeOK, GuardIds
    <2> QED
      BY <1>1, <1>2, <2>1, <2>2, PolicyOffers
  <1>6. CASE /\ UNCHANGED <<guardCount, guards, actions>>
             /\ guardianSigner' # ZeroAddress \/ guardianSigner' = guardianSigner
    <2>1. /\ GuardIds' = GuardIds /\ GuardIds = 1 .. guardCount
          /\ offers \in Seq(SUBSET Amounts) /\ Len(offers) = guardCount
      BY <1>6 DEF GuardIds, TeeInv, TeeTypeOK
    <2>2. /\ offers' \in Seq(SUBSET Amounts) /\ Len(offers') = guardCount
          /\ \A j \in GuardIds : offers'[j] = offers[j] \cup CurrentOffer(guards[j])
      BY <1>1, <1>2, <1>6, <2>1, OffersEffect DEF TeeInv
    <2>3. \A j \in GuardIds : offers'[j] = offers[j]
      BY <2>2 DEF TeeInv, OffersCurrent
    <2>4. offers' = offers
      BY <2>1, <2>2, <2>3, SameSeq
    <2>5. CASE guardianSigner' # ZeroAddress
      BY <1>6, <2>4, <2>5 DEF Promise!Next, Promise!Commission
    <2>6. CASE guardianSigner' = guardianSigner
      <3>1. (guardianSigner # ZeroAddress)' = (guardianSigner # ZeroAddress)
        BY <2>6
      <3> QED
        BY <1>6, <2>4, <3>1 DEF promiseVars
    <2> QED
      BY <1>6, <2>5, <2>6
  <1> QED
    BY <1>1, <1>3, <1>4, <1>5, <1>6 DEF OwnerNext, SetGuardianSigner, SetPaused

(* Enclave and registry keep the promise to the agent: from setGuardianSigner  *)
(* on, gap-free ledgers of top-ups whose amounts the active policy committed   *)
(* to since the last row.                                                     *)
THEOREM PromiseIsKept == TeeSpec => KeepsPromise
  <1>1. TeeInit => Promise!Init
    BY DEF TeeInit, RegistryInit, Promise!Init
  <1>2. TeeInv /\ [TeeNext]_vars => [Promise!Next]_promiseVars
    <2> SUFFICES ASSUME TeeInv, [TeeNext]_vars
                 PROVE  [Promise!Next]_promiseVars
      OBVIOUS
    <2>1. CASE OwnerStep
      BY <2>1, OwnerPromises
    <2>2. CASE \E sig \in issued, id \in GuardIds, actionType \in ActionTypes,
                  amount \in Amounts, nonce \in NonceInputs :
                 Relay(sig, id, actionType, amount, nonce)
      BY <2>2, RelayRecords
    <2>3. CASE UnrecoverableStep
      BY <2>3, UnrecoverableAdmits DEF UnrecoverableStep
    <2>4. CASE UNCHANGED <<registryVars, offers, unsigned>>
      <3>1. (guardianSigner # ZeroAddress)' = (guardianSigner # ZeroAddress)
        BY <2>4 DEF registryVars
      <3> QED
        BY <2>4, <3>1 DEF registryVars, promiseVars
    <2> QED
      BY <2>1, <2>2, <2>3, <2>4
         DEF TeeNext, RelayStep, vars, HandlerStep, Arrive, ReadVaultHealth, ReadGuard,
             RecordCheck, SignAction, Respond, Fail, EnclaveRestart, FactorsChange
  <1> QED
    BY <1>1, <1>2, TeeAlways, PTL DEF TeeSpec, KeepsPromise, Promise!Spec, promiseVars
=============================================================================
