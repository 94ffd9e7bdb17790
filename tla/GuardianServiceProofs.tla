------------------------ MODULE GuardianServiceProofs ------------------------
(* What the service's loop guarantees together with the enclave and the      *)
(* registry, for any number of guards, request slots, other callers, pending *)
(* transactions and faults: it asks about the guard's own vault, a receipt is *)
(* never mistaken, and what it submits again does no harm.                    *)
EXTENDS GuardianService, TeeGuardProofs

TickPhases ==
  {"sleep", "count", "signer", "guard", "check", "await", "recheck", "post", "receipt"}

Tick ==
  [pc : TickPhases, n : Nat, signer : Keys \cup {ZeroAddress}, id : Nat,
   agentVault : Vaults \cup {ZeroAddress}, slot : SUBSET Handlers,
   signed : SUBSET Signature, receipt : {"none", "pending", "success", "reverted"}]

HealthType ==
  [lastLoop : BOOLEAN, lastError : BOOLEAN, teeReachable : BOOLEAN,
   actionsPosted : 0 .. CounterMod - 1, checksPerformed : 0 .. CounterMod - 1]

Transaction == [guardId : Nat, sig : Signature, watched : BOOLEAN, lost : BOOLEAN]

(* A tick t is sound when there are `count' guards gs and the enclave has      *)
(* returned `returned': from the first guard read on it is at a registered     *)
(* guard, it asks about that guard's vault, it waits for one request, and what *)
(* it holds was returned to it for that guard.                                 *)
SoundTick(t, count, gs, returned) ==
  /\ t \in Tick /\ t.id <= t.n /\ t.n <= count
  /\ t.pc \notin {"sleep", "count", "signer"} => t.id # 0
  /\ t.pc = "check" => t.agentVault = gs[t.id].agentVault
  /\ t.pc # "await" => t.slot = {}
  /\ \A g1, g2 \in t.slot : g1 = g2
  /\ t.signed \subseteq returned
  /\ t.pc \notin {"recheck", "post", "receipt"} => t.signed = {}
  /\ \A s1, s2 \in t.signed : s1 = s2
  /\ \A sig \in t.signed : SignedGuardId(sig) = t.id
  /\ t.pc # "receipt" => t.receipt = "none"

(* Pending transactions carry returned signatures for registered guards, and   *)
(* at most one is watched: the one whose receipt the tick t is waiting for.    *)
SoundPool(pool, t, count, returned) ==
  /\ pool \in Seq(Transaction)
  /\ \A i \in 1 .. Len(pool) :
       /\ pool[i].sig \in returned
       /\ pool[i].guardId \in 1 .. count
       /\ SignedGuardId(pool[i].sig) = pool[i].guardId
       /\ pool[i].watched => /\ t.pc = "receipt" /\ t.receipt = "pending"
                             /\ pool[i].guardId = t.id /\ pool[i].sig \in t.signed
  /\ \A i, j \in 1 .. Len(pool) : pool[i].watched /\ pool[j].watched => i = j

(* A success receipt of the tick t is backed by a row of the ledgers log. *)
SoundReceipt(t, log) ==
  t.pc = "receipt" /\ t.receipt = "success" =>
    \A sig \in t.signed : \E i \in 1 .. Len(log[t.id]) :
      /\ log[t.id][i].nonce = SignedNonce(sig)
      /\ log[t.id][i].amount = SignedAmount(sig)

\* The handler the service waits for is the one its request started.
SlotFits ==
  \A h \in svc.slot :
    handlers[h].pc # "idle" =>
      /\ handlers[h].guardId = svc.id /\ svc.id \in GuardIds
      /\ handlers[h].agentVault = guards[svc.id].agentVault

\* A handler makes at most one signature, for the guard it was asked about.
FittingHandler(r) ==
  /\ \A s1, s2 \in r.signed : s1 = s2
  /\ \A sig \in r.signed : SignedGuardId(sig) = r.guardId

SignsOnce == \A h \in Handlers : FittingHandler(handlers[h])

HandlersFit == SlotFits /\ SignsOnce

(* The inductive invariant. *)
ServiceInv ==
  /\ TeeInv /\ HandlersFit
  /\ SoundTick(svc, guardCount, guards, issued)
  /\ SoundPool(mempool, svc, guardCount, issued)
  /\ SoundReceipt(svc, actions)
  /\ health \in HealthType /\ faults \in 0 .. MaxFaults

-----------------------------------------------------------------------------
(* Nothing the service has seen is taken back by a step of the registry or     *)
(* the enclave.                                                               *)
Grows ==
  /\ guardCount <= guardCount' /\ issued \subseteq issued'
  /\ \A id \in GuardIds :
       /\ id \in GuardIds'
       /\ guards'[id].agentVault = guards[id].agentVault
       /\ Len(actions[id]) <= Len(actions'[id])
       /\ \A i \in 1 .. Len(actions[id]) : actions'[id][i] = actions[id][i]

LEMMA QuietGrows ==
  ASSUME TeeInv, UNCHANGED registryVars, issued \subseteq issued'
  PROVE  Grows
  <1>1. guardCount \in Nat /\ \A id \in GuardIds : Len(actions[id]) \in Nat
    <2>1. \A id \in GuardIds : actions[id] \in Seq(Action)
      BY DEF TeeInv, RegistryInv, RegistryTypeOK, GuardIds
    <2> QED
      BY <2>1 DEF TeeInv, RegistryInv, RegistryTypeOK
  <1> QED
    BY <1>1 DEF Grows, registryVars, GuardIds

LEMMA OwnerGrows ==
  ASSUME TeeInv, OwnerStep
  PROVE  Grows
  <1>1. RegistryInv /\ RegistryInv' /\ OwnerNext /\ issued' = issued
    BY OwnerKeeps DEF TeeInv, OwnerStep, teeVars
  <1>2. \A id \in GuardIds : Len(actions[id]) \in Nat
    <2>1. \A id \in GuardIds : actions[id] \in Seq(Action)
      BY <1>1 DEF RegistryInv, RegistryTypeOK, GuardIds
    <2> QED
      BY <2>1
  <1>3. guardCount <= guardCount'
    <2>1. guardCount' = guardCount \/ guardCount' = guardCount + 1
      BY <1>1 DEF OwnerNext, SetGuardianSigner, SetPaused, RegisterAgentVault,
                  SetPolicy, SetGuardActive
    <2> QED
      BY <1>1, <2>1 DEF RegistryInv, RegistryTypeOK
  <1> QED
    BY <1>1, <1>2, <1>3, OwnerEffect, OwnerIdentity DEF Grows

LEMMA PostGrows ==
  ASSUME TeeInv, NEW sig, NEW id, NEW actionType \in ActionTypes,
         NEW amount \in Amounts, NEW nonce \in NonceInputs,
         PostAction(id, actionType, amount, nonce, sig), UNCHANGED teeVars
  PROVE  Grows
  <1> DEFINE row == NewAction(actionType, amount, nonce)
  <1>1. /\ RegistryInv /\ PostAction(id, actionType, amount, nonce, sig)
        /\ issued' = issued
    BY DEF TeeInv, teeVars
  <1>2. guardCount' = guardCount /\ guardCount \in Nat
    BY <1>1 DEF PostAction, RegistryInv, RegistryTypeOK
  <1>3. \A j \in GuardIds : actions[j] \in Seq(Action) /\ Len(actions[j]) \in Nat
    BY <1>1 DEF RegistryInv, RegistryTypeOK, GuardIds
  <1>4. /\ id \in GuardIds /\ row \in Action /\ GuardIds' = GuardIds
        /\ guards'[id].agentVault = guards[id].agentVault
        /\ actions'[id] = Append(actions[id], row)
        /\ \A j \in GuardIds : j # id =>
             guards'[j] = guards[j] /\ actions'[j] = actions[j]
    BY <1>1, PostEffect
  <1>5. /\ Len(actions[id]) <= Len(actions'[id])
        /\ \A i \in 1 .. Len(actions[id]) : actions'[id][i] = actions[id][i]
    BY <1>3, <1>4, SeqAppend
  <1> QED
    BY <1>1, <1>2, <1>3, <1>4, <1>5 DEF Grows

LEMMA TeeGrows ==
  ASSUME TeeInv, [TeeNext]_vars
  PROVE  Grows
  <1>1. CASE OwnerStep
    BY <1>1, OwnerGrows
  <1>2. CASE RelayStep
    BY <1>2, PostGrows DEF RelayStep, Relay
  <1>3. CASE UnrecoverableStep
    BY <1>3, PostGrows DEF UnrecoverableStep, PostUnrecoverable
  <1>4. CASE UNCHANGED registryVars /\ issued \subseteq issued'
    BY <1>4, QuietGrows
  <1> QED
    BY <1>1, <1>2, <1>3, <1>4
       DEF TeeNext, HandlerStep, Arrive, ReadVaultHealth, ReadGuard, RecordCheck,
           SignAction, Respond, Fail, EnclaveRestart, FactorsChange, vars, teeVars

-----------------------------------------------------------------------------
(* Every step of the composition is a step of TeeGuard or leaves it alone.     *)

LEMMA ServiceFacts ==
  ASSUME ServiceInv
  PROVE  /\ guardCount \in Nat /\ GuardIds = 1 .. guardCount
         /\ svc \in Tick /\ svc.id \in Nat /\ svc.n \in Nat
         /\ svc.id <= svc.n /\ svc.n <= guardCount
         /\ svc.pc \notin {"sleep", "count", "signer"} => svc.id \in GuardIds
         /\ svc.pc # "receipt" => svc.receipt = "none"
         /\ handlers \in [Handlers -> Handler]
         /\ \A id \in GuardIds : guards[id] \in Guard /\ guards[id].agentVault \in Vaults
  <1>1. guardCount \in Nat /\ GuardIds = 1 .. guardCount
        /\ handlers \in [Handlers -> Handler]
        /\ \A id \in GuardIds : guards[id] \in Guard
    BY DEF ServiceInv, TeeInv, TeeTypeOK, RegistryInv, RegistryTypeOK, GuardIds
  <1>2. \A id \in GuardIds : guards[id].agentVault \in Vaults
    BY <1>1 DEF Guard
  <1>3. /\ svc \in Tick /\ svc.id \in Nat /\ svc.n \in Nat
        /\ svc.id <= svc.n /\ svc.n <= guardCount
        /\ svc.pc \notin {"sleep", "count", "signer"} => svc.id # 0
        /\ svc.pc # "receipt" => svc.receipt = "none"
    BY DEF ServiceInv, SoundTick, Tick
  <1> QED
    BY <1>1, <1>2, <1>3

LEMMA CallTeeFacts ==
  ASSUME ServiceInv, NEW h \in Handlers, CallTee(h)
  PROVE  /\ Arrive(h, svc.agentVault, svc.id) /\ svc.id \in GuardIds
         /\ svc.agentVault \in Vaults /\ svc.agentVault = guards[svc.id].agentVault
         /\ svc.id \in 1 .. guardCount + 1
  <1>1. svc.pc = "check" /\ Arrive(h, svc.agentVault, svc.id)
    BY DEF CallTee, At
  <1>2. svc.id \in GuardIds /\ guards[svc.id].agentVault \in Vaults
        /\ guardCount \in Nat /\ GuardIds = 1 .. guardCount
    BY <1>1, ServiceFacts
  <1>3. svc.agentVault = guards[svc.id].agentVault
    BY <1>1 DEF ServiceInv, SoundTick
  <1> QED
    BY <1>1, <1>2, <1>3

(* The transaction at the head of the pool carries arguments a caller of       *)
(* postAction may pass, and a signature the enclave returned.                  *)
LEMMA HeadFacts ==
  ASSUME ServiceInv, mempool # <<>>
  PROVE  LET tx == Head(mempool) IN
         /\ tx = mempool[1] /\ 1 \in 1 .. Len(mempool)
         /\ tx.sig \in issued /\ tx.guardId \in GuardIds
         /\ tx.sig.digest[3] \in ActionTypes /\ SignedAmount(tx.sig) \in Amounts
         /\ SignedNonce(tx.sig) \in NonceInputs
  <1> DEFINE tx == Head(mempool)
  <1>1. mempool \in Seq(Transaction) /\ tx = mempool[1] /\ 1 \in 1 .. Len(mempool)
        /\ tx \in Transaction
    BY DEF ServiceInv, SoundPool
  <1>2. tx.sig \in issued /\ tx.guardId \in GuardIds
    BY <1>1 DEF ServiceInv, SoundPool, GuardIds
  <1>3. tx.sig.digest \in {EnclaveChainId} \X (Nat \ {0}) \X {ACTION_VAULT_TOP_UP}
                            \X Amounts \X NonceInputs
    BY <1>1 DEF Transaction, Signature
  <1>4. /\ tx.sig.digest[3] \in {ACTION_VAULT_TOP_UP} /\ tx.sig.digest[4] \in Amounts
        /\ tx.sig.digest[5] \in NonceInputs
    BY <1>3
  <1> QED
    BY <1>1, <1>2, <1>4, TeeAssumption DEF SignedAmount, SignedNonce

LEMMA ServiceStepIsTeeStep == ServiceInv /\ [ServiceNext]_allVars => [TeeNext]_vars
  <1> SUFFICES ASSUME ServiceInv, [ServiceNext]_allVars PROVE [TeeNext]_vars
    OBVIOUS
  <1>1. CASE \E h \in Handlers : CallTee(h)
    BY <1>1, CallTeeFacts DEF TeeNext
  <1>2. CASE \E h \in Handlers : TeeReply(h) \/ HandlerFault(h) \/ EnclaveStep(h)
    BY <1>2 DEF TeeReply, HandlerFault, EnclaveStep, TeeNext, HandlerStep
  <1>3. CASE \E key \in Keys \cup {NoKey} : EnclaveFault(key)
    BY <1>3 DEF EnclaveFault, TeeNext
  <1>4. CASE Mine
    <2>1. CASE UNCHANGED vars
      BY <2>1
    <2>2. CASE mempool # <<>>
               /\ Relay(Head(mempool).sig, Head(mempool).guardId,
                        Head(mempool).sig.digest[3], SignedAmount(Head(mempool).sig),
                        SignedNonce(Head(mempool).sig))
      BY <2>2, HeadFacts DEF TeeNext, RelayStep
    <2> QED
      BY <1>4, <2>1, <2>2 DEF Mine
  <1>5. CASE WorldStep
    BY <1>5, ServiceAssumption DEF WorldStep, OtherCaller, TeeNext
  <1>6. CASE UNCHANGED vars
    BY <1>6
  <1>7. CASE UNCHANGED allVars
    BY <1>7 DEF allVars
  <1> QED
    BY <1>1, <1>2, <1>3, <1>4, <1>5, <1>6, <1>7
       DEF ServiceNext, TickStep, FaultStep, LoopStart, ReadGuardCount, ReadSigner,
           ReadGuardPolicy, TeeError, Recheck, Submit, SubmitRefused, Receipt,
           ReceiptLost, ReadFails, GuardSkipped, TeeTimeout, ReceiptTimeout,
           ServiceCrash, TransactionDropped

-----------------------------------------------------------------------------
(* The handlers: that they sign once, for the guard they were asked about.     *)

LEMMA IdleFits == FittingHandler(IdleHandler)
  BY DEF FittingHandler, IdleHandler

(* One handler moves. *)
LEMMA MoveFits ==
  ASSUME TeeInv, SignsOnce, NEW h \in Handlers, NEW r, FittingHandler(r),
         handlers' = [handlers EXCEPT ![h] = r]
  PROVE  SignsOnce'
  <1>1. \A g \in Handlers : handlers'[g] = IF g = h THEN r ELSE handlers[g]
    BY DEF TeeInv, TeeTypeOK
  <1> QED
    BY <1>1 DEF SignsOnce

LEMMA HandlerStepFits ==
  ASSUME TeeInv, SignsOnce, NEW h \in Handlers, HandlerStep(h)
  PROVE  SignsOnce'
  <1> DEFINE r == handlers[h]
  <1>1. r \in Handler /\ FittingHandler(r)
    BY DEF TeeInv, TeeTypeOK, SignsOnce
  <1> HIDE DEF r
  <1>2. CASE ReadVaultHealth(h)
    <2> DEFINE q == [r EXCEPT !.pc = "policy", !.health = factors[r.agentVault]]
    <2>1. r.pc = "health" /\ handlers' = [handlers EXCEPT ![h] = q]
      BY <1>2 DEF ReadVaultHealth, r
    <2>2. FittingHandler(q)
      BY <1>1, <2>1 DEF Handler, FittingHandler
    <2> HIDE DEF q
    <2> QED
      BY <2>1, <2>2, MoveFits
  <1>3. CASE ReadGuard(h)
    <2> DEFINE q == [r EXCEPT !.pc = "record", !.policy = GuardAt(r.guardId)]
    <2>1. r.pc = "policy" /\ handlers' = [handlers EXCEPT ![h] = q]
      BY <1>3 DEF ReadGuard, r
    <2>2. FittingHandler(q)
      BY <1>1, <2>1 DEF Handler, FittingHandler
    <2> HIDE DEF q
    <2> QED
      BY <2>1, <2>2, MoveFits
  <1>4. CASE RecordCheck(h)
    <2> DEFINE pc == IF Decision(r.health) = "TOP_UP_REQUIRED" /\ r.policy.active
                     THEN "sign" ELSE "respond"
               q == [r EXCEPT !.pc = pc]
    <2>1. r.pc = "record" /\ handlers' = [handlers EXCEPT ![h] = q]
      BY <1>4 DEF RecordCheck, r
    <2> HIDE DEF pc
    <2>2. FittingHandler(q)
      BY <1>1, <2>1 DEF Handler, FittingHandler
    <2> HIDE DEF q
    <2> QED
      BY <2>1, <2>2, MoveFits
  <1>5. CASE SignAction(h)
    <2> DEFINE sig == SignTopUpAction(enclaveKey, r.guardId, r.policy.topUpAmountWei,
                                      NextNonce(r.policy.lastActionNonce))
               q == [r EXCEPT !.pc = "respond", !.signed = {sig}]
    <2>1. r.pc = "sign" /\ handlers' = [handlers EXCEPT ![h] = q]
      BY <1>5 DEF SignAction, r
    <2>0. SignedGuardId(sig) = r.guardId
      BY DEF SignTopUpAction, Digest, SignedGuardId
    <2> HIDE DEF sig
    <2>2. FittingHandler(q)
      BY <1>1, <2>0, <2>1 DEF Handler, FittingHandler
    <2> HIDE DEF q
    <2> QED
      BY <2>1, <2>2, MoveFits
  <1>6. CASE Respond(h) \/ Fail(h)
    <2>1. handlers' = [handlers EXCEPT ![h] = IdleHandler]
      BY <1>6 DEF Respond, Fail
    <2> QED
      BY <2>1, IdleFits, MoveFits
  <1> QED
    BY <1>2, <1>3, <1>4, <1>5, <1>6 DEF HandlerStep

LEMMA ArriveFits ==
  ASSUME TeeInv, SignsOnce, NEW h \in Handlers, NEW v, NEW guardId, Arrive(h, v, guardId)
  PROVE  SignsOnce'
  <1> DEFINE q == [IdleHandler EXCEPT !.pc = "health", !.agentVault = v,
                                      !.guardId = guardId]
  <1>1. handlers' = [handlers EXCEPT ![h] = q]
    BY DEF Arrive
  <1>2. FittingHandler(q)
    BY DEF FittingHandler, IdleHandler
  <1> HIDE DEF q
  <1> QED
    BY <1>1, <1>2, MoveFits

LEMMA TeeStepFits ==
  ASSUME TeeInv, SignsOnce, [TeeNext]_vars
  PROVE  SignsOnce'
  <1>1. CASE \E h \in Handlers : HandlerStep(h)
    BY <1>1, HandlerStepFits
  <1>2. CASE \E h \in Handlers, v \in Vaults, guardId \in 1 .. guardCount + 1 :
               Arrive(h, v, guardId)
    BY <1>2, ArriveFits
  <1>3. CASE \E key \in Keys \cup {NoKey} : EnclaveRestart(key)
    BY <1>3, IdleFits DEF EnclaveRestart, SignsOnce
  <1>4. CASE UNCHANGED handlers
    BY <1>4 DEF SignsOnce
  <1> QED
    BY <1>1, <1>2, <1>3, <1>4
       DEF TeeNext, OwnerStep, RelayStep, Relay, UnrecoverableStep, PostUnrecoverable,
           FactorsChange, vars, teeVars

(* The handler the service waits for: others do not touch it.                  *)

LEMMA CallTeeFits ==
  ASSUME ServiceInv, Grows, NEW h \in Handlers, CallTee(h)
  PROVE  SlotFits'
  <1> DEFINE q == [IdleHandler EXCEPT !.pc = "health", !.agentVault = svc.agentVault,
                                      !.guardId = svc.id]
  <1>1. /\ handlers' = [handlers EXCEPT ![h] = q]
        /\ svc' = [svc EXCEPT !.pc = "await", !.slot = {h}]
    BY CallTeeFacts DEF Arrive, CallTee
  <1>2. q.guardId = svc.id /\ q.agentVault = svc.agentVault
    BY DEF IdleHandler
  <1> HIDE DEF q
  <1>3. svc'.slot = {h} /\ svc'.id = svc.id /\ handlers'[h] = q
    BY <1>1, ServiceFacts DEF Tick
  <1>4. svc.id \in GuardIds' /\ guards'[svc.id].agentVault = svc.agentVault
    BY CallTeeFacts DEF Grows
  <1> QED
    BY <1>2, <1>3, <1>4 DEF SlotFits

\* What a step may do to the handler of a slot: let it be, or end it.
KeepsSlot(h) ==
  \/ handlers'[h].pc = "idle"
  \/ /\ handlers[h].pc # "idle"
     /\ handlers'[h].guardId = handlers[h].guardId
     /\ handlers'[h].agentVault = handlers[h].agentVault

LEMMA HandlerKeepsSlot ==
  ASSUME TeeInv, NEW h \in Handlers, HandlerStep(h), NEW g \in Handlers
  PROVE  KeepsSlot(g) \/ handlers'[g] = handlers[g]
  <1>1. handlers \in [Handlers -> Handler] /\ handlers[h] \in Handler
    BY DEF TeeInv, TeeTypeOK
  <1>2. CASE g # h
    BY <1>1, <1>2 DEF HandlerStep, ReadVaultHealth, ReadGuard, RecordCheck, SignAction,
                      Respond, Fail
  <1>3. CASE g = h
    <2>1. CASE Respond(h) \/ Fail(h)
      BY <1>1, <1>3, <2>1 DEF Respond, Fail, KeepsSlot, IdleHandler
    <2>2. CASE ReadVaultHealth(h) \/ ReadGuard(h) \/ RecordCheck(h) \/ SignAction(h)
      <3>1. /\ handlers[h].pc # "idle"
            /\ handlers'[h].guardId = handlers[h].guardId
            /\ handlers'[h].agentVault = handlers[h].agentVault
        BY <1>1, <2>2 DEF ReadVaultHealth, ReadGuard, RecordCheck, SignAction, Handler
      <3> QED
        BY <1>3, <3>1 DEF KeepsSlot
    <2> QED
      BY <2>1, <2>2 DEF HandlerStep
  <1> QED
    BY <1>2, <1>3

LEMMA SameSlotFits ==
  ASSUME ServiceInv, Grows, svc'.slot = svc.slot, svc'.id = svc.id,
         \A h \in svc.slot : KeepsSlot(h) \/ handlers'[h] = handlers[h]
  PROVE  SlotFits'
  <1> SUFFICES ASSUME NEW h \in svc.slot, handlers'[h].pc # "idle"
               PROVE  /\ handlers'[h].guardId = svc.id /\ svc.id \in GuardIds'
                      /\ handlers'[h].agentVault = guards'[svc.id].agentVault
    BY DEF SlotFits
  <1>1. /\ handlers[h].pc # "idle" /\ handlers'[h].guardId = handlers[h].guardId
        /\ handlers'[h].agentVault = handlers[h].agentVault
    BY DEF KeepsSlot
  <1>2. /\ handlers[h].guardId = svc.id /\ svc.id \in GuardIds
        /\ handlers[h].agentVault = guards[svc.id].agentVault
    BY <1>1 DEF ServiceInv, HandlersFit, SlotFits
  <1> QED
    BY <1>1, <1>2 DEF Grows

(* The other steps of a tick leave or give up the slot. *)
LEMMA NoSlotFits ==
  ASSUME ServiceInv, NEW newHealth,
         \/ LoopStart \/ ReadGuardCount \/ Continue(newHealth) \/ AbortTick
         \/ svc' = Asleep \/ ReadSigner \/ ReadGuardPolicy \/ Recheck \/ Submit
         \/ \E h \in Handlers : TeeReply(h)
  PROVE  SlotFits'
  <1>1. svc \in Tick /\ (svc.pc # "await" => svc.slot = {})
    BY DEF ServiceInv, SoundTick
  <1>2. Asleep.slot = {}
    BY DEF Asleep
  <1>3. \A any : Continue(any) => svc'.slot = {}
    BY <1>2 DEF Continue, Asleep
  <1>4. svc'.slot = {}
    BY <1>1, <1>2, <1>3 DEF LoopStart, ReadGuardCount, ReadSigner, ReadGuardPolicy,
       Recheck, Submit, TeeReply, AbortTick, At, Tick
  <1> QED
    BY <1>4 DEF SlotFits

LEMMA ServiceSlotFits ==
  ASSUME ServiceInv, Grows, [ServiceNext]_allVars
  PROVE  SlotFits'
  <1>1. TeeInv /\ svc \in Tick /\ svc.slot \subseteq Handlers
        /\ \A g1, g2 \in svc.slot : g1 = g2
    BY DEF ServiceInv, SoundTick, Tick
  <1>2. CASE \E h \in Handlers : CallTee(h)
    BY <1>2, CallTeeFits
  <1>3. CASE \E h \in Handlers : HandlerFault(h) \/ EnclaveStep(h)
    <2>1. PICK h \in Handlers : HandlerStep(h) /\ svc' = svc
      BY <1>3 DEF HandlerFault, EnclaveStep, HandlerStep, serviceVars
    <2> QED
      BY <1>1, <2>1, HandlerKeepsSlot, SameSlotFits
  <1>4. CASE \E key \in Keys \cup {NoKey} : EnclaveFault(key)
    <2>1. svc' = svc /\ \A h \in Handlers : handlers'[h].pc = "idle"
      BY <1>4 DEF EnclaveFault, EnclaveRestart, IdleHandler
    <2> QED
      BY <1>1, <2>1, SameSlotFits DEF KeepsSlot
  <1>5. CASE handlers' = handlers /\ svc'.slot = svc.slot /\ svc'.id = svc.id
    BY <1>5, SameSlotFits
  <1>6. CASE \E h \in OtherSlots, v \in Vaults, guardId \in 1 .. guardCount + 1 :
               OtherCaller(h, v, guardId)
    <2>1. PICK h \in OtherSlots : /\ svc.slot # {h} /\ svc' = svc
                                  /\ \E r : handlers' = [handlers EXCEPT ![h] = r]
      BY <1>6 DEF OtherCaller, Arrive, serviceVars
    <2>2. h \notin svc.slot
      BY <1>1, <2>1
    <2>3. \A g \in svc.slot : handlers'[g] = handlers[g]
      BY <1>1, <2>1, <2>2 DEF TeeInv, TeeTypeOK
    <2> QED
      BY <2>1, <2>3, SameSlotFits
  <1>7. CASE Mine
    <2>1. handlers' = handlers
      BY <1>7 DEF Mine, Relay, vars, teeVars
    <2>2. svc'.slot = svc.slot /\ svc'.id = svc.id
      BY <1>1, <1>7 DEF Mine, Tick
    <2> QED
      BY <1>5, <2>1, <2>2
  <1>8. CASE /\ \/ OwnerStep \/ RelayStep \/ UnrecoverableStep
                \/ \E v \in Vaults, pair \in FactorPairs : FactorsChange(v, pair)
             /\ UNCHANGED serviceVars
    BY <1>5, <1>8 DEF OwnerStep, RelayStep, Relay, UnrecoverableStep,
                      PostUnrecoverable, FactorsChange, teeVars, serviceVars
  <1>9. CASE (\E i \in DOMAIN mempool : TransactionDropped(i)) \/ UNCHANGED allVars
    BY <1>5, <1>9 DEF TransactionDropped, allVars, vars, teeVars, serviceVars
  <1>10. CASE \/ LoopStart \/ ReadGuardCount \/ ReadSigner \/ ReadGuardPolicy
              \/ (\E h \in Handlers : TeeReply(h) \/ TeeError(h))
              \/ Recheck \/ Submit \/ SubmitRefused \/ Receipt \/ ReceiptLost
              \/ ReadFails \/ GuardSkipped \/ TeeTimeout \/ ReceiptTimeout
              \/ ServiceCrash
    BY <1>10, NoSlotFits
       DEF TeeError, SubmitRefused, Receipt, ReceiptLost, ReadFails, GuardSkipped,
           TeeTimeout, ReceiptTimeout, ServiceCrash
  <1> QED
    BY <1>2, <1>3, <1>4, <1>6, <1>7, <1>8, <1>9, <1>10
       DEF ServiceNext, TickStep, FaultStep, WorldStep

LEMMA ServiceFits ==
  ASSUME ServiceInv, [ServiceNext]_allVars
  PROVE  HandlersFit'
  <1>1. TeeInv /\ SignsOnce /\ [TeeNext]_vars
    BY ServiceStepIsTeeStep DEF ServiceInv, HandlersFit
  <1>2. Grows
    BY <1>1, TeeGrows
  <1> QED
    BY <1>1, <1>2, TeeStepFits, ServiceSlotFits DEF HandlersFit

-----------------------------------------------------------------------------
(* The tick, the pool and the receipt outlive what the rest of the system does. *)

LEMMA TickLasts ==
  ASSUME ServiceInv, Grows, guardCount' \in Nat
  PROVE  SoundTick(svc, guardCount', guards', issued')
  <1>1. svc.pc = "check" => guards'[svc.id].agentVault = guards[svc.id].agentVault
    BY ServiceFacts DEF Grows
  <1>2. svc.n <= guardCount'
    BY ServiceFacts DEF Grows
  <1> QED
    BY <1>1, <1>2 DEF ServiceInv, SoundTick, Grows

LEMMA PoolLasts ==
  ASSUME ServiceInv, Grows, guardCount' \in Nat
  PROVE  SoundPool(mempool, svc, guardCount', issued')
  <1>1. 1 .. guardCount \subseteq 1 .. guardCount'
    BY ServiceFacts DEF Grows
  <1> QED
    BY <1>1 DEF ServiceInv, SoundPool, Grows

(* A row stays where it is. *)
LEMMA RowLasts ==
  ASSUME TeeInv, TeeInv', Grows, NEW id \in GuardIds, NEW i \in 1 .. Len(actions[id])
  PROVE  i \in 1 .. Len(actions'[id]) /\ actions'[id][i] = actions[id][i]
  <1>1. actions[id] \in Seq(Action)
    BY DEF TeeInv, RegistryInv, RegistryTypeOK, GuardIds
  <1>2. actions'[id] \in Seq(Action)
    BY DEF TeeInv, RegistryInv, RegistryTypeOK, GuardIds, Grows
  <1>3. /\ Len(actions[id]) \in Nat /\ Len(actions'[id]) \in Nat
        /\ Len(actions[id]) <= Len(actions'[id])
        /\ actions'[id][i] = actions[id][i]
    BY <1>1, <1>2 DEF Grows
  <1> QED
    BY <1>3

LEMMA ReceiptLasts ==
  ASSUME ServiceInv, Grows, TeeInv'
  PROVE  SoundReceipt(svc, actions')
  <1> SUFFICES ASSUME svc.pc = "receipt", svc.receipt = "success", NEW sig \in svc.signed
               PROVE  \E i \in 1 .. Len(actions'[svc.id]) :
                        /\ actions'[svc.id][i].nonce = SignedNonce(sig)
                        /\ actions'[svc.id][i].amount = SignedAmount(sig)
    BY DEF SoundReceipt
  <1>1. /\ svc.id \in GuardIds /\ GuardIds = 1 .. guardCount /\ guardCount \in Nat
    BY ServiceFacts
  <1>2. PICK i \in 1 .. Len(actions[svc.id]) :
          /\ actions[svc.id][i].nonce = SignedNonce(sig)
          /\ actions[svc.id][i].amount = SignedAmount(sig)
    BY DEF ServiceInv, SoundReceipt
  <1>3. i \in 1 .. Len(actions'[svc.id]) /\ actions'[svc.id][i] = actions[svc.id][i]
    BY <1>1, <1>2, RowLasts DEF ServiceInv
  <1> QED
    BY <1>2, <1>3

(* Steps that leave tick and pool alone. *)
LEMMA ElsewhereKeeps ==
  ASSUME ServiceInv, [TeeNext]_vars, HandlersFit', UNCHANGED <<svc, health, mempool>>,
         faults' \in 0 .. MaxFaults
  PROVE  ServiceInv'
  <1>1. TeeInv' /\ Grows
    BY TeeStepKeeps, TeeGrows DEF ServiceInv
  <1>2. guardCount' \in Nat
    BY <1>1 DEF TeeInv, RegistryInv, RegistryTypeOK
  <1>3. /\ SoundTick(svc', guardCount', guards', issued')
        /\ SoundPool(mempool', svc', guardCount', issued')
        /\ SoundReceipt(svc', actions')
    BY <1>1, <1>2, TickLasts, PoolLasts, ReceiptLasts
  <1> QED
    BY <1>1, <1>3 DEF ServiceInv

\* No pending transaction is being waited for.
NoneWatched == \A i \in 1 .. Len(mempool) : ~mempool[i].watched

LEMMA WaitingOnly ==
  ASSUME ServiceInv, svc.pc # "receipt" \/ svc.receipt # "pending"
  PROVE  NoneWatched
  BY DEF ServiceInv, SoundPool, NoneWatched

LEMMA UnwatchedPool ==
  ASSUME ServiceInv
  PROVE  /\ Unwatched \in Seq(Transaction) /\ Len(Unwatched) = Len(mempool)
         /\ \A i \in 1 .. Len(mempool) :
              /\ Unwatched[i].sig = mempool[i].sig
              /\ Unwatched[i].guardId = mempool[i].guardId
              /\ ~Unwatched[i].watched
  <1>1. /\ mempool \in Seq(Transaction) /\ DOMAIN mempool = 1 .. Len(mempool)
        /\ Len(mempool) \in Nat
        /\ \A i \in 1 .. Len(mempool) : mempool[i] \in Transaction
    BY DEF ServiceInv, SoundPool
  <1>2. \A i \in 1 .. Len(mempool) :
          /\ Unwatched[i] \in Transaction /\ ~Unwatched[i].watched
          /\ Unwatched[i].sig = mempool[i].sig
          /\ Unwatched[i].guardId = mempool[i].guardId
    BY <1>1 DEF Unwatched, Transaction
  <1>3. Unwatched = [i \in 1 .. Len(mempool) |-> Unwatched[i]]
    BY <1>1 DEF Unwatched
  <1> QED
    BY <1>1, <1>2, <1>3, SeqByElements

(* Steps after which the tick waits for no receipt: nothing is watched, either *)
(* because nothing was or because the wait was given up.                       *)
LEMMA TickKeeps ==
  ASSUME ServiceInv, [TeeNext]_vars, HandlersFit',
         SoundTick(svc', guardCount', guards', issued'), svc'.pc # "receipt",
         (mempool' = mempool /\ NoneWatched) \/ mempool' = Unwatched,
         health' \in HealthType, faults' \in 0 .. MaxFaults
  PROVE  ServiceInv'
  <1>1. TeeInv' /\ Grows
    BY TeeStepKeeps, TeeGrows DEF ServiceInv
  <1>2. guardCount' \in Nat
    BY <1>1 DEF TeeInv, RegistryInv, RegistryTypeOK
  <1>3. SoundPool(mempool, svc, guardCount', issued')
    BY <1>1, <1>2, PoolLasts
  <1>4. /\ mempool' \in Seq(Transaction) /\ Len(mempool') = Len(mempool)
        /\ \A i \in 1 .. Len(mempool) :
              /\ mempool'[i].sig = mempool[i].sig
              /\ mempool'[i].guardId = mempool[i].guardId
              /\ ~mempool'[i].watched
    BY <1>3, UnwatchedPool DEF SoundPool, NoneWatched
  <1>5. SoundPool(mempool', svc', guardCount', issued')
    BY <1>3, <1>4 DEF SoundPool
  <1>6. SoundReceipt(svc', actions')
    BY DEF SoundReceipt
  <1> QED
    BY <1>1, <1>5, <1>6 DEF ServiceInv

(* The end of an iteration: the next guard of this tick, or sleep. *)
LEMMA AsleepSound ==
  ASSUME NEW count \in Nat, NEW gs, NEW returned
  PROVE  SoundTick(Asleep, count, gs, returned) /\ Asleep.pc = "sleep"
  BY DEF SoundTick, Asleep, Tick, TickPhases

LEMMA ContinueSound ==
  ASSUME ServiceInv, NEW newHealth \in HealthType, Continue(newHealth),
         NEW gs, NEW returned
  PROVE  /\ SoundTick(svc', guardCount, gs, returned)
         /\ svc'.pc # "receipt" /\ health' \in HealthType
  <1>1. /\ svc \in Tick /\ svc.id \in Nat /\ svc.n \in Nat /\ guardCount \in Nat
        /\ svc.id <= svc.n /\ svc.n <= guardCount
    BY ServiceFacts
  <1>2. CASE svc.id < svc.n
    <2> DEFINE t == [Asleep EXCEPT !.pc = "guard", !.n = svc.n, !.signer = svc.signer,
                                   !.id = svc.id + 1]
    <2>1. svc' = t /\ health' = newHealth
      BY <1>2 DEF Continue
    <2>2. svc.signer \in Keys \cup {ZeroAddress}
      BY <1>1 DEF Tick
    <2>3. /\ t.pc = "guard" /\ t.n = svc.n /\ t.id = svc.id + 1
          /\ t.signed = {} /\ t.slot = {} /\ t.receipt = "none"
      BY DEF Asleep
    <2>4. t \in Tick
      <3>1. Asleep \in Tick
        BY AsleepSound DEF SoundTick
      <3>2. svc.id + 1 \in Nat
        BY <1>1
      <3> QED
        BY <1>1, <2>2, <3>1, <3>2 DEF Tick, TickPhases
    <2> HIDE DEF t
    <2>5. SoundTick(t, guardCount, gs, returned)
      BY <1>1, <1>2, <2>3, <2>4 DEF SoundTick
    <2> QED
      BY <2>1, <2>3, <2>5
  <1>3. CASE ~(svc.id < svc.n)
    <2>1. svc' = Asleep /\ health' = [newHealth EXCEPT !.lastError = FALSE]
      BY <1>3 DEF Continue
    <2>2. health' \in HealthType
      BY <2>1 DEF HealthType
    <2> QED
      BY <1>1, <2>1, <2>2, AsleepSound
  <1> QED
    BY <1>2, <1>3

-----------------------------------------------------------------------------
(* One lemma per kind of step: it keeps the inductive invariant.               *)

\* What every lemma below may assume: the invariant and a step of the composition.
ServiceStep == ServiceInv /\ [ServiceNext]_allVars

LEMMA StepFacts ==
  ASSUME ServiceStep
  PROVE  /\ ServiceInv /\ [TeeNext]_vars /\ HandlersFit' /\ TeeInv' /\ Grows
         /\ guardCount' \in Nat
  <1>1. ServiceInv /\ [TeeNext]_vars /\ HandlersFit'
    BY ServiceStepIsTeeStep, ServiceFits DEF ServiceStep
  <1>2. TeeInv' /\ Grows
    BY <1>1, TeeStepKeeps, TeeGrows DEF ServiceInv
  <1> QED
    BY <1>1, <1>2 DEF TeeInv, RegistryInv, RegistryTypeOK

(* Steps that end an iteration while nothing is watched or by giving up. *)
LEMMA ContinueKeeps ==
  ASSUME ServiceStep, NEW newHealth \in HealthType, Continue(newHealth),
         guardCount' = guardCount,
         (mempool' = mempool /\ NoneWatched) \/ mempool' = Unwatched,
         faults' \in 0 .. MaxFaults
  PROVE  ServiceInv'
  <1>1. ServiceInv /\ [TeeNext]_vars /\ HandlersFit'
    BY StepFacts
  <1>2. /\ SoundTick(svc', guardCount', guards', issued')
        /\ svc'.pc # "receipt" /\ health' \in HealthType
    BY <1>1, ContinueSound
  <1> QED
    BY <1>1, <1>2, TickKeeps

(* Steps within an iteration that only move the tick, before any submission. *)
LEMMA AdvanceKeeps ==
  ASSUME ServiceStep, svc.pc # "receipt", UNCHANGED <<vars, mempool, faults>>,
         SoundTick(svc', guardCount, guards, issued), svc'.pc # "receipt",
         health' \in HealthType
  PROVE  ServiceInv'
  <1>1. ServiceInv /\ [TeeNext]_vars /\ HandlersFit'
    BY StepFacts
  <1>2. NoneWatched
    BY <1>1, WaitingOnly
  <1>3. SoundTick(svc', guardCount', guards', issued')
    BY DEF vars, registryVars, teeVars
  <1>4. faults' \in 0 .. MaxFaults
    BY <1>1 DEF ServiceInv
  <1> QED
    BY <1>1, <1>2, <1>3, <1>4, TickKeeps

LEMMA LoopStartKeeps ==
  ASSUME ServiceStep, LoopStart
  PROVE  ServiceInv'
  <1> DEFINE t == [svc EXCEPT !.pc = "count"]
  <1>1. ServiceInv /\ svc \in Tick /\ SoundTick(svc, guardCount, guards, issued)
        /\ health \in HealthType
    BY StepFacts, ServiceFacts DEF ServiceInv
  <1>2. /\ svc.pc = "sleep" /\ svc' = t /\ UNCHANGED <<vars, mempool, faults>>
        /\ health' = [health EXCEPT !.lastLoop = TRUE]
    BY DEF LoopStart, At
  <1>3. SoundTick(t, guardCount, guards, issued) /\ t.pc = "count"
    BY <1>1, <1>2 DEF SoundTick, Tick, TickPhases
  <1>4. health' \in HealthType
    BY <1>1, <1>2 DEF HealthType
  <1> HIDE DEF t
  <1> QED
    BY <1>2, <1>3, <1>4, AdvanceKeeps

LEMMA ReadGuardCountKeeps ==
  ASSUME ServiceStep, ReadGuardCount
  PROVE  ServiceInv'
  <1> DEFINE t == [svc EXCEPT !.pc = "signer", !.n = guardCount]
  <1>1. /\ ServiceInv /\ svc \in Tick /\ SoundTick(svc, guardCount, guards, issued)
        /\ health \in HealthType /\ guardCount \in Nat
        /\ svc.id \in Nat /\ svc.n \in Nat /\ svc.id <= svc.n /\ svc.n <= guardCount
    BY StepFacts, ServiceFacts DEF ServiceInv
  <1>2. /\ svc.pc = "count" /\ svc' = t /\ UNCHANGED <<vars, mempool, faults, health>>
    BY DEF ReadGuardCount, At
  <1>3. /\ t \in Tick /\ t.pc = "signer" /\ t.n = guardCount /\ t.id = svc.id
        /\ t.signed = svc.signed /\ t.slot = svc.slot /\ t.receipt = svc.receipt
    BY <1>1 DEF Tick, TickPhases
  <1> HIDE DEF t
  <1>4. SoundTick(t, guardCount, guards, issued)
    BY <1>1, <1>2, <1>3 DEF SoundTick
  <1> QED
    BY <1>1, <1>2, <1>3, <1>4, AdvanceKeeps

LEMMA ReadSignerKeeps ==
  ASSUME ServiceStep, ReadSigner
  PROVE  ServiceInv'
  <1> DEFINE t == [svc EXCEPT !.pc = "guard", !.signer = guardianSigner, !.id = 1]
  <1>1. /\ ServiceInv /\ svc \in Tick /\ SoundTick(svc, guardCount, guards, issued)
        /\ health \in HealthType /\ guardCount \in Nat /\ faults \in 0 .. MaxFaults
        /\ svc.n \in Nat /\ svc.n <= guardCount
    BY StepFacts, ServiceFacts DEF ServiceInv
  <1>2. svc.pc = "signer" /\ UNCHANGED <<vars, mempool, faults>> /\ NoneWatched
    BY <1>1, WaitingOnly DEF ReadSigner, At
  <1>3. CASE svc.n = 0
    <2>1. Continue(health)
      BY <1>3 DEF ReadSigner
    <2> QED
      BY <1>1, <1>2, <2>1, ContinueKeeps DEF vars, registryVars
  <1>4. CASE svc.n # 0
    <2>1. svc' = t /\ health' = health
      BY <1>4 DEF ReadSigner
    <2>2. guardianSigner \in Keys \cup {ZeroAddress}
      BY <1>1 DEF ServiceInv, TeeInv, RegistryInv, RegistryTypeOK
    <2>3. /\ t \in Tick /\ t.pc = "guard" /\ t.n = svc.n /\ t.id = 1
          /\ t.signed = svc.signed /\ t.slot = svc.slot /\ t.receipt = svc.receipt
      BY <1>1, <2>2 DEF Tick, TickPhases
    <2> HIDE DEF t
    <2>4. SoundTick(t, guardCount, guards, issued)
      BY <1>1, <1>2, <1>4, <2>3 DEF SoundTick
    <2> QED
      BY <1>1, <1>2, <2>1, <2>3, <2>4, AdvanceKeeps
  <1> QED
    BY <1>3, <1>4

LEMMA ReadGuardPolicyKeeps ==
  ASSUME ServiceStep, ReadGuardPolicy
  PROVE  ServiceInv'
  <1> DEFINE t == [svc EXCEPT !.pc = "check", !.agentVault = GuardAt(svc.id).agentVault]
  <1>1. /\ ServiceInv /\ svc \in Tick /\ SoundTick(svc, guardCount, guards, issued)
        /\ health \in HealthType /\ guardCount \in Nat /\ faults \in 0 .. MaxFaults
    BY StepFacts, ServiceFacts DEF ServiceInv
  <1>2. svc.pc = "guard" /\ UNCHANGED <<vars, mempool, faults>> /\ NoneWatched
    BY <1>1, WaitingOnly DEF ReadGuardPolicy, At
  <1>3. CASE ~GuardAt(svc.id).active
    <2>1. Continue(health)
      BY <1>3 DEF ReadGuardPolicy
    <2> QED
      BY <1>1, <1>2, <2>1, ContinueKeeps DEF vars, registryVars
  <1>4. CASE GuardAt(svc.id).active
    <2>1. svc' = t /\ health' = health
      BY <1>4 DEF ReadGuardPolicy
    <2>2. /\ svc.id \in GuardIds /\ guards[svc.id].agentVault \in Vaults
          /\ GuardAt(svc.id).agentVault = guards[svc.id].agentVault
      BY <1>1, <1>2, ServiceFacts DEF GuardAt
    <2>3. /\ t \in Tick /\ t.pc = "check" /\ t.n = svc.n /\ t.id = svc.id
          /\ t.agentVault = guards[svc.id].agentVault
          /\ t.signed = svc.signed /\ t.slot = svc.slot /\ t.receipt = svc.receipt
      BY <1>1, <2>2 DEF Tick, TickPhases
    <2> HIDE DEF t
    <2>4. SoundTick(t, guardCount, guards, issued)
      BY <1>1, <1>2, <2>3 DEF SoundTick
    <2> QED
      BY <1>1, <1>2, <2>1, <2>3, <2>4, AdvanceKeeps
  <1> QED
    BY <1>3, <1>4

LEMMA CallTeeKeeps ==
  ASSUME ServiceStep, NEW h \in Handlers, CallTee(h)
  PROVE  ServiceInv'
  <1> DEFINE t == [svc EXCEPT !.pc = "await", !.slot = {h}]
  <1>1. /\ ServiceInv /\ [TeeNext]_vars /\ HandlersFit' /\ svc \in Tick
        /\ SoundTick(svc, guardCount, guards, issued)
        /\ health \in HealthType /\ faults \in 0 .. MaxFaults
    BY StepFacts, ServiceFacts DEF ServiceInv
  <1>2. /\ svc.pc = "check" /\ svc' = t /\ UNCHANGED <<mempool, faults, health>>
        /\ UNCHANGED <<guardCount, guards, issued>>
    BY DEF CallTee, At, Arrive, registryVars
  <1>3. /\ t \in Tick /\ t.pc = "await" /\ t.n = svc.n /\ t.id = svc.id
        /\ t.signed = svc.signed /\ t.slot = {h} /\ t.receipt = svc.receipt
    BY <1>1 DEF Tick, TickPhases
  <1> HIDE DEF t
  <1>4. SoundTick(t, guardCount, guards, issued)
    BY <1>1, <1>2, <1>3 DEF SoundTick
  <1> QED
    BY <1>1, <1>2, <1>3, <1>4, WaitingOnly, TickKeeps

(* The reply's signature is the single one the handler made, now returned. *)
LEMMA TeeReplyKeeps ==
  ASSUME ServiceStep, NEW h \in Handlers, TeeReply(h)
  PROVE  ServiceInv'
  <1> DEFINE made == handlers[h].signed
             t == [svc EXCEPT !.pc = "recheck", !.slot = {}, !.signed = made]
             answered == [health EXCEPT !.teeReachable = TRUE,
                            !.checksPerformed = (health.checksPerformed + 1) % CounterMod]
  <1>1. /\ ServiceInv /\ [TeeNext]_vars /\ HandlersFit' /\ svc \in Tick
        /\ SoundTick(svc, guardCount, guards, issued)
        /\ health \in HealthType /\ faults \in 0 .. MaxFaults
    BY StepFacts, ServiceFacts DEF ServiceInv
  <1>2. /\ svc.pc = "await" /\ UNCHANGED <<mempool, faults>>
        /\ UNCHANGED <<guardCount, guards>> /\ issued' = issued \cup made
    BY DEF TeeReply, At, Respond, registryVars
  <1>3. NoneWatched
    BY <1>1, <1>2, WaitingOnly
  <1>4. answered \in HealthType
    <2>1. health.checksPerformed \in 0 .. CounterMod - 1
      BY <1>1 DEF HealthType
    <2>2. (health.checksPerformed + 1) % CounterMod \in 0 .. CounterMod - 1
      BY <2>1, CounterRange
    <2> QED
      BY <1>1, <2>2 DEF HealthType
  <1>5. /\ made \subseteq Signature /\ \A s1, s2 \in made : s1 = s2
        /\ \A sig \in made : SignedGuardId(sig) = svc.id
    <2>1. handlers[h] \in Handler
      BY <1>1, ServiceFacts
    <2>2. handlers[h].guardId = svc.id
      BY <1>1 DEF TeeReply, Respond, ServiceInv, HandlersFit, SlotFits
    <2> QED
      BY <1>1, <2>1, <2>2 DEF Handler, ServiceInv, HandlersFit, SignsOnce, FittingHandler
  <1>6. CASE made = {}
    <2>1. Continue(answered)
      BY <1>6 DEF TeeReply
    <2> HIDE DEF answered
    <2> QED
      BY <1>1, <1>2, <1>3, <1>4, <2>1, ContinueKeeps
  <1>7. CASE made # {}
    <2>1. svc' = t /\ health' = answered
      BY <1>7 DEF TeeReply
    <2> HIDE DEF made, answered
    <2>2. /\ t \in Tick /\ t.pc = "recheck" /\ t.n = svc.n /\ t.id = svc.id
          /\ t.signed = made /\ t.slot = {} /\ t.receipt = svc.receipt
      BY <1>1, <1>5 DEF Tick, TickPhases
    <2> HIDE DEF t
    <2>3. SoundTick(t, guardCount', guards', issued')
      BY <1>1, <1>2, <1>5, <2>2 DEF SoundTick
    <2> QED
      BY <1>1, <1>2, <1>3, <1>4, <2>1, <2>2, <2>3, TickKeeps
  <1> QED
    BY <1>6, <1>7

LEMMA RecheckKeeps ==
  ASSUME ServiceStep, Recheck
  PROVE  ServiceInv'
  <1> DEFINE t == [svc EXCEPT !.pc = "post"]
  <1>1. /\ ServiceInv /\ svc \in Tick /\ SoundTick(svc, guardCount, guards, issued)
        /\ health \in HealthType /\ faults \in 0 .. MaxFaults
    BY StepFacts, ServiceFacts DEF ServiceInv
  <1>2. /\ svc.pc = "recheck" /\ UNCHANGED <<vars, mempool, faults>> /\ NoneWatched
        /\ (svc' = t /\ health' = health) \/ Continue(health)
    BY <1>1, WaitingOnly DEF Recheck, At
  <1>3. CASE Continue(health)
    BY <1>1, <1>2, <1>3, ContinueKeeps DEF vars, registryVars
  <1>4. CASE svc' = t /\ health' = health
    <2>1. /\ t \in Tick /\ t.pc = "post" /\ t.n = svc.n /\ t.id = svc.id
          /\ t.signed = svc.signed /\ t.slot = svc.slot /\ t.receipt = svc.receipt
      BY <1>1 DEF Tick, TickPhases
    <2> HIDE DEF t
    <2>2. SoundTick(t, guardCount, guards, issued)
      BY <1>1, <1>2, <2>1 DEF SoundTick
    <2> QED
      BY <1>1, <1>2, <1>4, <2>1, <2>2, AdvanceKeeps
  <1> QED
    BY <1>2, <1>3, <1>4

(* Iterations that end without a transaction, and ticks that throw. *)
LEMMA EndKeeps ==
  ASSUME ServiceStep,
         \/ \E h \in Handlers : TeeError(h)
         \/ SubmitRefused \/ Receipt \/ ReceiptLost
         \/ GuardSkipped \/ TeeTimeout \/ ReceiptTimeout
  PROVE  ServiceInv'
  <1>1. /\ ServiceInv /\ health \in HealthType /\ faults \in 0 .. MaxFaults
        /\ health.actionsPosted \in 0 .. CounterMod - 1
    BY StepFacts DEF ServiceInv, HealthType
  <1>2. SpendFault => faults' \in 0 .. MaxFaults
    BY <1>1, ServiceAssumption DEF SpendFault
  <1>3. DOMAIN mempool = 1 .. Len(mempool)
    BY <1>1 DEF ServiceInv, SoundPool
  <1>4. (health.actionsPosted + 1) % CounterMod \in 0 .. CounterMod - 1
    BY <1>1, CounterRange
  <1>5. PICK newHealth \in HealthType :
          /\ Continue(newHealth) /\ UNCHANGED vars /\ faults' \in 0 .. MaxFaults
          /\ (mempool' = mempool /\ NoneWatched) \/ mempool' = Unwatched
    <2>1. CASE (\E h \in Handlers : TeeError(h)) \/ TeeTimeout
      <3>1. [health EXCEPT !.teeReachable = FALSE] \in HealthType
        BY <1>1 DEF HealthType
      <3>2. svc.pc = "await" /\ Continue([health EXCEPT !.teeReachable = FALSE])
            /\ UNCHANGED <<vars, mempool>> /\ (faults' = faults \/ SpendFault)
        BY <2>1 DEF TeeError, TeeTimeout, At
      <3> QED
        BY <1>1, <1>2, <3>1, <3>2, WaitingOnly
    <2>2. CASE SubmitRefused \/ GuardSkipped \/ ReceiptLost \/ ReceiptTimeout
      <3>1. /\ Continue(health) /\ UNCHANGED vars /\ (faults' = faults \/ SpendFault)
            /\ \/ mempool' = Unwatched
               \/ mempool' = mempool /\ (svc.pc \in {"guard", "post"} \/ NoneWatched)
        BY <1>3, <2>2 DEF SubmitRefused, GuardSkipped, ReceiptLost, ReceiptTimeout, At,
                          NoneWatched
      <3> QED
        BY <1>1, <1>2, <3>1, WaitingOnly
    <2>3. CASE Receipt
      <3> DEFINE posted == [health EXCEPT !.actionsPosted =
                              (health.actionsPosted + 1) % CounterMod]
      <3>1. posted \in HealthType
        BY <1>1, <1>4 DEF HealthType
      <3>2. Continue(posted) /\ UNCHANGED <<vars, mempool, faults>>
            /\ svc.receipt \in {"success", "reverted"}
        BY <2>3 DEF Receipt
      <3> HIDE DEF posted
      <3> QED
        BY <1>1, <3>1, <3>2, WaitingOnly
    <2> QED
      BY <2>1, <2>2, <2>3
  <1> QED
    BY <1>5, ContinueKeeps DEF vars, registryVars

LEMMA ResetKeeps ==
  ASSUME ServiceStep, ReadFails \/ ServiceCrash
  PROVE  ServiceInv'
  <1>1. /\ ServiceInv /\ [TeeNext]_vars /\ HandlersFit' /\ guardCount' \in Nat
        /\ health \in HealthType /\ faults \in 0 .. MaxFaults
    BY StepFacts DEF ServiceInv
  <1>2. faults' \in 0 .. MaxFaults
    BY <1>1, ServiceAssumption DEF ReadFails, ServiceCrash, SpendFault
  <1>3. SoundTick(svc', guardCount', guards', issued') /\ svc'.pc # "receipt"
    BY <1>1, AsleepSound DEF ReadFails, ServiceCrash, AbortTick
  <1>4. health' \in HealthType
    <2>1. InitHealth \in HealthType
      BY TeeAssumption DEF InitHealth, HealthType
    <2>2. [health EXCEPT !.lastError = TRUE] \in HealthType
      BY <1>1 DEF HealthType
    <2> QED
      BY <2>1, <2>2 DEF ReadFails, ServiceCrash, AbortTick
  <1>5. (mempool' = mempool /\ NoneWatched) \/ mempool' = Unwatched
    BY <1>1, WaitingOnly DEF ReadFails, ServiceCrash
  <1> QED
    BY <1>1, <1>2, <1>3, <1>4, <1>5, TickKeeps

(* A broadcast adds the transaction at the end or in place of a lost one. *)
LEMMA BroadcastPool ==
  ASSUME mempool \in Seq(Transaction), NEW tx \in Transaction, Broadcast(tx)
  PROVE  \E k \in 1 .. Len(mempool') :
           /\ mempool' \in Seq(Transaction) /\ mempool'[k] = tx
           /\ \A i \in 1 .. Len(mempool') :
                i # k => i \in 1 .. Len(mempool) /\ mempool'[i] = mempool[i]
  <1>1. PICK k \in 1 .. Len(mempool) + 1 :
          mempool' = IF k \in DOMAIN mempool THEN [mempool EXCEPT ![k] = tx]
                     ELSE Append(mempool, tx)
    BY DEF Broadcast
  <1>2. DOMAIN mempool = 1 .. Len(mempool) /\ Len(mempool) \in Nat
    OBVIOUS
  <1>3. CASE k \in 1 .. Len(mempool)
    <2>1. mempool' = [mempool EXCEPT ![k] = tx]
      BY <1>1, <1>2, <1>3
    <2>2. /\ mempool' \in Seq(Transaction) /\ Len(mempool') = Len(mempool)
          /\ mempool'[k] = tx
          /\ \A i \in 1 .. Len(mempool) : i # k => mempool'[i] = mempool[i]
      BY <1>3, <2>1, SeqUpdate
    <2> QED
      BY <1>3, <2>2
  <1>4. CASE k = Len(mempool) + 1
    <2>0. k \notin 1 .. Len(mempool)
      BY <1>2, <1>4
    <2>1. mempool' = Append(mempool, tx)
      BY <1>1, <1>2, <2>0
    <2>2. /\ mempool' \in Seq(Transaction) /\ Len(mempool') = Len(mempool) + 1
          /\ mempool'[k] = tx
          /\ \A i \in 1 .. Len(mempool) : mempool'[i] = mempool[i]
      BY <1>4, <2>1, SeqAppend
    <2>3. k \in 1 .. Len(mempool')
          /\ \A i \in 1 .. Len(mempool') : i # k => i \in 1 .. Len(mempool)
      BY <1>2, <1>4, <2>2
    <2> QED
      BY <2>2, <2>3
  <1> QED
    BY <1>2, <1>3, <1>4

(* The new transaction is the only watched one. *)
LEMMA SubmitKeeps ==
  ASSUME ServiceStep, Submit
  PROVE  ServiceInv'
  <1>1. /\ ServiceInv /\ HandlersFit' /\ TeeInv' /\ svc \in Tick
        /\ SoundTick(svc, guardCount, guards, issued)
        /\ SoundPool(mempool, svc, guardCount, issued)
        /\ svc.pc = "post" /\ svc.id \in GuardIds /\ GuardIds = 1 .. guardCount
        /\ svc.id \in Nat /\ guardCount \in Nat
    BY StepFacts, ServiceFacts DEF ServiceInv, Submit, At
  <1>2. NoneWatched
    BY <1>1, WaitingOnly
  <1>3. PICK sig \in svc.signed :
          Broadcast([guardId |-> svc.id, sig |-> sig, watched |-> TRUE, lost |-> FALSE])
    BY DEF Submit
  <1> DEFINE tx == [guardId |-> svc.id, sig |-> sig, watched |-> TRUE, lost |-> FALSE]
             t == [svc EXCEPT !.pc = "receipt", !.receipt = "pending"]
  <1>4. /\ svc' = t /\ UNCHANGED <<guardCount, guards, issued, actions, health, faults>>
    BY DEF Submit, vars, registryVars, teeVars
  <1>5. /\ t \in Tick /\ t.pc = "receipt" /\ t.receipt = "pending" /\ t.n = svc.n
        /\ t.id = svc.id /\ t.signed = svc.signed /\ t.slot = svc.slot
    BY <1>1 DEF Tick, TickPhases
  <1>6. tx \in Transaction /\ tx.guardId = svc.id /\ tx.sig = sig /\ tx.watched
        /\ sig \in issued /\ SignedGuardId(sig) = svc.id
    BY <1>1 DEF Transaction, Tick, SoundTick
  <1> HIDE DEF t, tx
  <1>7. SoundTick(t, guardCount, guards, issued)
    BY <1>1, <1>5 DEF SoundTick
  <1>8. PICK k \in 1 .. Len(mempool') :
          /\ mempool' \in Seq(Transaction) /\ mempool'[k] = tx
          /\ \A i \in 1 .. Len(mempool') :
               i # k => i \in 1 .. Len(mempool) /\ mempool'[i] = mempool[i]
    <2>1. mempool \in Seq(Transaction) /\ Broadcast(tx)
      BY <1>1, <1>3 DEF SoundPool, tx
    <2> QED
      BY <1>6, <2>1, BroadcastPool
  <1>9. SoundPool(mempool', t, guardCount, issued)
    <2>1. \A i \in 1 .. Len(mempool') :
            /\ mempool'[i].sig \in issued /\ mempool'[i].guardId \in 1 .. guardCount
            /\ SignedGuardId(mempool'[i].sig) = mempool'[i].guardId
            /\ mempool'[i].watched => i = k
      BY <1>1, <1>2, <1>6, <1>8 DEF SoundPool, NoneWatched
    <2> QED
      BY <1>5, <1>6, <1>8, <2>1 DEF SoundPool
  <1>10. SoundReceipt(t, actions')
    BY <1>5 DEF SoundReceipt
  <1> QED
    BY <1>1, <1>4, <1>7, <1>9, <1>10 DEF ServiceInv

(* A sequence without its head. *)
LEMMA SeqTail ==
  ASSUME NEW S, NEW s \in Seq(S), s # <<>>
  PROVE  /\ Tail(s) \in Seq(S) /\ Len(Tail(s)) = Len(s) - 1
         /\ Len(s) \in Nat \ {0} /\ Head(s) = s[1]
         /\ \A i \in 1 .. Len(s) - 1 : Tail(s)[i] = s[i + 1] /\ i + 1 \in 1 .. Len(s)
  OBVIOUS

(* What is left of the pool is sound for the same tick. *)
LEMMA TailSound ==
  ASSUME NEW t, NEW count, NEW returned, NEW pool, pool # <<>>,
         SoundPool(pool, t, count, returned)
  PROVE  SoundPool(Tail(pool), t, count, returned)
  <1>1. pool \in Seq(Transaction)
    BY DEF SoundPool
  <1>2. /\ Tail(pool) \in Seq(Transaction) /\ Len(Tail(pool)) = Len(pool) - 1
        /\ Len(pool) \in Nat
        /\ \A i \in 1 .. Len(pool) - 1 :
             Tail(pool)[i] = pool[i + 1] /\ i + 1 \in 1 .. Len(pool)
    BY <1>1, SeqTail
  <1>3. \A i, j \in 1 .. Len(pool) - 1 : i + 1 = j + 1 => i = j
    BY <1>2
  <1> QED
    BY <1>2, <1>3 DEF SoundPool

LEMMA DroppedPool ==
  ASSUME mempool \in Seq(Transaction), NEW k \in DOMAIN mempool, TransactionDropped(k)
  PROVE  /\ mempool' \in Seq(Transaction) /\ Len(mempool') = Len(mempool)
         /\ \A i \in 1 .. Len(mempool) :
              /\ mempool'[i].sig = mempool[i].sig
              /\ mempool'[i].guardId = mempool[i].guardId
              /\ mempool'[i].watched => mempool[i].watched
  <1> DEFINE tx == [mempool[k] EXCEPT !.lost = TRUE, !.watched = FALSE]
  <1>1. k \in 1 .. Len(mempool) /\ mempool[k] \in Transaction
    OBVIOUS
  <1>2. /\ tx \in Transaction /\ tx.sig = mempool[k].sig
        /\ tx.guardId = mempool[k].guardId /\ ~tx.watched
    BY <1>1 DEF Transaction
  <1>3. mempool' = [mempool EXCEPT ![k] = tx]
    BY DEF TransactionDropped
  <1> HIDE DEF tx
  <1>4. /\ mempool' \in Seq(Transaction) /\ Len(mempool') = Len(mempool)
        /\ mempool'[k] = tx
        /\ \A i \in 1 .. Len(mempool) : i # k => mempool'[i] = mempool[i]
    BY <1>1, <1>2, <1>3, SeqUpdate
  <1> QED
    BY <1>2, <1>4

LEMMA DroppedKeeps ==
  ASSUME ServiceStep, NEW k \in DOMAIN mempool, TransactionDropped(k)
  PROVE  ServiceInv'
  <1>1. /\ ServiceInv /\ HandlersFit' /\ TeeInv'
        /\ UNCHANGED <<guardCount, guards, issued, actions, svc, health>>
    BY StepFacts DEF TransactionDropped, vars, registryVars, teeVars
  <1>2. faults' \in 0 .. MaxFaults
    BY <1>1, ServiceAssumption DEF TransactionDropped, SpendFault, ServiceInv
  <1>3. SoundPool(mempool', svc, guardCount, issued)
    <2>1. SoundPool(mempool, svc, guardCount, issued)
      BY <1>1 DEF ServiceInv
    <2> QED
      BY <2>1, DroppedPool DEF SoundPool
  <1> QED
    BY <1>1, <1>2, <1>3 DEF ServiceInv

(* A transaction that takes effect leaves its row on the ledger. *)
LEMMA MinedRow ==
  ASSUME ServiceInv, mempool # <<>>, NEW tx, tx = Head(mempool),
         Relay(tx.sig, tx.guardId, tx.sig.digest[3], SignedAmount(tx.sig),
               SignedNonce(tx.sig))
  PROVE  \E i \in 1 .. Len(actions'[tx.guardId]) :
           /\ actions'[tx.guardId][i].nonce = SignedNonce(tx.sig)
           /\ actions'[tx.guardId][i].amount = SignedAmount(tx.sig)
  <1> DEFINE id == tx.guardId
             type == tx.sig.digest[3]
             amount == SignedAmount(tx.sig)
             nonce == SignedNonce(tx.sig)
             row == NewAction(type, amount, nonce)
  <1>1. /\ id \in GuardIds /\ type \in ActionTypes
        /\ amount \in Amounts /\ nonce \in NonceInputs
    BY HeadFacts
  <1>2. PostAction(id, type, amount, nonce, tx.sig) /\ RegistryInv
    BY DEF Relay, ServiceInv, TeeInv
  <1>3. row.amount = amount /\ row.nonce = nonce
    BY DEF NewAction
  <1> HIDE DEF id, type, amount, nonce, row
  <1>4. /\ actions[id] \in Seq(Action) /\ row \in Action
        /\ actions'[id] = Append(actions[id], row)
    BY <1>1, <1>2, PostEffect DEF row
  <1>5. /\ Len(actions'[id]) = Len(actions[id]) + 1 /\ Len(actions[id]) \in Nat
        /\ actions'[id][Len(actions[id]) + 1] = row
    BY <1>4, SeqAppend
  <1>6. \E i \in 1 .. Len(actions'[id]) :
          actions'[id][i].nonce = nonce /\ actions'[id][i].amount = amount
    BY <1>3, <1>5
  <1> QED
    BY <1>6 DEF id, amount, nonce

LEMMA MineKeeps ==
  ASSUME ServiceStep, Mine
  PROVE  ServiceInv'
  <1> DEFINE tx == Head(mempool)
             outcome == IF WouldRevert(tx) THEN "reverted" ELSE "success"
             t == [svc EXCEPT !.receipt = outcome]
  <1>1. /\ ServiceInv /\ HandlersFit' /\ TeeInv' /\ Grows /\ guardCount' \in Nat
        /\ svc \in Tick /\ mempool # <<>> /\ mempool' = Tail(mempool)
        /\ health' \in HealthType /\ faults' \in 0 .. MaxFaults
    BY StepFacts, ServiceFacts DEF Mine, ServiceInv
  <1>2. /\ SoundTick(svc, guardCount', guards', issued')
        /\ SoundPool(mempool, svc, guardCount', issued')
        /\ SoundReceipt(svc, actions')
    BY <1>1, TickLasts, PoolLasts, ReceiptLasts
  <1>3. SoundPool(mempool', svc, guardCount', issued')
    BY <1>1, <1>2, TailSound
  <1>4. tx = mempool[1] /\ 1 \in 1 .. Len(mempool)
    BY <1>1, HeadFacts
  <1>5. CASE ~tx.watched
    <2>1. svc' = svc
      BY <1>5 DEF Mine
    <2> QED
      BY <1>1, <1>2, <1>3, <2>1 DEF ServiceInv
  <1>6. CASE tx.watched
    <2>1. svc' = t
      BY <1>6 DEF Mine
    <2>2. /\ svc.pc = "receipt" /\ tx.guardId = svc.id /\ tx.sig \in svc.signed
          /\ \A s \in svc.signed : s = tx.sig
      BY <1>2, <1>4, <1>6 DEF SoundPool, SoundTick
    <2>3. outcome \in {"reverted", "success"}
      OBVIOUS
    <2>4. outcome = "success" =>
            \E i \in 1 .. Len(actions'[tx.guardId]) :
              /\ actions'[tx.guardId][i].nonce = SignedNonce(tx.sig)
              /\ actions'[tx.guardId][i].amount = SignedAmount(tx.sig)
      <3>1. outcome = "success" =>
              Relay(tx.sig, tx.guardId, tx.sig.digest[3], SignedAmount(tx.sig),
                    SignedNonce(tx.sig))
        BY DEF Mine
      <3> QED
        BY <1>1, <3>1, MinedRow
    <2> HIDE DEF outcome
    <2>5. /\ t \in Tick /\ t.pc = svc.pc /\ t.n = svc.n /\ t.id = svc.id
          /\ t.agentVault = svc.agentVault /\ t.signed = svc.signed
          /\ t.slot = svc.slot /\ t.receipt = outcome
      BY <1>1, <2>3 DEF Tick
    <2> HIDE DEF t, tx
    <2>6. SoundTick(t, guardCount', guards', issued')
      BY <1>2, <2>2, <2>5 DEF SoundTick
    <2>7. \A i \in 1 .. Len(mempool') : ~mempool'[i].watched
      <3>1. /\ mempool \in Seq(Transaction) /\ Len(mempool') = Len(mempool) - 1
            /\ Len(mempool) \in Nat
            /\ \A i \in 1 .. Len(mempool) - 1 :
                 mempool'[i] = mempool[i + 1] /\ i + 1 \in 1 .. Len(mempool)
        <4>1. mempool \in Seq(Transaction)
          BY <1>2 DEF SoundPool
        <4> QED
          BY <1>1, <4>1, SeqTail
      <3>2. \A i \in 1 .. Len(mempool) : mempool[i].watched => i = 1
        BY <1>2, <1>4, <1>6 DEF SoundPool
      <3> QED
        BY <3>1, <3>2
    <2>8. SoundPool(mempool', t, guardCount', issued')
      BY <1>3, <2>7 DEF SoundPool
    <2>9. SoundReceipt(t, actions')
      BY <2>2, <2>4, <2>5 DEF SoundReceipt
    <2> QED
      BY <1>1, <2>1, <2>6, <2>8, <2>9 DEF ServiceInv
  <1> QED
    BY <1>5, <1>6

LEMMA ElsewhereStepKeeps ==
  ASSUME ServiceStep,
         \/ \E h \in Handlers : HandlerFault(h) \/ EnclaveStep(h)
         \/ \E key \in Keys \cup {NoKey} : EnclaveFault(key)
         \/ WorldStep
         \/ UNCHANGED allVars
  PROVE  ServiceInv'
  <1>1. /\ ServiceInv /\ [TeeNext]_vars /\ HandlersFit' /\ faults \in 0 .. MaxFaults
    BY StepFacts DEF ServiceInv
  <1>2. UNCHANGED <<svc, health, mempool>> /\ (faults' = faults \/ SpendFault)
    BY DEF HandlerFault, EnclaveStep, EnclaveFault, WorldStep, OtherCaller, serviceVars,
           allVars
  <1>3. faults' \in 0 .. MaxFaults
    BY <1>1, <1>2, ServiceAssumption DEF SpendFault
  <1> QED
    BY <1>1, <1>2, <1>3, ElsewhereKeeps

LEMMA ServiceStepKeeps == ServiceInv /\ [ServiceNext]_allVars => ServiceInv'
  <1> SUFFICES ASSUME ServiceStep PROVE ServiceInv'
    BY DEF ServiceStep
  <1>1. CASE TickStep
    BY <1>1, LoopStartKeeps, ReadGuardCountKeeps, ReadSignerKeeps,
       ReadGuardPolicyKeeps, CallTeeKeeps, TeeReplyKeeps, RecheckKeeps, SubmitKeeps,
       EndKeeps DEF TickStep
  <1>2. CASE FaultStep
    BY <1>2, EndKeeps, ResetKeeps, DroppedKeeps, ElsewhereStepKeeps DEF FaultStep
  <1>3. CASE Mine
    BY <1>3, MineKeeps
  <1>4. CASE WorldStep \/ (\E h \in Handlers : EnclaveStep(h)) \/ UNCHANGED allVars
    BY <1>4, ElsewhereStepKeeps
  <1> QED
    BY <1>1, <1>2, <1>3, <1>4 DEF ServiceNext, ServiceStep

LEMMA ServiceInitially == ServiceInit => ServiceInv
  <1> SUFFICES ASSUME ServiceInit PROVE ServiceInv
    OBVIOUS
  <1>1. TeeInv /\ handlers = [h \in Handlers |-> IdleHandler] /\ guardCount \in Nat
    BY TeeInitially DEF ServiceInit, TeeInit, RegistryInit
  <1>2. HandlersFit
    <2>1. SlotFits
      BY DEF ServiceInit, Asleep, SlotFits
    <2> QED
      BY <1>1, <2>1, IdleFits DEF HandlersFit, SignsOnce
  <1>3. SoundTick(svc, guardCount, guards, issued) /\ svc.pc = "sleep"
    BY <1>1, AsleepSound DEF ServiceInit
  <1>4. SoundPool(mempool, svc, guardCount, issued)
    BY DEF ServiceInit, SoundPool
  <1>5. SoundReceipt(svc, actions)
    BY <1>3 DEF SoundReceipt
  <1>6. health \in HealthType /\ faults \in 0 .. MaxFaults
    BY TeeAssumption, ServiceAssumption DEF ServiceInit, InitHealth, HealthType
  <1> QED
    BY <1>1, <1>2, <1>3, <1>4, <1>5, <1>6 DEF ServiceInv

LEMMA ServiceAlways == ServiceSpec => []ServiceInv
  BY ServiceInitially, ServiceStepKeeps, PTL DEF ServiceSpec

-----------------------------------------------------------------------------
(* Retries.  What the service submits was compared with the ledger while a     *)
(* signer was registered, and from then on a ledger grows row by row.          *)

\* With guards gs and ledgers log, nonce is guard id's next or is recorded.
Harmless(gs, log, id, nonce) ==
  \/ nonce = gs[id].lastActionNonce + 1
  \/ \E i \in 1 .. Len(log[id]) : log[id][i].nonce = nonce

RetryInv ==
  /\ svc.signer # ZeroAddress => guardianSigner # ZeroAddress
  /\ svc.pc = "post" =>
       /\ svc.signer # ZeroAddress
       /\ \A sig \in svc.signed : Harmless(guards, actions, svc.id, SignedNonce(sig))
  /\ \A i \in 1 .. Len(mempool) :
       /\ guardianSigner # ZeroAddress
       /\ Harmless(guards, actions, mempool[i].guardId, SignedNonce(mempool[i].sig))

LEMMA SignerStays ==
  ASSUME TeeInv, [TeeNext]_vars, guardianSigner # ZeroAddress
  PROVE  guardianSigner' # ZeroAddress
  <1>1. OwnerNext => guardianSigner' # ZeroAddress
    BY DEF OwnerNext, SetGuardianSigner, SetPaused, RegisterAgentVault, SetPolicy,
           SetGuardActive
  <1>2. CASE guardianSigner' = guardianSigner
    BY <1>2
  <1> QED
    BY <1>1, <1>2
       DEF TeeNext, OwnerStep, RelayStep, Relay, UnrecoverableStep, PostUnrecoverable,
           PostAction, HandlerStep, Arrive, ReadVaultHealth, ReadGuard, RecordCheck,
           SignAction, Respond, Fail, EnclaveRestart, FactorsChange, vars, registryVars

(* A transaction for the next row stays for the next row until that row is on  *)
(* the ledger, and a row stays on the ledger.                                  *)
LEMMA HarmlessLasts ==
  ASSUME TeeInv, [TeeNext]_vars, guardianSigner # ZeroAddress,
         NEW id \in GuardIds, NEW nonce, Harmless(guards, actions, id, nonce)
  PROVE  Harmless(guards', actions', id, nonce)
  <1>1. TeeInv' /\ Grows
    BY TeeStepKeeps, TeeGrows
  <1>2. CASE \E i \in 1 .. Len(actions[id]) : actions[id][i].nonce = nonce
    <2>1. PICK i \in 1 .. Len(actions[id]) : actions[id][i].nonce = nonce
      BY <1>2
    <2>2. i \in 1 .. Len(actions'[id]) /\ actions'[id][i] = actions[id][i]
      BY <1>1, <2>1, RowLasts
    <2> QED
      BY <2>1, <2>2 DEF Harmless
  <1>3. CASE nonce = guards[id].lastActionNonce + 1
    <2>1. CASE guards'[id].lastActionNonce = guards[id].lastActionNonce
      BY <1>3, <2>1 DEF Harmless
    <2>2. CASE OwnerStep
      BY <2>1, <2>2, OwnerEffect DEF OwnerStep, TeeInv
    <2>3. CASE UNCHANGED registryVars
      BY <2>1, <2>3 DEF registryVars
    <2>4. CASE RelayStep
      <3>1. PICK sig \in issued, j \in GuardIds, actionType \in ActionTypes,
                 amount \in Amounts, n \in NonceInputs :
                   Relay(sig, j, actionType, amount, n)
        BY <2>4 DEF RelayStep
      <3>2. PostAction(j, actionType, amount, n, sig)
        BY <3>1 DEF Relay
      <3>3. CASE j # id
        <4>1. guards'[id] = guards[id]
          BY <3>2, <3>3, PostEffect DEF TeeInv
        <4> QED
          BY <2>1, <4>1
      <3>4. CASE j = id
        <4>1. n = nonce
          BY <1>3, <3>2, <3>4, RelayForces
        <4>2. /\ actions[id] \in Seq(Action) /\ NewAction(actionType, amount, n) \in Action
              /\ actions'[id] = Append(actions[id], NewAction(actionType, amount, n))
          BY <3>2, <3>4, PostEffect DEF TeeInv
        <4>3. /\ Len(actions[id]) + 1 \in 1 .. Len(actions'[id])
              /\ actions'[id][Len(actions[id]) + 1] = NewAction(actionType, amount, n)
          BY <4>2, SeqAppend
        <4>4. NewAction(actionType, amount, n).nonce = n
          BY DEF NewAction
        <4> QED
          BY <4>1, <4>3, <4>4 DEF Harmless
      <3> QED
        BY <3>3, <3>4
    <2>5. ~UnrecoverableStep
      BY UnrecoverableKeeps DEF UnrecoverableStep
    <2> QED
      BY <2>2, <2>3, <2>4, <2>5
         DEF TeeNext, HandlerStep, Arrive, ReadVaultHealth, ReadGuard, RecordCheck,
             SignAction, Respond, Fail, EnclaveRestart, FactorsChange, vars
  <1> QED
    BY <1>2, <1>3 DEF Harmless

(* What a step does to the tick's signer and to a transaction about to be      *)
(* submitted: only the recheck gets to `post'.                                 *)
LEMMA TickMoves ==
  ASSUME ServiceStep
  PROVE  /\ \/ svc'.signer \in {svc.signer, ZeroAddress}
            \/ svc'.signer = guardianSigner /\ guardianSigner' = guardianSigner
         /\ svc'.pc = "post" =>
              /\ svc.pc = "post" \/ (Recheck /\ svc' = [svc EXCEPT !.pc = "post"])
              /\ svc'.id = svc.id /\ svc'.signed = svc.signed /\ svc'.signer = svc.signer
  <1>1. svc \in Tick /\ [ServiceNext]_allVars
    BY ServiceFacts DEF ServiceStep
  <1>2. /\ Asleep.pc = "sleep" /\ Asleep.signer = ZeroAddress
        /\ \A any : Continue(any) =>
             svc'.signer \in {svc.signer, ZeroAddress} /\ svc'.pc # "post"
    <2>1. Asleep.pc = "sleep" /\ Asleep.signer = ZeroAddress
      BY DEF Asleep
    <2>2. ASSUME NEW any, Continue(any)
          PROVE  svc'.signer \in {svc.signer, ZeroAddress} /\ svc'.pc # "post"
      <3>1. CASE svc.id < svc.n
        BY <2>2, <3>1 DEF Continue, Asleep
      <3>2. CASE ~(svc.id < svc.n)
        BY <2>1, <2>2, <3>2 DEF Continue
      <3> QED
        BY <3>1, <3>2
    <2> QED
      BY <2>1, <2>2
  <1>3. CASE svc' = svc \/ svc' = Asleep
    BY <1>2, <1>3
  <1>4. CASE \E any : Continue(any)
    BY <1>2, <1>4
  <1>5. CASE \/ LoopStart \/ ReadGuardCount \/ ReadGuardPolicy \/ Submit \/ ReadSigner
             \/ \E h \in Handlers : CallTee(h) \/ TeeReply(h)
    <2>1. CASE LoopStart \/ ReadGuardCount \/ Submit
      <3>1. svc'.signer = svc.signer /\ svc'.pc # "post"
        BY <1>1, <2>1 DEF LoopStart, ReadGuardCount, Submit, Tick
      <3> QED
        BY <3>1
    <2>2. CASE ReadGuardPolicy
      <3>1. CASE svc' = [svc EXCEPT !.pc = "check",
                                    !.agentVault = GuardAt(svc.id).agentVault]
        <4>1. svc'.signer = svc.signer /\ svc'.pc = "check"
          BY <1>1, <3>1 DEF Tick
        <4> QED
          BY <4>1
      <3>2. CASE Continue(health)
        BY <1>4, <3>2
      <3> QED
        BY <2>2, <3>1, <3>2 DEF ReadGuardPolicy
    <2>3. CASE ReadSigner
      BY <1>1, <1>4, <2>3 DEF ReadSigner, Tick, vars, registryVars
    <2>4. CASE \E h \in Handlers : CallTee(h)
      BY <1>1, <2>4 DEF CallTee, Tick
    <2>5. CASE \E h \in Handlers : TeeReply(h)
      BY <1>1, <1>4, <2>5 DEF TeeReply, Tick
    <2> QED
      BY <1>5, <2>1, <2>2, <2>3, <2>4, <2>5
  <1>6. CASE Recheck
    BY <1>1, <1>4, <1>6 DEF Recheck, Tick
  <1>7. CASE Mine
    BY <1>1, <1>3, <1>7 DEF Mine, Tick
  <1> QED
    BY <1>1, <1>3, <1>4, <1>5, <1>6, <1>7
       DEF ServiceNext, TickStep, FaultStep, WorldStep, EnclaveStep, OtherCaller,
           TeeError, SubmitRefused, Receipt, ReceiptLost, ReadFails, AbortTick,
           GuardSkipped, TeeTimeout, ReceiptTimeout, ServiceCrash, HandlerFault,
           EnclaveFault, TransactionDropped, serviceVars, allVars

(* Every transaction of the next pool was in this one, or is the one that is   *)
(* submitted.                                                                  *)
LEMMA PoolMoves ==
  ASSUME ServiceStep, NEW i \in 1 .. Len(mempool')
  PROVE  \/ \E j \in 1 .. Len(mempool) :
              mempool'[i].sig = mempool[j].sig /\ mempool'[i].guardId = mempool[j].guardId
         \/ /\ svc.pc = "post" /\ UNCHANGED vars
            /\ mempool'[i].guardId = svc.id /\ mempool'[i].sig \in svc.signed
  <1>1. ServiceInv /\ mempool \in Seq(Transaction) /\ [ServiceNext]_allVars
        /\ SoundTick(svc, guardCount, guards, issued) /\ svc \in Tick /\ svc.id \in Nat
    BY ServiceFacts DEF ServiceStep, ServiceInv, SoundPool
  <1>2. CASE mempool' = mempool
    BY <1>2
  <1>3. CASE mempool' = Unwatched
    BY <1>1, <1>3, UnwatchedPool
  <1>4. CASE \E k \in DOMAIN mempool : TransactionDropped(k)
    BY <1>1, <1>4, DroppedPool
  <1>5. CASE Mine
    <2>1. mempool # <<>> /\ mempool' = Tail(mempool)
      BY <1>5 DEF Mine
    <2>2. i + 1 \in 1 .. Len(mempool) /\ mempool'[i] = mempool[i + 1]
      BY <1>1, <2>1, SeqTail
    <2> QED
      BY <2>2
  <1>6. CASE Submit
    <2>1. PICK sig \in svc.signed :
            Broadcast([guardId |-> svc.id, sig |-> sig, watched |-> TRUE, lost |-> FALSE])
      BY <1>6 DEF Submit
    <2> DEFINE tx == [guardId |-> svc.id, sig |-> sig, watched |-> TRUE, lost |-> FALSE]
    <2>2. tx \in Transaction /\ tx.guardId = svc.id /\ tx.sig = sig
      BY <1>1 DEF Transaction, Tick
    <2> HIDE DEF tx
    <2>3. PICK k \in 1 .. Len(mempool') :
            /\ mempool'[k] = tx
            /\ \A m \in 1 .. Len(mempool') :
                 m # k => m \in 1 .. Len(mempool) /\ mempool'[m] = mempool[m]
      BY <1>1, <2>1, <2>2, BroadcastPool DEF tx
    <2>4. svc.pc = "post" /\ UNCHANGED vars
      BY <1>6 DEF Submit, At
    <2> QED
      BY <2>2, <2>3, <2>4
  <1> QED
    BY <1>1, <1>2, <1>3, <1>4, <1>5, <1>6
       DEF ServiceNext, TickStep, FaultStep, WorldStep, EnclaveStep, OtherCaller,
           LoopStart, ReadGuardCount, ReadSigner, ReadGuardPolicy, CallTee, TeeReply,
           TeeError, Recheck, SubmitRefused, Receipt, ReceiptLost, ReadFails,
           GuardSkipped, TeeTimeout, ReceiptTimeout, ServiceCrash, HandlerFault,
           EnclaveFault, serviceVars, allVars

(* The recheck lets through what is for the guard's next row, signed with a    *)
(* registered key.                                                             *)
LEMMA RecheckedHarmless ==
  ASSUME ServiceInv, Recheck, svc' = [svc EXCEPT !.pc = "post"]
  PROVE  /\ svc.signer # ZeroAddress
         /\ \A sig \in svc.signed : Harmless(guards, actions, svc.id, SignedNonce(sig))
  <1>1. /\ svc.pc = "recheck" /\ svc \in Tick /\ svc.id \in GuardIds
        /\ \A s1, s2 \in svc.signed : s1 = s2
    BY ServiceFacts DEF Recheck, At, ServiceInv, SoundTick
  <1>2. svc'.pc = "post"
    BY <1>1 DEF Tick
  <1>3. \A any : Continue(any) => svc'.pc # "post"
    BY DEF Continue, Asleep
  <1>4. PICK sig \in svc.signed :
          /\ SignedNonce(sig) = GuardAt(svc.id).lastActionNonce + 1
          /\ sig.signer = svc.signer
    BY <1>2, <1>3 DEF Recheck
  <1>5. SignedNonce(sig) = guards[svc.id].lastActionNonce + 1
    BY <1>1, <1>4 DEF GuardAt
  <1>6. sig.signer \in Keys
    BY <1>1 DEF Tick, Signature
  <1> QED
    BY <1>1, <1>4, <1>5, <1>6, RegistryAssumption DEF Harmless

LEMMA RetryStep == ServiceInv /\ RetryInv /\ [ServiceNext]_allVars => RetryInv'
  <1> SUFFICES ASSUME ServiceInv, RetryInv, [ServiceNext]_allVars PROVE RetryInv'
    OBVIOUS
  <1>1. /\ ServiceStep /\ TeeInv /\ [TeeNext]_vars /\ TeeInv'
        /\ svc.pc = "post" => svc.id \in GuardIds
    BY StepFacts, ServiceFacts DEF ServiceStep, ServiceInv
  <1>2. /\ \A i \in 1 .. Len(mempool) : mempool[i].guardId \in GuardIds
    BY DEF ServiceInv, SoundPool, GuardIds
  <1>3. svc'.signer # ZeroAddress => guardianSigner' # ZeroAddress
    BY <1>1, TickMoves, SignerStays DEF RetryInv
  <1>4. ASSUME svc'.pc = "post"
        PROVE  /\ svc'.signer # ZeroAddress
               /\ \A sig \in svc'.signed :
                    Harmless(guards', actions', svc'.id, SignedNonce(sig))
    <2>1. /\ svc.pc = "post" \/ (Recheck /\ svc' = [svc EXCEPT !.pc = "post"])
          /\ svc'.id = svc.id /\ svc'.signed = svc.signed /\ svc'.signer = svc.signer
      BY <1>1, <1>4, TickMoves
    <2>2. CASE svc.pc = "post"
      <3>1. guardianSigner # ZeroAddress /\ svc.id \in GuardIds
        BY <1>1, <2>2 DEF RetryInv
      <3> QED
        BY <1>1, <2>1, <2>2, <3>1, HarmlessLasts DEF RetryInv
    <2>3. CASE Recheck /\ svc' = [svc EXCEPT !.pc = "post"]
      <3>1. UNCHANGED <<guards, actions>>
        BY <2>3 DEF Recheck, vars, registryVars
      <3> QED
        BY <2>1, <2>3, <3>1, RecheckedHarmless
    <2> QED
      BY <2>1, <2>2, <2>3
  <1>5. ASSUME NEW i \in 1 .. Len(mempool')
        PROVE  /\ guardianSigner' # ZeroAddress
               /\ Harmless(guards', actions', mempool'[i].guardId,
                           SignedNonce(mempool'[i].sig))
    <2>1. CASE \E j \in 1 .. Len(mempool) :
              mempool'[i].sig = mempool[j].sig /\ mempool'[i].guardId = mempool[j].guardId
      <3>1. PICK j \in 1 .. Len(mempool) :
              mempool'[i].sig = mempool[j].sig /\ mempool'[i].guardId = mempool[j].guardId
        BY <2>1
      <3>2. /\ guardianSigner # ZeroAddress /\ mempool[j].guardId \in GuardIds
            /\ Harmless(guards, actions, mempool[j].guardId, SignedNonce(mempool[j].sig))
        BY <1>2 DEF RetryInv
      <3>3. Harmless(guards', actions', mempool[j].guardId, SignedNonce(mempool[j].sig))
        BY <1>1, <3>2, HarmlessLasts
      <3> QED
        BY <1>1, <3>1, <3>2, <3>3, SignerStays
    <2>2. CASE /\ svc.pc = "post" /\ UNCHANGED vars
               /\ mempool'[i].guardId = svc.id /\ mempool'[i].sig \in svc.signed
      <3>1. UNCHANGED <<guardianSigner, guards, actions>>
        BY <2>2 DEF vars, registryVars
      <3> QED
        BY <2>2, <3>1 DEF RetryInv
    <2> QED
      BY <1>1, <2>1, <2>2, PoolMoves
  <1> QED
    BY <1>3, <1>4, <1>5 DEF RetryInv

-----------------------------------------------------------------------------
(* Theorems.                                                                  *)

(* Through ticks, crashes, timeouts and lost transactions every variable of    *)
(* service.mjs keeps its type, and a tick never looks past the guards there    *)
(* were when it began.                                                        *)
THEOREM ServiceTypes == ServiceSpec => []ServiceTypeOK
  <1>1. ServiceInv => ServiceTypeOK
    <2> SUFFICES ASSUME ServiceInv PROVE ServiceTypeOK
      OBVIOUS
    <2>1. TeeTypeOK /\ svc.id <= svc.n /\ svc.n <= guardCount
      BY DEF ServiceInv, TeeInv, SoundTick
    <2>2. svc \in Tick /\ mempool \in Seq(Transaction)
      BY DEF ServiceInv, SoundTick, SoundPool
    <2> QED
      BY <2>1, <2>2 DEF ServiceInv, ServiceTypeOK, Tick, TickPhases, Transaction,
                        HealthType
  <1> QED
    BY <1>1, ServiceAlways, PTL

(* Whatever other callers ask the guard, the check the service waits for is    *)
(* about the vault of the guard it names, and so is every signature it holds   *)
(* or has submitted, those of timed-out or crashed ticks included.             *)
THEOREM OwnVaultIsChecked == ServiceSpec => []OwnVaultChecked
  <1>1. ServiceInv => OwnVaultChecked
    <2> SUFFICES ASSUME ServiceInv PROVE OwnVaultChecked
      OBVIOUS
    <2>1. DOMAIN mempool = 1 .. Len(mempool)
      BY DEF ServiceInv, SoundPool
    <2> QED
      BY <2>1 DEF ServiceInv, HandlersFit, SlotFits, SoundTick, SoundPool, OwnVaultChecked
  <1> QED
    BY <1>1, ServiceAlways, PTL

(* A success receipt always means that the signed row is on the ledger: the    *)
(* service never takes the receipt of an older transaction for its own.        *)
THEOREM ReceiptIsARow == ServiceSpec => []ReceiptMeansRow
  <1>1. ServiceInv => ReceiptMeansRow
    BY DEF ServiceInv, SoundReceipt, ReceiptMeansRow, At
  <1> QED
    BY <1>1, ServiceAlways, PTL

(* Retries do no harm: whatever timed out, crashed or was dropped, a pending   *)
(* transaction of the service is for its guard's next row, or its row is on    *)
(* the ledger and postAction's nonce check refuses it.                         *)
THEOREM RetriesAreHarmless == ServiceSpec => []RetriesHarmless
  <1>1. ServiceInit => RetryInv
    BY DEF ServiceInit, RetryInv, Asleep
  <1>2. ServiceInv /\ RetryInv => RetriesHarmless
    <2> SUFFICES ASSUME ServiceInv, RetryInv, NEW i \in DOMAIN mempool
                 PROVE  \/ SignedNonce(mempool[i].sig) =
                             GuardAt(mempool[i].guardId).lastActionNonce + 1
                        \/ Recorded(mempool[i].guardId, SignedNonce(mempool[i].sig))
      BY DEF RetriesHarmless
    <2>1. i \in 1 .. Len(mempool) /\ mempool[i].guardId \in GuardIds
      BY DEF ServiceInv, SoundPool, GuardIds
    <2> QED
      BY <2>1 DEF RetryInv, Harmless, Recorded, GuardAt
  <1> QED
    BY <1>1, <1>2, RetryStep, ServiceAlways, PTL DEF ServiceSpec

LEMMA ServiceImplementsTee == ServiceSpec => TeeSpec
  <1>1. ServiceInit => TeeInit
    BY DEF ServiceInit
  <1> QED
    BY <1>1, ServiceStepIsTeeStep, ServiceAlways, PTL DEF ServiceSpec, TeeSpec

(* The running service keeps the promise to the agent from setGuardianSigner   *)
(* on: gap-free ledgers of top-ups, each of an amount the policy committed to. *)
THEOREM ServiceKeepsPromise == ServiceSpec => KeepsPromise
  BY ServiceImplementsTee, PromiseIsKept
==============================================================================
