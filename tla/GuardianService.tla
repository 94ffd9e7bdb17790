--------------------------- MODULE GuardianService ---------------------------
(***************************************************************************)
(* backend/service.mjs: the always-on loop that asks the TEE guard about   *)
(* every active guard and relays what it signs, composed with the guard,   *)
(* the registry and the pending transactions between them.  The loop is    *)
(* one async function: every await is a point where the chain, the enclave *)
(* and the network move on, so each step below ends at an await.           *)
(*                                                                         *)
(* The guard's routes are open: OtherSlots are the slots in which requests *)
(* of other callers may run, for any vault and any guard.                  *)
(*                                                                         *)
(* Everything that can go wrong once - an RPC call that fails all of its   *)
(* retries, a timeout, a dropped transaction, a crash of the service or of *)
(* the enclave - spends one of MaxFaults faults.                           *)
(***************************************************************************)
EXTENDS TeeGuard

CONSTANTS
  OtherSlots,   \* request slots that other callers of the guard may take
  MaxPending,   \* bound on the account nonces in use and not yet mined
  MaxFaults     \* bound on the faults of a behaviour

ASSUME ServiceAssumption ==
  OtherSlots \subseteq Handlers /\ MaxPending \in Nat \ {0} /\ MaxFaults \in Nat

VARIABLES
  svc,       \* the tick: program counter and locals
  health,    \* the object GET /health reports
  mempool,   \* the relayer's transactions by account nonce, from the next one
             \* to be mined; a lost one leaves its account nonce unused
  faults     \* faults so far

serviceVars == <<svc, health, mempool, faults>>
allVars == <<vars, serviceVars>>

Asleep ==
  [pc |-> "sleep", n |-> 0, signer |-> ZeroAddress, id |-> 0,
   agentVault |-> ZeroAddress, slot |-> {}, signed |-> {}, receipt |-> "none"]

\* guardsWatched is left out: it is written by the read that sets svc.n and
\* nothing reads it.
InitHealth ==
  [lastLoop |-> FALSE, lastError |-> FALSE, teeReachable |-> FALSE,
   actionsPosted |-> 0, checksPerformed |-> 0]

ServiceInit ==
  /\ TeeInit
  /\ svc = Asleep
  /\ health = InitHealth
  /\ mempool = <<>>
  /\ faults = 0

SpendFault == faults < MaxFaults /\ faults' = faults + 1

At(pc) == svc.pc = pc

\* Mutant: the loop runs to n + 1.
ContinuePastEnd(newHealth) ==
  IF svc.id <= svc.n
  THEN /\ svc' = [Asleep EXCEPT !.pc = "guard", !.n = svc.n, !.signer = svc.signer,
                                !.id = svc.id + 1]
       /\ health' = newHealth
  ELSE svc' = Asleep /\ health' = [newHealth EXCEPT !.lastError = FALSE]

\* Mutant: a tick that completes does not clear lastError.
ContinueKeepingError(newHealth) ==
  /\ svc' = IF svc.id < svc.n
            THEN [Asleep EXCEPT !.pc = "guard", !.n = svc.n, !.signer = svc.signer,
                                !.id = svc.id + 1]
            ELSE Asleep
  /\ health' = newHealth

\* The end of an iteration: on to the next guard, or the tick returns, which
\* clears lastError and goes to sleep.
Continue(newHealth) ==
  IF svc.id < svc.n
  THEN /\ svc' = [Asleep EXCEPT !.pc = "guard", !.n = svc.n, !.signer = svc.signer,
                                !.id = svc.id + 1]
       /\ health' = newHealth
  ELSE /\ svc' = Asleep
       /\ health' = [newHealth EXCEPT !.lastError = FALSE]

\* The tick throws: loop() records the error and sleeps.
AbortTick ==
  /\ svc' = Asleep
  /\ health' = [health EXCEPT !.lastError = TRUE]

-----------------------------------------------------------------------------
(* One tick.                                                                *)

\* lastLoop is set before the tick runs.
LoopStart ==
  /\ At("sleep")
  /\ svc' = [svc EXCEPT !.pc = "count"]
  /\ health' = [health EXCEPT !.lastLoop = TRUE]
  /\ UNCHANGED <<vars, mempool, faults>>

ReadGuardCount ==
  /\ At("count")
  /\ svc' = [svc EXCEPT !.pc = "signer", !.n = guardCount]
  /\ UNCHANGED <<vars, health, mempool, faults>>

\* With no guard the tick returns, otherwise it starts with guard 1.
ReadSigner ==
  /\ At("signer")
  /\ IF svc.n = 0
     THEN Continue(health)
     ELSE /\ svc' = [svc EXCEPT !.pc = "guard", !.signer = guardianSigner, !.id = 1]
          /\ UNCHANGED health
  /\ UNCHANGED <<vars, mempool, faults>>

ReadGuardPolicy ==
  /\ At("guard")
  /\ IF GuardAt(svc.id).active
     THEN /\ svc' = [svc EXCEPT !.pc = "check",
                                !.agentVault = GuardAt(svc.id).agentVault]
          /\ UNCHANGED health
     ELSE Continue(health)
  /\ UNCHANGED <<vars, mempool, faults>>

\* Mutant: the guard id sent along is one off.
CallTeeNextId(h) ==
  /\ At("check")
  /\ Arrive(h, svc.agentVault, (svc.id % svc.n) + 1)
  /\ svc' = [svc EXCEPT !.pc = "await", !.slot = {h}]
  /\ UNCHANGED <<health, mempool, faults>>

\* teeCheck sends the request; the enclave starts a handler for it.
CallTee(h) ==
  /\ At("check")
  /\ Arrive(h, svc.agentVault, svc.id)
  /\ svc' = [svc EXCEPT !.pc = "await", !.slot = {h}]
  /\ UNCHANGED <<health, mempool, faults>>

\* The handler answers the waiting service.
TeeReply(h) ==
  /\ At("await") /\ svc.slot = {h}
  /\ Respond(h)
  /\ LET answered == [health EXCEPT !.teeReachable = TRUE,
                        !.checksPerformed = (@ + 1) % CounterMod] IN
       IF handlers[h].signed # {}
       THEN /\ svc' = [svc EXCEPT !.pc = "recheck", !.slot = {},
                                  !.signed = handlers[h].signed]
            /\ health' = answered
       ELSE Continue(answered)
  /\ UNCHANGED <<mempool, faults>>

\* teeCheck throws because the enclave answered with an error or went away.
TeeError(h) ==
  /\ At("await") /\ svc.slot = {h}
  /\ handlers[h].pc = "idle"
  /\ Continue([health EXCEPT !.teeReachable = FALSE])
  /\ UNCHANGED <<vars, mempool, faults>>

\* Mutant: the signed nonce is compared with the stored one, not its successor.
RecheckSameNonce ==
  /\ At("recheck")
  /\ IF \E sig \in svc.signed :
          /\ SignedNonce(sig) = GuardAt(svc.id).lastActionNonce
          /\ sig.signer = svc.signer
     THEN svc' = [svc EXCEPT !.pc = "post"] /\ UNCHANGED health
     ELSE Continue(health)
  /\ UNCHANGED <<vars, mempool, faults>>

\* Mutant: the nonce is not compared again before the transaction is sent.
RecheckAnyNonce ==
  /\ At("recheck")
  /\ IF \E sig \in svc.signed : sig.signer = svc.signer
     THEN svc' = [svc EXCEPT !.pc = "post"] /\ UNCHANGED health
     ELSE Continue(health)
  /\ UNCHANGED <<vars, mempool, faults>>

\* The guard is read again and the signature compared with it and with the
\* signer read when the tick began; BigInt arithmetic does not wrap.
Recheck ==
  /\ At("recheck")
  /\ IF \E sig \in svc.signed :
          /\ SignedNonce(sig) = GuardAt(svc.id).lastActionNonce + 1
          /\ sig.signer = svc.signer
     THEN svc' = [svc EXCEPT !.pc = "post"] /\ UNCHANGED health
     ELSE Continue(health)
  /\ UNCHANGED <<vars, mempool, faults>>

\* The pending transactions with one more: it takes the first account nonce
\* that is free, which is that of a lost transaction if there is one.
Broadcast(tx) ==
  \E i \in 1 .. Len(mempool) + 1 :
    /\ i \in DOMAIN mempool => mempool[i].lost
    /\ \A j \in 1 .. i - 1 : ~mempool[j].lost
    /\ i <= MaxPending
    /\ mempool' = IF i \in DOMAIN mempool THEN [mempool EXCEPT ![i] = tx]
                  ELSE Append(mempool, tx)

\* writeContract broadcasts the transaction and returns its hash.
Submit ==
  /\ At("post")
  /\ \E sig \in svc.signed :
       Broadcast([guardId |-> svc.id, sig |-> sig, watched |-> TRUE, lost |-> FALSE])
  /\ svc' = [svc EXCEPT !.pc = "receipt", !.receipt = "pending"]
  /\ UNCHANGED <<vars, health, faults>>

WouldRevert(tx) ==
  ~Accepts(tx.guardId, tx.sig.digest[3], SignedAmount(tx.sig),
           SignedNonce(tx.sig), tx.sig)

\* writeContract throws because its gas estimation reverts.
SubmitRefused ==
  /\ At("post")
  /\ \E sig \in svc.signed : WouldRevert([guardId |-> svc.id, sig |-> sig])
  /\ Continue(health)
  /\ UNCHANGED <<vars, mempool, faults>>

\* waitForTransactionReceipt returns; the status is logged, not checked.
Receipt ==
  /\ At("receipt")
  /\ svc.receipt \in {"success", "reverted"}
  /\ Continue([health EXCEPT !.actionsPosted = (@ + 1) % CounterMod])
  /\ UNCHANGED <<vars, mempool, faults>>

\* A transaction that was lost has no receipt: the wait times out.
ReceiptLost ==
  /\ At("receipt") /\ svc.receipt = "pending"
  /\ \A i \in DOMAIN mempool : ~mempool[i].watched
  /\ Continue(health)
  /\ UNCHANGED <<vars, mempool, faults>>

TickStep ==
  \/ LoopStart \/ ReadGuardCount \/ ReadSigner \/ ReadGuardPolicy
  \/ \E h \in Handlers : CallTee(h) \/ TeeReply(h) \/ TeeError(h)
  \/ Recheck \/ Submit \/ SubmitRefused \/ Receipt \/ ReceiptLost

-----------------------------------------------------------------------------
(* What goes wrong.                                                         *)

\* Mutant: a receipt of any earlier transaction of the relayer is accepted.
StillWatched == mempool

\* No transaction is awaited any more.
Unwatched == [i \in DOMAIN mempool |-> [mempool[i] EXCEPT !.watched = FALSE]]

\* guardCount, guardianSigner or the recheck fails four times: the tick throws.
ReadFails ==
  /\ svc.pc \in {"count", "signer", "recheck"}
  /\ SpendFault /\ AbortTick
  /\ UNCHANGED <<vars, mempool>>

\* guards(id) fails four times, or writeContract throws: this guard is skipped.
GuardSkipped ==
  /\ svc.pc \in {"guard", "post"}
  /\ SpendFault /\ Continue(health)
  /\ UNCHANGED <<vars, mempool>>

\* teeCheck aborts after 15 seconds; the enclave's handler runs on.
TeeTimeout ==
  /\ At("await")
  /\ SpendFault /\ Continue([health EXCEPT !.teeReachable = FALSE])
  /\ UNCHANGED <<vars, mempool>>

\* No receipt in four times 60 seconds: the transaction stays pending.
ReceiptTimeout ==
  /\ At("receipt") /\ svc.receipt = "pending"
  /\ SpendFault /\ Continue(health)
  /\ mempool' = Unwatched
  /\ UNCHANGED vars

\* The process dies and systemd starts it again: memory is lost, the enclave's
\* handler and the pending transactions are not.
ServiceCrash ==
  /\ SpendFault
  /\ svc' = Asleep /\ health' = InitHealth /\ mempool' = Unwatched
  /\ UNCHANGED vars

HandlerFault(h) ==
  /\ SpendFault /\ Fail(h) /\ handlers[h].pc # "sign"
  /\ UNCHANGED <<svc, health, mempool>>

EnclaveFault(key) ==
  /\ SpendFault /\ EnclaveRestart(key)
  /\ UNCHANGED <<svc, health, mempool>>

\* A pending transaction is lost.  Those with later account nonces are not
\* mined before another one has taken its place.
TransactionDropped(i) ==
  /\ ~mempool[i].lost
  /\ SpendFault
  /\ mempool' = [mempool EXCEPT ![i].lost = TRUE, ![i].watched = FALSE]
  /\ UNCHANGED <<vars, svc, health>>

FaultStep ==
  \/ ReadFails \/ GuardSkipped \/ TeeTimeout \/ ReceiptTimeout \/ ServiceCrash
  \/ (\E h \in Handlers : HandlerFault(h))
  \/ (\E key \in Keys \cup {NoKey} : EnclaveFault(key))
  \/ (\E i \in DOMAIN mempool : TransactionDropped(i))

-----------------------------------------------------------------------------
(* The enclave and the chain.                                               *)

\* A handler moves on by itself; it answers only through TeeReply when the
\* service still waits for it.
EnclaveStep(h) ==
  /\ \/ ReadVaultHealth(h) \/ ReadGuard(h) \/ RecordCheck(h) \/ SignAction(h)
     \/ (Fail(h) /\ handlers[h].pc = "sign")
     \/ (Respond(h) /\ svc.slot # {h})
  /\ UNCHANGED serviceVars

\* The transaction with the next account nonce is mined: it takes effect or
\* reverts.
Mine ==
  /\ mempool # <<>> /\ ~Head(mempool).lost
  /\ LET tx == Head(mempool) IN
       /\ IF WouldRevert(tx)
          THEN UNCHANGED vars
          ELSE Relay(tx.sig, tx.guardId, tx.sig.digest[3], SignedAmount(tx.sig),
                     SignedNonce(tx.sig))
       /\ svc' = IF tx.watched
                 THEN [svc EXCEPT !.receipt =
                         IF WouldRevert(tx) THEN "reverted" ELSE "success"]
                 ELSE svc
  /\ mempool' = Tail(mempool)
  /\ UNCHANGED <<health, faults>>

\* Somebody else's request, for any vault and any guard.
OtherCaller(h, v, guardId) ==
  /\ svc.slot # {h}
  /\ Arrive(h, v, guardId)
  /\ UNCHANGED serviceVars

\* Owners, prices, and anybody who submits a signature or asks the guard.
WorldStep ==
  \/ /\ \/ OwnerStep \/ RelayStep \/ UnrecoverableStep
        \/ \E v \in Vaults, pair \in FactorPairs : FactorsChange(v, pair)
     /\ UNCHANGED serviceVars
  \/ \E h \in OtherSlots, v \in Vaults, guardId \in 1 .. guardCount + 1 :
       OtherCaller(h, v, guardId)

ServiceNext ==
  \/ TickStep \/ FaultStep \/ Mine \/ WorldStep
  \/ \E h \in Handlers : EnclaveStep(h)

ServiceSpec == ServiceInit /\ [][ServiceNext]_allVars
(* Fairness: the service process is scheduled and its awaits return, a       *)
(* running handler is not suspended for ever, and pending transactions are    *)
(* mined.  Nothing is assumed of owners, prices or faults.                    *)
Fairness ==
  /\ WF_allVars(TickStep)
  /\ \A h \in Handlers : WF_allVars(EnclaveStep(h))
  /\ WF_allVars(Mine)

FairServiceSpec == ServiceSpec /\ Fairness

-----------------------------------------------------------------------------
(* Properties                                                               *)

\* Every variable of the service holds a value of its type, and a tick never
\* looks past the guards there were when it began.
ServiceTypeOK ==
  /\ TeeTypeOK
  /\ svc \in [pc : {"sleep", "count", "signer", "guard", "check", "await",
                    "recheck", "post", "receipt"},
              n : Nat, signer : Keys \cup {ZeroAddress}, id : Nat,
              agentVault : Vaults \cup {ZeroAddress}, slot : SUBSET Handlers,
              signed : SUBSET Signature,
              receipt : {"none", "pending", "success", "reverted"}]
  /\ svc.id <= svc.n /\ svc.n <= guardCount
  /\ health \in [lastLoop : BOOLEAN, lastError : BOOLEAN, teeReachable : BOOLEAN,
                 actionsPosted : 0 .. CounterMod - 1,
                 checksPerformed : 0 .. CounterMod - 1]
  /\ mempool \in Seq([guardId : Nat, sig : Signature, watched : BOOLEAN,
                     lost : BOOLEAN])
  /\ faults \in 0 .. MaxFaults

\* checkVaultJSON does not compare the vault it is asked about with the guard's,
\* and anybody may ask; the service makes up for it: the check it waits for
\* reads the factors of the very vault its guard protects, and what it signs
\* with and has submitted, also for ticks that timed out or crashed, is for
\* the guard it names.
OwnVaultChecked ==
  /\ \A h \in svc.slot :
       handlers[h].pc # "idle" =>
         /\ handlers[h].guardId = svc.id /\ svc.id \in GuardIds
         /\ handlers[h].agentVault = guards[svc.id].agentVault
  /\ \A sig \in svc.signed : SignedGuardId(sig) = svc.id
  /\ \A i \in DOMAIN mempool : SignedGuardId(mempool[i].sig) = mempool[i].guardId

\* Whether a ledger has a row with this nonce.
Recorded(id, nonce) == \E i \in 1 .. Len(actions[id]) : actions[id][i].nonce = nonce

\* A success receipt means that the signed action is on the ledger: the service
\* never takes an older transaction's receipt for its own, whatever timed out
\* before.
ReceiptMeansRow ==
  At("receipt") /\ svc.receipt = "success" =>
    \A sig \in svc.signed : \E i \in 1 .. Len(actions[svc.id]) :
      /\ actions[svc.id][i].nonce = SignedNonce(sig)
      /\ actions[svc.id][i].amount = SignedAmount(sig)

\* Retries are harmless: a transaction of the service, however old, is for the
\* guard's next row or its row is on the ledger already, so that resubmitting
\* after a timeout, a crash or a drop can neither skip a row nor add one twice.
RetriesHarmless ==
  \A i \in DOMAIN mempool :
    LET tx == mempool[i] IN
      \/ SignedNonce(tx.sig) = GuardAt(tx.guardId).lastActionNonce + 1
      \/ Recorded(tx.guardId, SignedNonce(tx.sig))

\* What a guard needs for the loop to work: it is active, its vault is
\* liquidatable, and the enclave signs with the registered key.
Defensible(id) ==
  /\ id \in GuardIds
  /\ guards[id].active /\ ~paused
  /\ enclaveKey = guardianSigner
  /\ Liquidatable(factors[guards[id].agentVault])

\* With finitely many faults, a guard that stays defensible gets one row after
\* another, until its uint64 nonces run out: no skipped guard, aborted tick,
\* lost reply or stale nonce starves it, nor does another guard's trouble.
DefenceRecorded ==
  \A v \in Vaults :
    <>[](guardIdOfVault[v] # 0 /\ Defensible(guardIdOfVault[v]))
      => <>(guardIdOfVault[v] # 0 /\ guards[guardIdOfVault[v]].lastActionNonce = MaxUint64)

\* What GET /health answers 200 to.
HealthOk == health.lastLoop /\ ~health.lastError

\* With finitely many faults GET /health is 200 from some moment on: a tick
\* that completes clears the error of the tick that did not.
HealthRecovers == <>[]HealthOk

\* CHECKLIST.md G3: "retry-safe (no double-post on RPC timeout)".  No two
\* pending transactions of the service carry the same action.
NoDoublePost ==
  \A i, j \in DOMAIN mempool :
    (i # j /\ ~mempool[i].lost /\ ~mempool[j].lost)
      => mempool[i].sig.digest # mempool[j].sig.digest
=============================================================================
