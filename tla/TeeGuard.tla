------------------------------ MODULE TeeGuard ------------------------------
(***************************************************************************)
(* The CHECK_VAULT guard of tee/go/internal/extension, next to the registry*)
(* it reads and to the AssetManager.  net/http runs every request in a     *)
(* goroutine of its own, so several handlers are in flight at once; each   *)
(* one reads the chain in separate eth_calls, and the chain moves between  *)
(* them.  Who calls the guard and who submits to the registry is left open *)
(* here: any request may arrive at any time, any signature ever returned   *)
(* may be submitted with any arguments, late, twice or never, and so may   *)
(* one that nobody made.  Only enclaves hold the private keys of Keys.     *)
(***************************************************************************)
EXTENDS GuardianRegistry, FiniteSets

CONSTANTS
  Handlers,        \* request slots: the number of checks in flight at once
  FactorPairs,     \* liquidation factors (vault, pool) the AssetManager reports
  NoKey,           \* GUARDIAN_KEY missing or unparsable
  EnclaveChainId,  \* CHAIN_ID of the enclave, 114 when unset
  CounterMod,      \* the counters of GET /state count modulo this (2^64 in Go)
  MaxChecks        \* bound on checksPerformed

ASSUME TeeAssumption ==
  /\ FactorPairs \subseteq [vault : Nat, pool : Nat]
  /\ NoKey \notin Keys
  /\ EnclaveChainId \in ChainIds
  /\ CounterMod \in Nat \ {0}
  /\ MaxChecks \in Nat
  /\ ACTION_VAULT_TOP_UP \in ActionTypes

VARIABLES
  factors,       \* AssetManager: the liquidation factors of every vault
  enclaveKey,    \* GUARDIAN_KEY of the running enclave
  handlers,      \* the in-flight requests: program counter and locals
  state,         \* what GET /state shows, guarded by Extension.mu
  issued,        \* every signature the enclave has returned to a caller
  offers,        \* history: the amounts offered since a guard's last row
  unsigned       \* history: a guard's rows from before setGuardianSigner

teeVars == <<factors, enclaveKey, handlers, state, issued>>
vars == <<registryVars, teeVars, offers, unsigned>>

NoFactors == [vault |-> 0, pool |-> 0]

Signature ==
  [signer : Keys, form : {"lowS"},
   digest : {EnclaveChainId} \X (Nat \ {0}) \X {ACTION_VAULT_TOP_UP}
              \X Amounts \X NonceInputs]

Phases == {"idle", "health", "policy", "record", "sign", "respond"}

Handler ==
  [pc : Phases, agentVault : Vaults \cup {ZeroAddress}, guardId : Nat,
   health : FactorPairs \cup {NoFactors}, policy : Guard \cup {NoGuard},
   signed : SUBSET Signature]

IdleHandler ==
  [pc |-> "idle", agentVault |-> ZeroAddress, guardId |-> 0,
   health |-> NoFactors, policy |-> NoGuard, signed |-> {}]

\* lastCheckVault and lastDecision are written with checksPerformed, in the
\* same critical section, and read by nobody but GET /state: left out.
InitState == [checksPerformed |-> 0, actionsSigned |-> 0]

-----------------------------------------------------------------------------
(* The pure parts of checkVaultJSON.                                        *)

\* Mutant: the low 64 bits of the factor are used.
TruncateUint64(n) == n % (MaxUint64 + 1)

\* strconv.ParseUint(s, 10, 64) with its error ignored: out of range saturates.
ParseUint64(n) == IF n > MaxUint64 THEN MaxUint64 ELSE n

Decision(health) ==
  IF ParseUint64(health.vault) > 0 \/ ParseUint64(health.pool) > 0
  THEN "TOP_UP_REQUIRED" ELSE "WATCH"

\* VaultHealth.Liquidatable, computed on the big integers themselves.
Liquidatable(health) == health.vault > 0 \/ health.pool > 0

\* Mutants: an unbounded successor, and one that is off by one.
NextNonceUnbounded(n) == n + 1
NextNonceSkipping(n) == (n + 2) % (MaxUint64 + 1)

\* guard.LastActionNonce + 1 in uint64 arithmetic.
NextNonce(n) == (n + 1) % (MaxUint64 + 1)

\* crypto.Sign returns a 65-byte low-s signature over the registry's digest.
SignTopUpAction(key, guardId, amount, nonce) ==
  [signer |-> key, form |-> "lowS",
   digest |-> Digest(EnclaveChainId, guardId, ACTION_VAULT_TOP_UP, amount, nonce)]

-----------------------------------------------------------------------------
(* The history variables: what a guard offers now, and how a step of the    *)
(* registry changes what it has offered since its last row, and how many    *)
(* rows it had while no signer was registered.                              *)
CurrentOffer(guard) == IF guard.active THEN {guard.topUpAmountWei} ELSE {}

UpdateOffers ==
  offers' = [id \in 1 .. guardCount' |->
               (IF id \in GuardIds /\ actions'[id] = actions[id]
                THEN offers[id] ELSE {}) \cup CurrentOffer(guards'[id])]

UpdateUnsigned ==
  unsigned' = [id \in 1 .. guardCount' |->
                 CASE guardianSigner = ZeroAddress -> Len(actions'[id])
                   [] guardianSigner # ZeroAddress /\ id \in GuardIds -> unsigned[id]
                   [] OTHER -> 0]

UpdateHistory == UpdateOffers /\ UpdateUnsigned

TeeInit ==
  /\ RegistryInit
  /\ factors \in [Vaults -> FactorPairs]
  /\ enclaveKey \in Keys \cup {NoKey}
  /\ handlers = [h \in Handlers |-> IdleHandler]
  /\ state = InitState
  /\ issued = {}
  /\ offers = <<>>
  /\ unsigned = <<>>

-----------------------------------------------------------------------------
(* One CHECK_VAULT request, from POST /guard/check or POST /action.         *)

\* A request with a valid address starts; any other is answered with an error.
Arrive(h, vault, guardId) ==
  /\ handlers[h].pc = "idle"
  /\ handlers' = [handlers EXCEPT ![h] =
       [IdleHandler EXCEPT !.pc = "health", !.agentVault = vault,
                           !.guardId = guardId]]
  /\ UNCHANGED <<registryVars, factors, enclaveKey, state, issued, offers, unsigned>>

\* The liquidation factors at the latest block.  The collateral and the price
\* are read after them; they can fail (Fail) but decide nothing.
ReadVaultHealth(h) ==
  /\ handlers[h].pc = "health"
  /\ handlers' = [handlers EXCEPT ![h].pc = "policy",
                                  ![h].health = factors[handlers[h].agentVault]]
  /\ UNCHANGED <<registryVars, factors, enclaveKey, state, issued, offers, unsigned>>

\* The whole guard in one eth_call, zero when the id is not registered.
ReadGuard(h) ==
  /\ handlers[h].pc = "policy"
  /\ handlers' = [handlers EXCEPT ![h].pc = "record",
                                  ![h].policy = GuardAt(handlers[h].guardId)]
  /\ UNCHANGED <<registryVars, factors, enclaveKey, state, issued, offers, unsigned>>

\* Mutant: the active flag is not looked at.
RecordCheckAnyGuard(h) ==
  /\ handlers[h].pc = "record"
  /\ state.checksPerformed < MaxChecks
  /\ state' = [state EXCEPT !.checksPerformed = (@ + 1) % CounterMod]
  /\ handlers' = [handlers EXCEPT ![h].pc =
       IF Decision(handlers[h].health) = "TOP_UP_REQUIRED" THEN "sign" ELSE "respond"]
  /\ UNCHANGED <<registryVars, factors, enclaveKey, issued, offers, unsigned>>

\* First critical section of mu.
RecordCheck(h) ==
  /\ handlers[h].pc = "record"
  /\ state.checksPerformed < MaxChecks
  /\ state' = [state EXCEPT !.checksPerformed = (@ + 1) % CounterMod]
  /\ handlers' = [handlers EXCEPT ![h].pc =
       IF Decision(handlers[h].health) = "TOP_UP_REQUIRED" /\ handlers[h].policy.active
       THEN "sign" ELSE "respond"]
  /\ UNCHANGED <<registryVars, factors, enclaveKey, issued, offers, unsigned>>

\* Signing and the second critical section; the signature is still private.
SignAction(h) ==
  /\ handlers[h].pc = "sign"
  /\ enclaveKey # NoKey
  /\ LET policy == handlers[h].policy IN
       handlers' = [handlers EXCEPT
         ![h].pc = "respond",
         ![h].signed = {SignTopUpAction(enclaveKey, handlers[h].guardId,
                          policy.topUpAmountWei,
                          NextNonce(policy.lastActionNonce))}]
  /\ state' = [state EXCEPT !.actionsSigned = (@ + 1) % CounterMod]
  /\ UNCHANGED <<registryVars, factors, enclaveKey, issued, offers, unsigned>>

\* The response leaves the enclave, whether or not the caller still listens.
Respond(h) ==
  /\ handlers[h].pc = "respond"
  /\ issued' = issued \cup handlers[h].signed
  /\ handlers' = [handlers EXCEPT ![h] = IdleHandler]
  /\ UNCHANGED <<registryVars, factors, enclaveKey, state, offers, unsigned>>

\* An eth_call fails, or there is no usable key: an error response.
Fail(h) ==
  /\ \/ handlers[h].pc \in {"health", "policy"}
     \/ handlers[h].pc = "sign" /\ enclaveKey = NoKey
  /\ handlers' = [handlers EXCEPT ![h] = IdleHandler]
  /\ UNCHANGED <<registryVars, factors, enclaveKey, state, issued, offers, unsigned>>

\* The enclave stops and starts again, perhaps with another key: everything in
\* memory is lost, signatures already returned are not.
EnclaveRestart(key) ==
  /\ enclaveKey' = key
  /\ handlers' = [h \in Handlers |-> IdleHandler]
  /\ state' = InitState
  /\ UNCHANGED <<registryVars, factors, issued, offers, unsigned>>

-----------------------------------------------------------------------------
(* The rest of the world.                                                   *)

\* Prices and balances move: the AssetManager reports other factors.
FactorsChange(v, pair) ==
  /\ factors' = [factors EXCEPT ![v] = pair]
  /\ UNCHANGED <<registryVars, enclaveKey, handlers, state, issued, offers, unsigned>>

\* A transaction of the registry's owner or of a vault's owner is mined.
OwnerStep ==
  /\ OwnerNext
  /\ UpdateHistory
  /\ UNCHANGED teeVars

\* Somebody submits a returned signature, with the signed arguments or others.
Relay(sig, id, actionType, amount, nonce) ==
  /\ sig \in issued
  /\ PostAction(id, actionType, amount, nonce, sig)
  /\ UpdateHistory
  /\ UNCHANGED teeVars

\* Somebody submits a well-formed signature that no key has made: ecrecover
\* returns address(0), which is what guardianSigner is until it is set.
PostUnrecoverable(id, actionType, amount, nonce) ==
  /\ PostAction(id, actionType, amount, nonce,
       [signer |-> ZeroAddress, form |-> "lowS",
        digest |-> Digest(ChainId, id, actionType, amount, nonce)])
  /\ UpdateHistory
  /\ UNCHANGED teeVars

RelayStep ==
  \E sig \in issued, id \in GuardIds, actionType \in ActionTypes,
     amount \in Amounts, nonce \in NonceInputs :
    Relay(sig, id, actionType, amount, nonce)

UnrecoverableStep ==
  \E id \in GuardIds, actionType \in ActionTypes, amount \in Amounts, nonce \in NonceInputs :
    PostUnrecoverable(id, actionType, amount, nonce)

HandlerStep(h) ==
  \/ ReadVaultHealth(h) \/ ReadGuard(h) \/ RecordCheck(h)
  \/ SignAction(h) \/ Respond(h) \/ Fail(h)

TeeNext ==
  \/ OwnerStep \/ RelayStep \/ UnrecoverableStep
  \/ \E h \in Handlers, v \in Vaults, guardId \in 1 .. guardCount + 1 :
       Arrive(h, v, guardId)
  \/ \E h \in Handlers : HandlerStep(h)
  \/ \E key \in Keys \cup {NoKey} : EnclaveRestart(key)
  \/ \E v \in Vaults, pair \in FactorPairs : FactorsChange(v, pair)

TeeSpec == TeeInit /\ [][TeeNext]_vars
-----------------------------------------------------------------------------
(* Properties                                                               *)

\* Every variable of the enclave holds a value of its Go type, and a handler's
\* locals are set exactly when its program counter says they are.
TeeTypeOK ==
  /\ RegistryTypeOK
  /\ factors \in [Vaults -> FactorPairs]
  /\ enclaveKey \in Keys \cup {NoKey}
  /\ handlers \in [Handlers -> Handler]
  /\ \A h \in Handlers :
       handlers[h].pc # "idle" => handlers[h].agentVault \in Vaults
  /\ state \in [checksPerformed : 0 .. CounterMod - 1,
                actionsSigned : 0 .. CounterMod - 1]
  /\ issued \subseteq Signature
  /\ offers \in Seq(SUBSET Amounts) /\ Len(offers) = guardCount
  /\ unsigned \in Seq(Nat) /\ Len(unsigned) = guardCount

SignedGuardId(sig) == sig.digest[2]
SignedAmount(sig) == sig.digest[4]
SignedNonce(sig) == sig.digest[5]

\* Signatures that exist: returned to a caller, or made and not yet returned.
Outstanding == issued \cup UNION {handlers[h].signed : h \in Handlers}

\* From setGuardianSigner on a guard's ledger is numbered consecutively, and 1,
\* 2, 3, ... if the guard was registered after it: although postAction accepts
\* any higher nonce, concurrent checks, late, lost or repeated submissions, key
\* rotations and enclave restarts never make the ledger skip a number.  Rows
\* from before, when anybody could add them, are excepted.
GapFree ==
  \A id \in GuardIds : \A i \in 1 .. Len(actions[id]) :
    i > unsigned[id] =>
      actions[id][i].nonce = (IF i = 1 THEN 0 ELSE actions[id][i - 1].nonce) + 1

\* Why: a signature can be ahead of its guard's ledger by one row at most, and
\* one that is ahead carries an amount offered since the last row, however
\* long ago the handler read the policy it signed.
SignaturesCurrent ==
  \A sig \in Outstanding :
    LET id == SignedGuardId(sig) IN
      /\ id \in GuardIds
      /\ SignedNonce(sig) <= guards[id].lastActionNonce + 1
      /\ SignedNonce(sig) = guards[id].lastActionNonce + 1
           => SignedAmount(sig) \in offers[id]

Promise ==
  INSTANCE GuardianPromise WITH Rows <- Action, TopUp <- ACTION_VAULT_TOP_UP,
                                log <- actions, offered <- offers,
                                commissioned <- guardianSigner # ZeroAddress

\* Enclave and registry together implement the promise to the agent: once a
\* signer is registered, ledgers grow without a gap by top-ups, each of an
\* amount the active guard's policy committed to at some moment since the row
\* before.
KeepsPromise == Promise!Spec

\* postAction: "Only the enclave key.  The signature binds (chainId, guardId,
\* actionType, amount, nonce) so the record cannot be forged or replayed."
\* Every row of a ledger is one that the enclave has signed.
RowsSigned ==
  \A id \in GuardIds : \A i \in 1 .. Len(actions[id]) :
    LET row == actions[id][i] IN
      \E sig \in issued :
        sig.digest = Digest(ChainId, id, row.actionType, row.amount, row.nonce)

\* The decision agrees with the manager's liquidatable flag for factors of
\* every width: a handler signs if and only if the factors it read were
\* non-zero and the policy it read was active.
DangerDecides ==
  \A h \in Handlers :
    handlers[h].pc \in {"sign", "respond"} =>
      ((handlers[h].pc = "sign" \/ handlers[h].signed # {})
         <=> (Liquidatable(handlers[h].health) /\ handlers[h].policy.active))

\* GET /state never shows more signed actions than checks: every signature, the
\* ones still being made included, was counted as a check first.
SignedAreCounted ==
  state.actionsSigned + Cardinality({h \in Handlers : handlers[h].pc = "sign"})
    <= state.checksPerformed
=============================================================================
