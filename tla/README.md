# PRAESIDIO: a TLA+ model of the vault guardian

PRAESIDIO watches FAssets agent vaults on Flare. A contract holds each vault's
defence policy and an audit ledger; a guard inside a TEE reads the chain,
decides and signs; an always-on service asks the guard and relays what it
signs. Command-line tools set up the extension the guard runs as, verify the
deployment and register the enclave's machine; two more servers implement the
extension framework in TypeScript and Python. This directory models those
parts, composes the ones that interact, checks them with TLC and proves every
safety property that the passing runs check with TLAPS.

## 1. Inventory

| Part | State | Operations | Hard because |
|---|---|---|---|
| `GuardianRegistry.sol` | owner, `guardianSigner`, `paused`, `guardCount`, `guards`, `guardIdOfVault`, `_actions` | `setGuardianSigner`, `setPaused`, `registerAgentVault`, `setPolicy`, `setGuardActive`, `postAction` | anybody may call `postAction` with any signature, in any order; any higher nonce is accepted |
| TEE guard (`tee/go/internal/extension`) | `GUARDIAN_KEY`, the counters behind `mu`, the locals of every running handler | `POST /guard/check`, `POST /action`, `GET /state` | anybody may call it for any vault and guard; one goroutine per request, several `eth_call`s per check, the mutex only around counters, restarts |
| Guardian service (`backend/service.mjs`) | the locals of `tick()`, the `health` object; pending transactions outside of it | `loop`, `tick`, `teeCheck`, `withRetry`, `GET /health` | every `await` lets the chain and the enclave move; timeouts leave a handler or a transaction behind; crash and restart |
| Relayer command (`backend/relayer.mjs`) | none | submits one signature | arguments come from the environment |
| AssetManager, FTSO (external) | liquidation factors, vault owners | read by the registry and the guard | move at any time |
| TEE registration (`tee/tools/pkg/fccutils/registration.go`) | a state file, the locals of a run; machines, challenges and checks on the chain | `RegisterNode`: steps `r`, `R`, `a`, `p`; `-resume` | crashes between a transaction and the save, one-shot challenges, transactions that outlive the tool |
| Extension framework (`tee/typescript`, `tee/python`) | handler table, promise queue or lock, the handlers' counters and texts | `POST /action` with dispatch, `GET /state` | handlers suspend or run in threads; one that throws; process exit and restart |
| Extension set-up (`pre-build.sh`, `deploy-contract`, `register-extension`, `InstructionSender.sol`) | `extension.env`, the cached extension id; the extension registry outside of it | deploy, register, three grants, write the file; `setExtensionId` | any of the transactions may fail, be lost or be mined late; a registration is never refused; anybody may repeat one |
| Deployment validation (`tee/tools/pkg/validate`, `verify-deploy`) | a report | six groups of checks, `--checks`, the exit code | reads the file and the registry several times while both change; early returns and skips |
| Instruction test (`run-test`) | its locals | `setExtensionId`, two instructions, polling | the answer is late, pending or an error |
| Enclave start-up, shell scripts, web console, monitor | presentation, process start | reads | little logic of their own |

The parts interact as follows. The service reads `guardCount`,
`guardianSigner` and `guards(id)` from the registry, posts
`{agentVault, guardId}` to the guard, and sends `postAction` transactions that
the chain mines later. The guard reads the AssetManager and `guards(id)`
itself and shares nothing with the service but its replies. The registry
trusts only the signature. The set-up tools, `verify-deploy` and `run-test`
share `extension.env` and the extension registry; `run-test` also talks to the
extension through the chain. What makes each part correct:

* registry: an append-only ledger per guard with increasing nonces, an exact
  vault index, identities that never change, a pause that freezes;
* guard: it signs exactly when the factors are non-zero and the guard active,
  and never a nonce more than one ahead of the ledger;
* registry and guard: once a signer is registered, gap-free ledgers of top-ups
  whose amounts the active policy committed to since the last row;
* service: it asks about the right vault, takes no other transaction's receipt
  for its own, resubmits nothing that could skip a row or add one twice, and
  keeps on defending as long as faults are finite;
* registration tool: its file lists no step that did not happen, a run names
  the newest challenge and check, and running it again in the end promotes the
  machine;
* extension framework: concurrent requests take effect one at a time, and what
  one of them does wrong does not cost the others;
* extension set-up and validation: `extension.env` names an extension that is
  completely set up, a contract never changes its extension, and what
  `verify-deploy` vouches for is so, however the set-up moved meanwhile.

`PROJECT.json` lists every hazard with the line where it bites.

## 2. Modules

| Module | Models |
|---|---|
| `AuditLedger` | abstract: what a reader of `getActions()` relies on |
| `GuardianRegistry` | the contract, one action per function; refines `AuditLedger` |
| `GuardianPromise` | abstract: what guard and registry promise an agent |
| `TeeGuard` | the guard's handlers next to the registry; refines `GuardianPromise` |
| `GuardianService` | the service, the pending transactions and the faults, composed with `TeeGuard` |
| `TeeRegistration` | `register-tee`: runs of the tool, its state file, the machine contracts and the FTDC proxy |
| `ExtensionSetup` | the set-up tools, `extension.env`, the extension registry and `InstructionSender` |
| `DeployChecks` | the verdict of every check of `verify-deploy`, as functions of what it reads |
| `DeployVerification` | `verify-deploy` running next to `ExtensionSetup` |
| `GreetingApp` | the sample application's handlers and the routing to them, as functions |
| `SequentialServer` | abstract: the concurrency the extension contract promises |
| `ExtensionFramework` | the TypeScript and the Python server, and `run-test`; refines `SequentialServer` |
| `GuardianRegistryProofs`, `TeeGuardProofs`, `GuardianServiceProofs`, `TeeRegistrationProofs`, `ExtensionFrameworkProofs`, `ExtensionSetupProofs`, `DeployVerificationProofs` | theorems |
| `MCGuardianRegistry`, `MCTeeGuard`, `MCGuardianService`, `MCTeeRegistration`, `MCDeployVerification`, `MCExtensionFramework` | constants for TLC, bounds and the initial state after set-up |

### GuardianRegistry

The variables are the contract's storage. `guards` and `actions` are sequences
because ids are `++guardCount`; `GuardAt(id)` is the public getter, which
returns zeroes for an unknown id. A transaction is atomic, so every function
is one action: the guard of the action is the conjunction of the function's
`revert` conditions, a reverting call is no step. Digests are the tuples that
are hashed (`keccak256` is taken to be collision free). A signature is its
signer, its digest and its encoding; `Recover` yields the signer for the
digest that was signed and some other address for any other. `ecrecover`
returning `address(0)` is the signer `ZeroAddress`. Timestamps, events and the
unused `_nonceUsed` mapping are left out.

Until `setGuardianSigner` is called `guardianSigner` is `address(0)` as well, so
`postAction` accepts what `ecrecover` cannot recover. The model has that case
everywhere (`PostNext` here, `PostUnrecoverable` in `TeeGuard` and
`GuardianService`), and the run `unset_signer` reports it. `AuditLedger` holds
regardless; what the enclave adds to it holds from `setGuardianSigner` on.

### TeeGuard

`handlers` holds the running requests: a program counter and the locals of
`checkVaultJSON`. A request goes through `Arrive`, `ReadVaultHealth`,
`ReadGuard`, `RecordCheck` (decision and first critical section), `SignAction`
(signing and second critical section) and `Respond`; between any two of them
other handlers, the owners, prices and relayed signatures move. `Fail` is an
error response, `EnclaveRestart` loses everything in memory and may bring
another `GUARDIAN_KEY`. `POST /guard/check` and `POST /action` share the logic
and differ in their envelopes, which are left out. `ParseUint64` models
`strconv.ParseUint` with its error ignored (saturation), `NextNonce` the wrap
of `uint64`. `issued` is every signature ever returned; `Relay` lets anybody
submit any of them with any arguments, and `PostUnrecoverable` a signature that
nobody made. There are two history variables: `offers`, the amounts that were
the active guard's policy at some moment since the guard's last row, and
`unsigned`, how many rows a guard got while no signer was registered.
`GapFree` speaks of the rows behind those, each of which follows on the row
before it, an unsigned one included. `GuardianPromise` has a variable
`commissioned` for the same purpose: it maps to `guardianSigner # ZeroAddress`,
and before it is set rows need no more than an increasing nonce.

### GuardianService

`svc` is the tick: program counter, the locals that live across an `await`,
and the handler it waits for. Every step ends at an `await` of `tick()`.
`Continue` is the end of an iteration or of the tick, `AbortTick` the catch in
`loop()`. `mempool` holds the relayer's transactions by account
nonce, from the next one to be mined; `watched` marks the one whose receipt is
awaited. A dropped transaction leaves its account nonce unused (`lost`): those
behind it are stuck until another transaction has filled the gap (`Broadcast`).
Faults are explicit actions: a read that fails all four attempts, a skipped
guard, the 15-second abort of `teeCheck` (the handler runs on), a receipt
timeout (the transaction stays pending), a crash of the service or the enclave,
a dropped transaction.

The service is not alone. `OtherCaller` is a request of somebody else to the
guard's open routes, for any vault and any guard, in one of `OtherSlots`;
returned signatures, whoever asked for them, may be submitted by anybody
(`RelayStep`), and so may unrecoverable ones. Neither disturbs what
`OwnVaultChecked` and `RetriesHarmless` say of the service.

### TeeRegistration

`run` is the running tool: the step it is in, its flags, the ids it holds in
locals, and the receipt it waits for. A step of `RegisterNode` is two actions,
because a transaction may be mined after the tool has gone: one sends it
(`PreRegistration`, `RequestTeeAttestation`, `RequestFTDCAvailabilityCheck`,
`ToProduction`) and one notes the id of its receipt and saves the state
(`PreRegistered`, `Attested`, `CheckRequested`, `Done`). `PassOver` and
`SkipCompleted` are the two `strings.Contains` tests. `file` is the state
file; a save may fail, which is a warning, and both a failed save and a crash
during `os.WriteFile` may leave a file that does not parse. `Invoke` is `main`:
without `-resume` the file is removed first. An instruction id is the position
of the request in `attests` or `checks`, and 0 is the zero hash.

The contracts and the proxy are not part of the repository. The model gives
them what the tool's comments rely on: a machine registers once; a challenge
belongs to one machine, expires, and is used up by one availability check; the
FTDC proxy answers a check while its signing policy is in sync with the reward
epoch and the enclave that holds the machine's key is running; a relaunched
enclave has another id. A transaction that would revert when it is sent is
refused by the gas estimation; one that reverts only when it is mined is
caught by `CheckTx`.

### ExtensionSetup

An operator runs one command at a time under a key of its own: `pre-build.sh`
(`StartPreBuild`, `DeployInstructionSender`, the four transactions of
`SetupExtension`, `WriteConfig`) or `register-extension` by hand for a sender
that exists (`StartRegister`). `AfterCall` is the order of the transactions.
The grants ask the allowlist first and skip what is already there, which has
the same effect as granting again. `Die` ends a command at any point: its
transaction is lost or goes to `late`, from where `LateMined` applies it after
the tool has gone; `TornWrite` leaves a prefix of `extension.env`;
`EditConfig` is the operator who follows R2's advice to update the file by
hand. `SetExtensionId` is the contract's loop with its cached result, and
`run-test`'s habit of taking "already set" for success.

Ids are positions in the registry (the contract's public ids start higher,
which nothing here depends on); 0 is "none" and `Malformed` a value that the
regular expressions reject. The registry and the allowlist are external and get
the effects the tools rely on. That a registration is always accepted, also for
a sender that has an extension, is what R7 exists for.

### DeployChecks and DeployVerification

`DeployChecks` gives each group of checks as a function from what it has read
to a report, that is, a function from results to PASS, WARN, FAIL or SKIP
(`CheckId` gives the id that `--checks` filters on, which two results may
share); a check that is left out is not in the domain, and `With` adds results as
`Report.Add` does. `DeployVerification` runs them as
the tool does: the file is read once per group, the registration group queries
the registry once per check (`CheckR1` to `CheckR7`), and the set-up goes on in
between. The groups that need no chain are one step each: where they stat the
file and then read it, nothing happens in between. `quiet` and `answered` are
history variables that say under which conditions a verdict can be relied on.
`InvocationsAssumption` is `main` turning down a `-step` it does not know.

### ExtensionFramework

Both servers share one state machine and differ where the code does: in
`Serialize`, `MayRun`, `lock` and in what `Throw` does. A request arrives, waits
for its turn, runs in two steps when it changes the state (`Begin`, `Finish`)
and in one otherwise (`RunAtOnce`), and is answered after the next one has been
let in (`Respond`). In TypeScript `after[r]` is the promise that `serialize()`
chained `r` to. `Throw` is a handler that raises, `LookupThrows` an `opType` that
is no string, on which `normalize` raises before the request is queued. Python
loses that connection; node is `doomed` and exits (`UnhandledRejection`) once no
queued microtask is left: requests that need nothing else are still answered
(`Queued`), those that are suspended, or wait for one that is, are lost. The
container ends with either of its processes (`NodeDies`) and is restarted with
fresh counters. `Committed` maps the state to that of `SequentialServer`: a
handler that is half through has not happened. `SendInstruction` and
`PollResult` are `run-test`, a client that sends its second instruction after
the first one was answered.

## 3. Runs

| Run | Shows |
|---|---|
| `registry` | `VaultIndex`, `NonceIsTail`, `PauseFreezes`, `IdentityImmutable` and the refinement `ImplementsLedger`, against signatures by any key, in any encoding, for any chain, guard and nonce |
| `tee_ledger` | two concurrent handlers, any submission by anybody, from a registry without a signer: `GapFree`, `SignaturesCurrent` and the refinement `KeepsPromise`; `DangerDecides` for factors of 2^64 |
| `unset_signer` | violated: before `setGuardianSigner` a ledger gets a row that nobody signed |
| `service_safety` | two guards, one fault at any point, and another caller that confuses the two guards: `OwnVaultChecked`; `ReceiptMeansRow` and `RetriesHarmless` over timeouts, crashes, drops and transactions of earlier ticks |
| `service_liveness` | `DefenceRecorded` and `HealthRecovers` under fairness |
| `double_post` | violated: after a receipt timeout the same action is sent again |
| `reg_state` | every command line and fault: `StateTruthful`; over failed saves, crashes and late transactions a run with the command line of `post-build.sh` never names an old challenge or check (`NewestIdsUsed`) |
| `reg_fresh` | `FreshRunsPromote` under fairness: fresh runs recover from any three faults |
| `reg_resume` | violated: a challenge that expires after it was saved makes every resumed run fail |
| `verify_deploy` | two operators, by script and by hand: `ConfigIsSetUp`, `BoundToFirst`; and `verify-deploy` in between: `ExitZeroMeansReady`, `UniqueMeansBound`, `KeyWarningsTruthful` |
| `framework` | five concurrent requests in both languages: the refinement `ImplementsSequential`, `InOrder` for TypeScript, and `Served` under fairness |
| `handler_throws` | violated: a handler that throws ends the TypeScript server with requests unanswered |

The four violations disagree with a sentence of the repository. `unset_signer`
ends with `setGuardianSigner`, from when on `GapFree` and `KeepsPromise` hold,
but the rows stay, with whatever nonce they used up; `double_post` does not harm
the ledger, which is what `RetriesHarmless` shows;
after `reg_resume` an operator has to start the tool afresh; after
`handler_throws` the container starts again without its counters.

### Other differences between text and code

The models follow the code in these places too; no run is about them.

* `GET /health` answers 200 during the first tick: `lastLoop` is set before the
  tick reads anything (`service.mjs:185`), although the comment at line 201
  wants recent on-chain state.
* The Go handlers overlap (`TeeGuard` has one program counter per request),
  where `tee/docs/extension-contract.md:201` says that handlers are serialized.
* Line 33 of the same document has status 200 for every routed action, failing
  handlers included; one that throws gets no response in Python and ends the
  process in TypeScript.
* The guard does not compare the request's vault with the one of the guard it
  names (`extension.go:163`): a caller who mixes them up gets a signature for a
  healthy vault, where `docs/LIVE_E2E.md:4` has the enclave sign "when the vault
  is liquidatable". `OwnVaultChecked` says that the service does not do so.
* `run-test` rejects status 2 only (`run-test/main.go:118`) and takes the data
  of an answer with status 3 or more, where line 189 of
  `tee/docs/extension-contract.md` has "anything else" than 0 and 1 in progress,
  and data "only meaningful" with status 1. The handler `progress` of the
  framework's model answers that way.
* An action whose `opType` is a number makes `normalize` raise (`types.ts:122`,
  `types.py:147`) instead of being refused with status 400; in TypeScript that
  ends the process (`LookupThrows`).
* Step `r` of `register-tee` requests a challenge for a machine that is
  registered (`registration.go:83-92`), where section 8 of
  `tee/docs/deployment-steps.md` says that it skips itself; and step `a` by
  itself has no attestation id, because ids pass between steps only in the
  locals of one run or in its state file (`registration.go:74`, `:142`).
* R7 of `verify-deploy` passes over ids whose query failed
  (`checks.go:477-479`) and still reports a unique sender, hence `answered` in
  `UniqueMeansBound`.
* R2 and R7 are left out without a word when `INSTRUCTION_SENDER` is malformed;
  D7 and E1 report it. A missing file is FAIL in S2 and SKIP in D7, V4 and E1.
* No check reads the wallet project owners. `ExitZeroMeansReady` has them only
  because `SetupExtension` grants them before the key type, which R4 checks.
* With `--checks` the exit code speaks of the listed checks only: a report
  without R3 exits with 0 for an extension that the deployer cannot work with.
  `ExitZeroMeansReady` is about reports without a filter.
* R3 and R4 advise to run the register step again, which registers a new
  extension and does not repair the one in the file.
* `verify-deploy -step tee-version` (or any other step without the chain) does
  not load `.env`, so its key warnings may differ from those of a complete
  report; `KeyWarningsTruthful` is about complete reports.

### Bounds

* `MaxUint64` is 1 or 2, so that the nonce wraps within a run and a ledger
  reaches its last row. The liquidation factor that TLC uses is
  `MaxUint64 + 1`, the smallest value that a truncation would turn into zero.
* Two handlers are enough for two checks of the same guard to overlap; more
  would repeat the same reads. `TeeGuardProofs` holds for any number.
* `MaxIssued` stops exploration behind states with more than one returned
  signature (in `tee_ledger`, a CONSTRAINT) or two (in `service_safety`, one
  for each guard or two for one, part of `SafetyBound`). The handlers hold
  theirs next to these, so that signatures do compete for one nonce.
  `MaxUnsigned` stops it behind states in which a guard has more than one row
  from before `setGuardianSigner`, or one of another amount than 1: one may use
  any nonce and leave as many out, and its amount decides nothing.
  `service_safety` explores no further than such a row, since it has one nonce
  only.
* `CounterMod` is 1: the counters of `/state` and `/health` decide nothing, and
  no run is about them.
* In `service_safety` the other caller's requests are explored if they name
  guard 1 and the vault of guard 2, which is the confusion the guard does not
  notice. `service_liveness` has no other callers: a slot is a bound of the
  model, not of the Go server, and callers who hold the only slot would starve
  the service where goroutines do not.
* `MaxFaults` is 1: one fault at any point of the loop, and every later step
  of the recovery. `MaxPending` is 2, which allows the transaction of an
  earlier tick next to the current one.
* In `service_safety` the vaults stay in danger, which
  is when the service acts; `service_liveness` and the `TeeSpec` runs let the
  factors move.
* The runs with two guards start in `RegisteredInit`, the state
  `docs/LIVE_E2E.md` describes after steps 1 to 4: both vaults have a guard. In
  `service_safety` the signer is registered or not yet; in `service_liveness` it
  is (`FairDeployedSpec`), because nobody is obliged to call `setGuardianSigner`.
* In the registration runs `MaxFaults` is 3 or 4 and `MaxTees` is 2. `MaxAttests`
  bounds the challenges requested before a run starts: in `reg_fresh` it is more
  than three faults can use up, so that it cuts nothing off; in `reg_state`,
  with seven command lines, it is 4, which leaves room for several runs that
  each fail in another way (5 of both give the same result in five minutes).
  These runs do not check for deadlock: the operator stops once the machine is
  in production.
* `verify_deploy` has two operators, two senders, two extensions and one fault:
  enough for two registrations of one sender, in either order, the first of
  them late, and for a file that names either. The operators are not symmetric:
  `verify-deploy` runs under the key of one. A fault is one failed command or
  one unanswered query (in the deploy group, which reads nothing that moves, a
  node that answers none). An edited file is not edited again. `Invocations` has
  five command lines: a complete report without any key, one in a bad
  environment filtered by a list without ids, the deployment step, a filtered
  registration report, one without the chain. The set-up may stop for
  good, so deadlock is not checked.
* `framework` has five requests (the two of `run-test`, a state read, one that
  greets, throws or has an invalid payload after the handler table, and one with
  a wrong type), four handler tables, and one crash of the node; what throws
  crashes the process without a bound. It ends when every request is done, so
  deadlock is not checked.
* Handlers are symmetric in `tee_ledger`; no other run uses symmetry.

### Fairness

`FairServiceSpec` assumes weak fairness of `TickStep` (the process is
scheduled, `systemd` restarts it, every `await` has a timeout), of each
handler's `EnclaveStep` (goroutines are scheduled) and of `Mine` (the chain
produces blocks). Nothing is assumed of owners, prices or faults; faults are
finite because `MaxFaults` bounds them. `DefenceRecorded` is conditional on
the guard staying active, unpaused, in danger, with the enclave's key
registered.

`FairRegSpec` assumes that the operator runs the tool again after a failure
(and, as the error message asks, waits while the proxy's policy is out of
sync), that the tool takes its steps, that the chain mines, that the FTDC
answers what it can, and that a proxy out of sync catches up. Challenges that
expire and proofs that are lost are faults, of which there are finitely many.

`FrameworkSpec` assumes that some request that can run does run (the event loop
and the thread scheduler; nothing says which one), and that an unhandled
rejection ends the process. Nobody need restart it, and `run-test` and clients
may stop. `Served` excepts a process that ended; `NotWedged`, which is the
comment's promise, excepts only a crash of the node.

## 4. Proofs

Every invariant and every safety action or refinement property that a passing
run checks is also a theorem, for all constants that satisfy the assumption of
the module: any number of guards, handlers, requests, operators, extensions and
faults. Few of the properties are inductive. Each inductive invariant below was
checked with TLC, on the constants of the run, before it was proved.

| Module | Assumes | Inductive invariant | Theorems |
|---|---|---|---|
| `GuardianRegistryProofs` | `RegistryAssumption` | `RegistryInv` | `RegistryTypes`, `VaultIndexIsExact`, `NonceIsLedgerTail`, `RegistryIsAuditLedger`, `PausedIsFrozen`, `IdentityIsImmutable` |
| `TeeGuardProofs` | and `TeeAssumption` | `TeeInv`, `DangerInv`, `CountInv` | `TeeTypes`, `LedgerIsGapFree`, `SignaturesAreCurrent`, `PromiseIsKept`, `DangerAlwaysDecides`, `SignedActionsAreCounted` |
| `GuardianServiceProofs` | and `ServiceAssumption` | `ServiceInv`, `RetryInv` | `ServiceTypes`, `OwnVaultIsChecked`, `ReceiptIsARow`, `RetriesAreHarmless`, `ServiceKeepsPromise` |
| `TeeRegistrationProofs` | `RegistrationAssumption` | `RegInv`, `NewestInv` | `RegistrationTypes`, `StateFileIsTruthful`, `RunsUseNewestIds` |
| `ExtensionFrameworkProofs` | `FrameworkAssumption` | `FrameworkInv` | `FrameworkTypes`, `RunsInOrder`, `FrameworkIsSequential` |
| `ExtensionSetupProofs` | `SetupAssumption` | `SetupInv` | `SetupTypes`, `WrittenConfigIsSetUp`, `SenderIsBoundToFirst` |
| `DeployVerificationProofs` | and `InvocationsAssumption` | `VerifyInv` | `ExitZeroIsReady`, `UniqueIsBound`, `KeyWarningsAreTruthful`, `SetupStaysSound` |

**Registry.** The conjunction of types, `VaultIndex` and `NonceIsTail` is
inductive. In the refinement `NonceIsTail` turns the contract's check against
one stored number into the ledger's condition on its last row.

**Guard.** Neither `GapFree` nor `SignaturesCurrent` is inductive: a handler
that is about to sign has no signature yet. `TeeInv` adds `SnapshotsCurrent`
(the policy a handler has read is never ahead of the registry and, while its
nonce is still the registry's, its amount is on offer), `SignsActive` and
`OffersCurrent`. The argument has two halves. A step of the registry is
`Monotone`: ids stay, nonces do not decrease, and offers are only dropped
together with an increase of the nonce; such a step keeps everything said of
stale snapshots and signatures (`MonotoneKeeps`). A step of the enclave leaves
the registry alone, so it is enough that the record of the handler that moves
stays `Sound` (`MoveKeeps`). `RelayForces` then shows that an accepted
submission of a returned signature carries exactly the next nonce. A submission
that nobody signed is accepted only while no signer is registered
(`UnrecoverableKeeps`); it is `Monotone` too, so that it makes signatures stale
and never puts them ahead. `setGuardianSigner` does not take `address(0)`, so
the registry stays commissioned, and `UnsetGapFree` covers the time before.

`DangerInv` says of each handler that it signs, or has signed, exactly when the
factors and the policy it read ask for it. `SignedActionsAreCounted` counts: the
handlers between the two critical sections are the difference of the counters.
It has two hypotheses, finitely many handlers and `MaxChecks < CounterMod`;
the second is how far the property goes, since a counter that has wrapped says
nothing.

**Service.** `ServiceInv` joins `TeeInv` to the locals of the tick (`SoundTick`:
the guard it is at exists and the signature it holds was returned), to the
pending transactions (`SoundPool`: only one is watched, and it is the one whose
receipt the tick awaits) and to the receipt (`SoundReceipt`). The chain and the
enclave take back nothing the tick has seen (`Grows`), which is why values read
before an `await` may be used after it. Only the slot the service waits for
need fit its guard (`SlotFits`): other callers take other slots. Every step of
the composed system is one of `TeeSpec` or leaves its variables alone, so the
promise to the agent carries over to the running service
(`ServiceKeepsPromise`).

`RetriesHarmless` is not inductive, because a transaction is sent later than
its nonce was compared. `RetryInv` adds the signature the tick is about to send
(`Harmless`: it is for the next row, or recorded), and that the registry has a
signer as soon as the tick has read one. The second part is what the argument
turns on: `Recheck` compares the signature's signer with the one the tick read,
which `address(0)` never equals, so nothing is sent before `setGuardianSigner`.
From then on rows come one by one (`HarmlessLasts`): a nonce that is not the
next one any more has become a row.

**Registration.** A step copies the id of a receipt into the state, so `RegInv`
adds that only the newest transaction is waited for, and by the step that sent
it (`WatchedFits`), that a success receipt carries an id that exists
(`ReceiptFits`), and that a tool which is not running waits for nothing
(`IdleFits`). Mining only appends to `attests` and `checks` (`ApplyAdds`), so
ids that exist go on existing.

That the ids are the *newest* is subtle, because runs with other command lines
share the file, and a transaction of a dead run may be mined after it was
written. `NewestInv` says of the file and of the state in memory (`Newest`):
one that lists both `r` and `R` has the newest challenge and no request for
another is on its way, and the same of `a` and checks. A state that lists only
one of `r` and `R` may well be out of date; the other step, which
`post-build.sh` asks for, then replaces its id. `FileBehind` and
`SentNotCompleted` rule out that a step requests something newer than what a
file already lists. The theorem holds for any set of command lines, more than
`reg_state` enumerates.

**Framework.** In TypeScript `arrivals` *is* the chain of promises (`Chained`):
`after` links it, `queue` is its end, and whoever is past waiting has only
settled requests before it. In Python the lock is held exactly by the request
that is half-way (`Locked`). In both, at most one request is half-way, which is
what the refinement mapping `Committed` needs to be well defined; a step then
maps to one of `SequentialServer`, or to no step for `Begin`.

**Set-up.** `CommandsFit` and `LateFits` say how far the extension of a running
or abandoned command has come: exactly the grants before its program counter,
and by nobody else; `Alone` that no two of them work on one extension;
`KeyTypeLast` that a machine owner of an extension with the key type is a
project owner too. With these `ConfigIsSetUp` is inductive. `BoundToFirst` needs only that registrations are
appended, so that the first of a sender stays the first.

**Validation.** `RunInv` ties a half-done report to the registry, which has
moved since: what a check saw of an extension is still true (`StillTrue`, since
grants are never revoked and senders never change), the extension in the file
is below R1's counter (`CounterFits`), so that one which R7 found to be the
sender's only one is its first (`FirstIfUnique`: ids that R7 did not look at
are greater), and the report has the results that its groups so far leave
(`NotYet`, `KeyResults`, `FileResults`).
`ExitZeroIsReady` then puts together results of different groups, and `UniqueIsBound` combines `FirstIfUnique` with `BoundToFirst`.
`SetupStaysSound` is the set-up's safety in the composition that
`verify_deploy` checks.

Two attempts corrected the project. `ExitZeroMeansReady` did not hold for
`--checks`, which no invocation of the run combined with a complete report. And
the command-line parser's refusal of unknown steps had to be stated
(`InvocationsAssumption`).

Only model-checked: the liveness properties `DefenceRecorded`, `HealthRecovers`,
`FreshRunsPromote` and `Served`. The prover handles neither fairness nor
`ENABLED`. The four expected violations are counterexamples of TLC. Only proved:
`SignedAreCounted`, which a run would need counters for that do not wrap.

## 5. Plan

1. Registry, guard, service, machine registration, framework, set-up and
   validation: modelled, checked, and their safety proved.
2. An abstract specification of a machine's life cycle for `TeeRegistration`,
   with its refinement.
3. RPC replicas that lag behind each other, as an extension of `TeeGuard`:
   today every read sees the latest block.

## 6. Not modelled

Byte layouts (ABI encoding, hex, JSON), price formatting, log lines, backoff
delays; gas and fees; the transfer of collateral, which the code records but
does not perform; attestation of the enclave; the printing of reports and the
decoding of revert reasons. Whole parts: `start-tee` and the container's entry
points (they start two servers and send two configuration requests in order,
and keep no state); `audit-deploy`, `set-governance` and the remaining commands
of `tee/tools` (printing or a single call); the clients of the signing port
(`node.ts`, `node.py`), which no handler uses; the vendored `forge-std`; shell
scripts and deployment files beyond `pre-build.sh` and their restart policy; the
monitor, which only reads.

The web console is left out because the handler of `/api/state`, from which it
gets everything it shows, is not in the repository (`.gitignore` excludes
`state/`). Read by itself, `web/lib/console-context.tsx` has two weak points
that a model with that handler should cover: answers to refreshes may overtake
each other, and `error` is set by a failed fetch (line 102) and never cleared,
so that the gate goes on reporting an unreachable chain.
