--------------------------- MODULE TeeRegistration ---------------------------
(***************************************************************************)
(* tee/tools register-tee: RegisterNode of pkg/fccutils/registration.go,   *)
(* which takes a TEE machine through pre-registration (r), an attestation  *)
(* challenge (R), the FTDC availability check (a) and promotion (p).  The  *)
(* steps of a run are transactions; between them the tool may stop, and a  *)
(* state file lets a later run resume.  The operator runs the tool until   *)
(* the live machine is in production.                                      *)
(*                                                                         *)
(* The manager contract and the FTDC proxy are external; here they do what *)
(* the tool and its comments rely on.  Everything that goes wrong once     *)
(* spends one of MaxFaults faults.                                         *)
(***************************************************************************)
EXTENDS Integers, Sequences

CONSTANTS
  Invocations,   \* command lines in use: [command : a set of steps, resume : BOOLEAN]
  MaxAttests,    \* bound on the challenges requested before a run starts
  MaxTees,       \* bound on the launches of the enclave: each one mints a new TEE id
  MaxFaults      \* bound on the faults of a behaviour

Steps == {"r", "R", "a", "p"}

ASSUME RegistrationAssumption ==
  /\ Invocations \subseteq [command : SUBSET Steps, resume : BOOLEAN]
  /\ MaxAttests \in Nat
  /\ MaxTees \in Nat \ {0}
  /\ MaxFaults \in Nat

VARIABLES
  machine,    \* contract: the status of every TEE machine
  attests,    \* contract: the attestation requests, by instruction id
  checks,     \* contract and FTDC: the availability checks, by instruction id
  pending,    \* the deployer's transactions, in account-nonce order
  run,        \* the running tool: program counter, flags and locals
  file,       \* the state file; a missing one reads as the empty state
  liveTee,    \* the id GET /info reports
  lag,        \* the FTDC proxy's signing policy minus the on-chain epoch
  faults      \* faults so far

chainVars == <<machine, attests, checks>>
worldVars == <<liveTee, lag>>
regVars == <<chainVars, pending, run, file, worldVars, faults>>

TeeIds == 1 .. MaxTees
ZeroHash == 0

\* registrationState; of CompletedSteps only membership is ever asked.
EmptyState == [completed |-> {}, attest |-> ZeroHash, instruction |-> ZeroHash]
NoFile == [readable |-> TRUE, state |-> EmptyState]
CorruptFile == [readable |-> FALSE, state |-> EmptyState]

Stopped ==
  [pc |-> "off", command |-> {}, tee |-> 1, state |-> EmptyState,
   attest |-> ZeroHash, instruction |-> ZeroHash, receipt |-> "none", mined |-> ZeroHash]

RegInit ==
  /\ machine = [t \in TeeIds |-> "none"]
  /\ attests = <<>> /\ checks = <<>> /\ pending = <<>>
  /\ run = Stopped
  /\ file = NoFile
  /\ liveTee = 1 /\ lag = 0 /\ faults = 0

SpendFault == faults < MaxFaults /\ faults' = faults + 1

-----------------------------------------------------------------------------
(* Transactions.                                                            *)

\* What the contract refuses: a second registration, a challenge for or the
\* promotion of an unknown machine, a check whose one-shot challenge is of
\* another machine, expired or used up.
Reverts(tx) ==
  CASE tx.kind = "register" -> machine[tx.tee] # "none"
    [] tx.kind \in {"attest", "promote"} -> machine[tx.tee] = "none"
    [] tx.kind = "check" ->
         tx.attest \notin DOMAIN attests
           \/ attests[tx.attest] # [tee |-> tx.tee, valid |-> TRUE]

\* The proxy may be one epoch ahead, between a policy and its reward epoch.
PolicyInSync == lag \in {0, 1}

\* The proxy's data providers cosign only with a current signing policy, and
\* only the running enclave holds its machine's key.
Answerable(tee) == PolicyInSync /\ tee = liveTee

Apply(tx) ==
  CASE tx.kind = "register" ->
         /\ machine' = [machine EXCEPT ![tx.tee] = "registered"]
         /\ attests' = Append(attests, [tee |-> tx.tee, valid |-> TRUE])
         /\ UNCHANGED checks
    [] tx.kind = "attest" ->
         /\ attests' = Append(attests, [tee |-> tx.tee, valid |-> TRUE])
         /\ UNCHANGED <<machine, checks>>
    [] tx.kind = "check" ->
         /\ attests' = [attests EXCEPT ![tx.attest].valid = FALSE]
         /\ checks' = Append(checks,
              [tee |-> tx.tee, proof |-> IF Answerable(tx.tee) THEN "waiting" ELSE "none"])
         /\ UNCHANGED machine
    [] tx.kind = "promote" ->
         /\ machine' = [machine EXCEPT ![tx.tee] = "production"]
         /\ UNCHANGED <<attests, checks>>

\* The instruction id that the receipt of tx carries once it is applied.
InstructionOf(tx) ==
  CASE tx.kind \in {"register", "attest"} -> Len(attests')
    [] tx.kind = "check" -> Len(checks')
    [] OTHER -> ZeroHash

\* The oldest pending transaction is mined.
Mine ==
  /\ pending # <<>>
  /\ LET tx == Head(pending) IN
       /\ IF Reverts(tx) THEN UNCHANGED chainVars ELSE Apply(tx)
       /\ run' = IF ~tx.watched THEN run
                 ELSE IF Reverts(tx) THEN [run EXCEPT !.receipt = "reverted"]
                 ELSE [run EXCEPT !.receipt = "success", !.mined = InstructionOf(tx)]
  /\ pending' = Tail(pending)
  /\ UNCHANGED <<file, worldVars, faults>>

\* The tool is gone: nobody waits for its transactions any more.
Unwatched == [i \in DOMAIN pending |-> [pending[i] EXCEPT !.watched = FALSE]]

Exit == run' = Stopped /\ pending' = Unwatched

\* A transaction is sent, unless the gas estimation shows that it reverts.
Send(kind, tee) ==
  LET tx == [kind |-> kind, tee |-> tee, attest |-> run.attest, watched |-> TRUE] IN
    /\ IF Reverts(tx) THEN Exit
       ELSE /\ pending' = Append(pending, tx)
            /\ run' = [run EXCEPT !.receipt = "pending"]
    /\ UNCHANGED <<chainVars, file, worldVars>>

\* Mutant: CheckTx does not look at the receipt's status.
RevertedIgnored ==
  /\ run.receipt = "reverted"
  /\ run' = [run EXCEPT !.receipt = "success"]
  /\ UNCHANGED <<chainVars, pending, file, worldVars, faults>>

\* CheckTx returns an error: the transaction was mined and reverted.
Reverted ==
  /\ run.receipt = "reverted"
  /\ Exit
  /\ UNCHANGED <<chainVars, file, worldVars, faults>>

-----------------------------------------------------------------------------
(* main: a run starts fresh unless -resume is given.                        *)

\* loadState: a file that does not parse is an error.
Start(inv, instruction, left) ==
  /\ run' = IF left.readable
            THEN [Stopped EXCEPT !.pc = "r", !.command = inv.command, !.tee = liveTee,
                    !.state = left.state, !.instruction = instruction]
            ELSE Stopped
  /\ file' = left

\* The operator runs the tool until the live machine is in production, and
\* waits, as the error says, while the proxy's policy is out of sync.  -i names
\* an availability check; it is used without step a only.
MayInvoke(inv, instruction) ==
  /\ run.pc = "off"
  /\ PolicyInSync
  /\ Len(attests) < MaxAttests
  /\ machine[liveTee] # "production"
  /\ instruction = ZeroHash \/ "a" \notin inv.command

Invoke(inv, instruction) ==
  /\ MayInvoke(inv, instruction)
  /\ Start(inv, instruction, IF inv.resume THEN file ELSE NoFile)
  /\ UNCHANGED <<chainVars, pending, worldVars, faults>>

\* The stale file cannot be removed: a warning, and the run resumes from it.
InvokeStale(inv, instruction) ==
  /\ MayInvoke(inv, instruction)
  /\ ~inv.resume /\ file # NoFile
  /\ SpendFault
  /\ Start(inv, instruction, file)
  /\ UNCHANGED <<chainVars, pending, worldVars>>

-----------------------------------------------------------------------------
(* The steps of RegisterNode.  A step that the command does not name is     *)
(* passed over, one that the state file lists as completed is skipped.      *)

At(step) == run.pc = step /\ run.receipt = "none"
Due(step) == At(step) /\ step \in run.command \ run.state.completed
After == [r |-> "R", R |-> "a", a |-> "p"]

PassOver(step) ==
  /\ At(step) /\ step \notin run.command
  /\ run' = [run EXCEPT !.pc = After[step]]
  /\ UNCHANGED <<chainVars, pending, file, worldVars, faults>>

SkipCompleted(step) ==
  /\ At(step) /\ step \in run.command \cap run.state.completed
  /\ run' = IF step = "a"
            THEN [run EXCEPT !.pc = After[step], !.instruction = run.state.instruction]
            ELSE [run EXCEPT !.pc = After[step], !.attest = run.state.attest]
  /\ UNCHANGED <<chainVars, pending, file, worldVars, faults>>

\* saveState overwrites the file.  A failure, which may have truncated it, is a
\* warning: the run goes on with the state it has in memory.
SaveState(state) ==
  \/ file' = [readable |-> TRUE, state |-> state] /\ UNCHANGED faults
  \/ file' \in {file, CorruptFile} /\ SpendFault

\* The receipt of a step has come: its id is noted, in memory and in the file.
Complete(step, noted) ==
  /\ run.pc = step /\ run.receipt = "success"
  /\ run' = [noted EXCEPT !.pc = After[step], !.receipt = "none", !.mined = ZeroHash,
                          !.state.completed = @ \cup {step}]
  /\ SaveState(run'.state)
  /\ UNCHANGED <<chainVars, pending, worldVars>>

\* Mutant: for a machine that is registered step r skips itself.
PreRegistrationSkips ==
  /\ Due("r")
  /\ IF machine[run.tee] = "none" THEN Send("register", run.tee)
     ELSE /\ run' = [run EXCEPT !.pc = "R", !.state.completed = @ \cup {"r"}]
          /\ UNCHANGED <<chainVars, pending, file, worldVars>>
  /\ UNCHANGED faults

\* Step r.  A machine that is registered gets a fresh challenge instead.  When
\* GetTeeMachine fails the tool tries register(), which reverts if it was wrong.
PreRegistration ==
  /\ Due("r")
  /\ Send(IF machine[run.tee] = "none" THEN "register" ELSE "attest", run.tee)
  /\ UNCHANGED faults

PreRegistered ==
  Complete("r", [run EXCEPT !.attest = run.mined, !.state.attest = run.mined])

\* Step R.
RequestTeeAttestation == Due("R") /\ Send("attest", run.tee) /\ UNCHANGED faults

\* Mutant: the id of the new challenge is not stored in the state.
AttestedOldId == Complete("R", [run EXCEPT !.attest = run.mined])

Attested ==
  Complete("R", [run EXCEPT !.attest = run.mined, !.state.attest = run.mined])

\* Step a.  The signing policies are compared first: a confirmed mismatch is an
\* error, a lookup that fails is not.
PolicyOutOfSync ==
  /\ Due("a") /\ ~PolicyInSync
  /\ Exit
  /\ UNCHANGED <<chainVars, file, worldVars, faults>>

RequestFTDCAvailabilityCheck ==
  /\ Due("a")
  /\ \/ PolicyInSync /\ UNCHANGED faults
     \/ ~PolicyInSync /\ SpendFault
  /\ Send("check", run.tee)

CheckRequested ==
  Complete("a", [run EXCEPT !.instruction = run.mined, !.state.instruction = run.mined])

\* Step p.  The result is polled for 30 seconds.
ToProduction ==
  /\ At("p") /\ "p" \in run.command
  /\ run.instruction \in DOMAIN checks
  /\ checks[run.instruction].proof = "ready"
  /\ Send("promote", checks[run.instruction].tee)
  /\ UNCHANGED faults

\* There will never be a result, or the poll gives up before it comes.
NoResult ==
  /\ At("p") /\ "p" \in run.command
  /\ \/ run.instruction \notin DOMAIN checks /\ UNCHANGED faults
     \/ /\ run.instruction \in DOMAIN checks
        /\ \/ checks[run.instruction].proof = "none" /\ UNCHANGED faults
           \/ checks[run.instruction].proof = "waiting" /\ SpendFault
  /\ Exit
  /\ UNCHANGED <<chainVars, file, worldVars>>

\* Mutant: step p is saved like the others and the file is kept.
DoneSaved ==
  /\ run.pc = "p"
  /\ run.receipt = "success" \/ (run.receipt = "none" /\ "p" \notin run.command)
  /\ Exit
  /\ file' = [readable |-> TRUE, state |-> [run.state EXCEPT !.completed = @ \cup {"p"}]]
  /\ UNCHANGED <<chainVars, worldVars, faults>>

\* All steps are done: the file is removed; an error of the removal is ignored.
Done ==
  /\ run.pc = "p"
  /\ run.receipt = "success" \/ (run.receipt = "none" /\ "p" \notin run.command)
  /\ Exit
  /\ \/ file' = NoFile /\ UNCHANGED faults
     \/ file # NoFile /\ UNCHANGED file /\ SpendFault
  /\ UNCHANGED <<chainVars, worldVars>>

ToolStep ==
  \/ \E step \in {"r", "R", "a"} : PassOver(step) \/ SkipCompleted(step)
  \/ PreRegistration \/ PreRegistered \/ RequestTeeAttestation \/ Attested
  \/ PolicyOutOfSync \/ RequestFTDCAvailabilityCheck \/ CheckRequested
  \/ ToProduction \/ NoResult \/ Done \/ Reverted
-----------------------------------------------------------------------------
(* The rest of the world, and what goes wrong.                              *)

ProofArrives(i) ==
  /\ checks[i].proof = "waiting"
  /\ checks' = [checks EXCEPT ![i].proof = "ready"]
  /\ UNCHANGED <<machine, attests, pending, run, file, worldVars, faults>>

\* A signing policy is initialized ahead of its epoch, the epoch starts, or a
\* proxy that was out of sync catches up.
PolicyMoves ==
  /\ lag' = IF lag = 0 THEN 1 ELSE 0
  /\ UNCHANGED <<chainVars, pending, run, file, liveTee, faults>>

\* Somebody runs the tool once more.
Operate ==
  \E inv \in Invocations, instruction \in {ZeroHash} \cup DOMAIN checks :
    Invoke(inv, instruction)

\* The tool dies, or a call of it fails: a request, an eth_call, or the wait
\* for a receipt, which ends after two minutes.
ToolStops ==
  /\ run.pc # "off"
  /\ SpendFault /\ Exit
  /\ UNCHANGED <<chainVars, file, worldVars>>

\* The tool dies while os.WriteFile, which truncates first, writes the file.
ToolDiesWriting ==
  /\ run.pc \in {"r", "R", "a"} /\ run.receipt = "success"
  /\ SpendFault /\ Exit
  /\ file' = CorruptFile
  /\ UNCHANGED <<chainVars, worldVars>>

ChallengeExpires(i) ==
  /\ attests[i].valid
  /\ SpendFault
  /\ attests' = [attests EXCEPT ![i].valid = FALSE]
  /\ UNCHANGED <<machine, checks, pending, run, file, worldVars>>

ProofLost(i) ==
  /\ checks[i].proof = "waiting"
  /\ SpendFault
  /\ checks' = [checks EXCEPT ![i].proof = "none"]
  /\ UNCHANGED <<machine, attests, pending, run, file, worldVars>>

PolicyLags ==
  /\ SpendFault
  /\ lag' \in {-1, 2}
  /\ UNCHANGED <<chainVars, pending, run, file, liveTee>>

\* The key is in memory only: a relaunched enclave is another machine.
TeeRelaunch ==
  /\ liveTee < MaxTees
  /\ SpendFault
  /\ liveTee' = liveTee + 1
  /\ checks' = [i \in DOMAIN checks |->
                  IF checks[i].proof = "waiting" THEN [checks[i] EXCEPT !.proof = "none"]
                  ELSE checks[i]]
  /\ UNCHANGED <<machine, attests, pending, run, file, lag>>

FaultStep ==
  \/ ToolStops \/ ToolDiesWriting \/ PolicyLags \/ TeeRelaunch
  \/ \E i \in DOMAIN attests : ChallengeExpires(i)
  \/ \E i \in DOMAIN checks : ProofLost(i)
  \/ \E inv \in Invocations, instruction \in {ZeroHash} \cup DOMAIN checks :
       InvokeStale(inv, instruction)

ProofStep == \E i \in DOMAIN checks : ProofArrives(i)

RegNext == Operate \/ ToolStep \/ Mine \/ ProofStep \/ PolicyMoves \/ FaultStep

RegSpec == RegInit /\ [][RegNext]_regVars

(* Fairness: the operator runs the tool again after a failure, the tool runs, *)
(* pending transactions are mined, the FTDC answers, and a proxy that is out  *)
(* of sync catches up.                                                        *)
RegFairness ==
  /\ WF_regVars(Operate) /\ WF_regVars(ToolStep)
  /\ WF_regVars(Mine) /\ WF_regVars(ProofStep)
  /\ WF_regVars(~PolicyInSync /\ PolicyMoves)

FairRegSpec == RegSpec /\ RegFairness

-----------------------------------------------------------------------------
(* Properties                                                               *)

RegState ==
  [completed : SUBSET {"r", "R", "a"}, attest : Nat, instruction : Nat]

AttestRequest == [tee : TeeIds, valid : BOOLEAN]
CheckRequest == [tee : TeeIds, proof : {"waiting", "ready", "none"}]

Transaction ==
  [kind : {"register", "attest", "check", "promote"}, tee : TeeIds,
   attest : Nat, watched : BOOLEAN]

Run ==
  [pc : Steps \cup {"off"}, command : SUBSET Steps, tee : TeeIds,
   state : RegState, attest : Nat, instruction : Nat,
   receipt : {"none", "pending", "success", "reverted"}, mined : Nat]

\* Every variable of the tool, the file and the contract holds a value of its
\* type.
RegTypeOK ==
  /\ machine \in [TeeIds -> {"none", "registered", "production"}]
  /\ attests \in Seq(AttestRequest)
  /\ checks \in Seq(CheckRequest)
  /\ pending \in Seq(Transaction)
  /\ run \in Run
  /\ file \in [readable : BOOLEAN, state : RegState]
  /\ liveTee \in TeeIds /\ lag \in -1 .. 2 /\ faults \in 0 .. MaxFaults

\* The ids that a state refers to exist on the chain.
Truthful(state) ==
  /\ state.completed \cap {"r", "R"} # {} => state.attest \in DOMAIN attests
  /\ "a" \in state.completed => state.instruction \in DOMAIN checks

\* Neither the state file nor the state in memory ever lists a step whose
\* transaction was not mined, whatever the tool died in, could not save or
\* left pending.
StateTruthful == Truthful(file.state) /\ Truthful(run.state)

\* A run with the command line of post-build.sh, resumed or not: its
\* availability check names the newest challenge there is and its promotion the
\* newest check, although saves fail, runs die between a transaction and its
\* save, transactions of dead runs are mined late, and runs with other command
\* lines leave their file behind.
NewestIdsUsed ==
  run.command = Steps =>
    /\ Due("a") => run.attest = Len(attests)
    /\ At("p") => run.instruction = Len(checks)

\* Runs that start fresh always succeed in the end: with finitely many faults -
\* an expired challenge, a lost proof, a relaunched enclave, a stale file - the
\* live machine is promoted.
FreshRunsPromote == <>(machine[liveTee] = "production")

\* registration.go: the state is "saved to a state file after each step so
\* registration can resume after failures": runs with -resume promote, too, as
\* long as the file itself is never damaged.
ResumedRunsPromote == []file.readable => <>(machine[liveTee] = "production")
=============================================================================
