------------------------- MODULE DeployVerification -------------------------
(***************************************************************************)
(* tools/cmd/verify-deploy running while extensions are being set up: it   *)
(* reads extension.env once per group of checks and the registry once per  *)
(* check, so pre-builds, hand registrations and late transactions fall     *)
(* between its reads.                                                      *)
(***************************************************************************)
EXTENDS ExtensionSetup, DeployChecks

CONSTANT Invocations  \* the command lines and surroundings verify-deploy is run in

VARIABLE ver  \* the running verify-deploy

verifyVars == <<setupVars, ver>>

AllSteps == <<"deploy", "register", "services", "tee-version", "tee-machine", "test">>
Steps == {"deploy", "register", "services", "tee-version", "tee-machine", "test"}

\* Any other step is turned down ("Unknown step") before anything is read.
ASSUME InvocationsAssumption == \A cmd \in Invocations : cmd.step \in Steps \cup {"all"}

\* cmd is the Invocation: step, path (--config given), filter (--checks given)
\* and only (the ids it lists), whose key the deployer's is, the process's
\* environment, the .env file and the site.
\* file is what the registration group read; quiet says that extension.env has
\* not changed since the start, answered that R7 got an answer for every id.
NoRun == [pc |-> "idle"]

VerifyInit == SetupInit /\ ver = NoRun

-----------------------------------------------------------------------------
StepsOf(cmd) == IF cmd.step = "all" THEN AllSteps ELSE <<cmd.step>>
NeedsChain(cmd) == cmd.step \in {"deploy", "register", "all"}

\* DefaultSupport, which the steps that need the chain call, loads .env.
StartVerify(cmd) ==
  /\ ver.pc = "idle"
  /\ ver' = [pc |-> Head(StepsOf(cmd)), cmd |-> cmd, todo |-> StepsOf(cmd),
             env |-> IF NeedsChain(cmd) THEN Loaded(cmd.process, cmd.dotenv) ELSE cmd.process,
             file |-> NoConfig, counter |-> 0, report |-> <<>>, quiet |-> TRUE, answered |-> TRUE]
  /\ UNCHANGED setupVars

\* A group ends: the next one begins, or the report is printed.
Grouped(results) ==
  [ver EXCEPT !.report = With(results, @), !.todo = Tail(@),
              !.pc = IF Len(ver.todo) = 1 THEN "exit" ELSE ver.todo[2]]

\* The calls that fail: none or, at the cost of a fault, one (in the deploy
\* group all of them, the node being down).
NoneOrOne(calls) == {{}} \cup {{c} : c \in calls}
Failing(failed) ==
  IF failed = {} THEN UNCHANGED faults ELSE faults < MaxFaults /\ faults' = faults + 1

KeepsSetup == UNCHANGED <<extensions, cachedId, config, op, late>>

DeployGroup(failed) ==
  /\ ver.pc = "deploy"
  /\ Failing(failed)
  /\ ver' = Grouped(RegisterDeployChecks(ver.env, ver.cmd.site, failed, ver.cmd.path, config))
  /\ KeepsSetup

\* The registration group reads the file once, before its queries.
ParseExtensionEnv ==
  /\ ver.pc = "register"
  /\ ver' = IF NothingToRegister(ver.cmd.path, config) THEN Grouped([R1R7 |-> "SKIP"])
            ELSE [ver EXCEPT !.pc = "R1", !.file = config]
  /\ KeepsSetup /\ UNCHANGED faults

\* The counter is the next id.  A malformed id ends the group.
CheckR1(failed) ==
  /\ ver.pc = "R1"
  /\ Failing(failed)
  /\ LET counter == Len(extensions) + 1
         r1 == [R1 |-> R1(failed = {}, counter)] IN
     ver' = IF ver.file.id <= 0 THEN Grouped(With([R2 |-> "FAIL"], r1))
            ELSE [ver EXCEPT !.pc = "R2", !.report = With(r1, @),
                             !.counter = IF failed = {} THEN counter ELSE 0]
  /\ KeepsSetup

\* R2, R3 and R4: one query each.
Query(check, next, asExpected, failed) ==
  /\ ver.pc = check
  /\ Failing(failed)
  /\ ver' = [ver EXCEPT !.pc = next,
                        !.report = With([c \in {check} |-> OnChain(failed = {}, asExpected)], @)]
  /\ KeepsSetup

\* R2 is left out, without a result, when INSTRUCTION_SENDER is not an address.
CheckR2(failed) ==
  \/ /\ ver.pc = "R2" /\ ver.file.sender <= 0 /\ failed = {}
     /\ ver' = [ver EXCEPT !.pc = "R3"]
     /\ KeepsSetup /\ UNCHANGED faults
  \/ /\ ver.pc = "R2" /\ ver.file.sender > 0
     /\ Query("R2", "R3", extensions[ver.file.id].sender = ver.file.sender, failed)

CheckR3(failed) ==
  ver.pc = "R3" /\ Query("R3", "R4", ver.cmd.key \in extensions[ver.file.id].machineOwners, failed)

CheckR4(failed) ==
  ver.pc = "R4" /\ Query("R4", "R7", extensions[ver.file.id].evmType, failed)

\* Mutant: the newest id is not asked about.
MatchingButLast(failed) == {i \in IdsOf(ver.file.sender) : i < ver.counter - 1 /\ i \notin failed}

\* The ids R7 asks about that were registered with our sender.
Matching(failed) == {i \in IdsOf(ver.file.sender) : i < ver.counter /\ i \notin failed}

\* R7 asks about every id below R1's counter and passes over those it gets no
\* answer for; it is left out without a counter or an address.
CheckR7(failed) ==
  /\ ver.pc = "R7"
  /\ Failing(failed)
  /\ ver' = [Grouped(IF ver.counter > 0 /\ ver.file.sender > 0
                     THEN [R7 |-> R7(Matching(failed))] ELSE <<>>)
               EXCEPT !.answered = (failed = {}), !.counter = 0]
  /\ KeepsSetup

\* The groups that need no chain read the file again.
OtherGroup ==
  /\ ver.pc \in {"services", "tee-version", "tee-machine", "test"}
  /\ LET env == ver.env  site == ver.cmd.site  path == ver.cmd.path IN
     ver' = Grouped(CASE ver.pc = "services" -> RegisterServicesChecks(env, site, path, config)
                      [] ver.pc = "tee-version" -> RegisterTeeVersionChecks(env, site, path, config)
                      [] ver.pc = "tee-machine" -> RegisterTeeMachineChecks(env, site)
                      [] ver.pc = "test" -> RegisterTestChecks(env, site, path, config))
  /\ KeepsSetup /\ UNCHANGED faults

\* --checks leaves the results with a listed id, none for a list without ids;
\* without --checks every result stays.
Shown ==
  IF ~ver.cmd.filter THEN ver.report
  ELSE [c \in {c \in DOMAIN ver.report : CheckId(c) \in ver.cmd.only} |-> ver.report[c]]

Passed(check) == check \in DOMAIN Shown /\ Shown[check] = "PASS"

\* The report is printed; the exit code is 1 if it HasFailures.
Exit ==
  /\ ver.pc = "exit"
  /\ ver' = NoRun
  /\ UNCHANGED setupVars

VerifyStep ==
  \/ \E cmd \in Invocations : StartVerify(cmd)
  \/ ParseExtensionEnv
  \/ \E failed \in {{}, {"code", "balance", "chainId"}} : DeployGroup(failed)
  \/ \E failed \in NoneOrOne({"query"}) :
       CheckR1(failed) \/ CheckR2(failed) \/ CheckR3(failed) \/ CheckR4(failed)
  \/ \E failed \in NoneOrOne(ExtensionIds) : CheckR7(failed)
  \/ OtherGroup \/ Exit

\* The set-up goes on while verify-deploy runs.
SetupStep ==
  /\ SetupNext
  /\ ver' = IF ver.pc # "idle" /\ config' # config THEN [ver EXCEPT !.quiet = FALSE] ELSE ver

VerifyNext == VerifyStep \/ SetupStep

VerifySpec == VerifyInit /\ [][VerifyNext]_verifyVars

-----------------------------------------------------------------------------
(* Properties                                                               *)

\* verify-deploy's exit 0 (all steps, with --config, without --checks, file untouched
\* meanwhile) means that the extension in extension.env can be worked with: the file was
\* whole, its extension belongs to its sender and has the EVM key type, and the
\* deployer is on both allowlists.  No check reads the wallet project owners:
\* that they are right rests on the order of SetupExtension's transactions, since
\* the file may name an extension whose set-up failed half-way.
ExitZeroMeansReady ==
  ver.pc = "exit" /\ ver.quiet /\ ~HasFailures(Shown)
      /\ ver.cmd.step = "all" /\ ver.cmd.path /\ ~ver.cmd.filter =>
    /\ ver.file = config /\ Complete(config)
    /\ LET ext == extensions[config.id] IN
         /\ ext.sender = config.sender /\ ext.evmType
         /\ ver.cmd.key \in ext.machineOwners \cap ext.projectOwners

\* A sender reported to match (R2) and to be unique (R7, every id answered) is
\* bound, or can only ever be bound, to the extension in the file, whoever has
\* registered or called setExtensionId since the counter was read.
UniqueMeansBound ==
  ver.pc = "exit" /\ Passed("R2") /\ Passed("R7") /\ ver.answered =>
    /\ IsFirst(ver.file.id, ver.file.sender)
    /\ cachedId[ver.file.sender] \in {0, ver.file.id}

\* The key warnings of a complete report tell what the tools will do: V2 warns
\* exactly if allow-tee-version, which loads .env as well, signs with the dev key
\* outside local mode, and D5 exactly if the deployer does.
KeyWarningsTruthful ==
  ver.pc = "exit" /\ ver.cmd.step = "all" =>
    LET env == Loaded(ver.cmd.process, ver.cmd.dotenv) IN
      /\ ver.report["V2"] = "WARN" <=> TeeVersionKey(env) = "dev" /\ ~LocalMode(env)
      /\ ver.report["D5key"] = "WARN" <=> DefaultPrivateKey(env) = "dev" /\ ~LocalMode(env)
=============================================================================
