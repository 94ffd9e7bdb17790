---------------------------- MODULE DeployChecks ----------------------------
(***************************************************************************)
(* The verdicts of verify-deploy's checks (tools/pkg/validate/checks.go)   *)
(* as functions of what a check has read.  A report is a function from     *)
(* the names of results to a Status; a check that adds no result is not in *)
(* its domain.  D5 and D7 report twice and appear under two names.         *)
(*                                                                         *)
(* env gives the environment variables, "" for unset; cfg is extension.env *)
(* as read (see ExtensionSetup), path whether --config was given, site the *)
(* surroundings of the run: the FlareTeeManager address, the balance, and  *)
(* which endpoints answer.                                                 *)
(***************************************************************************)
EXTENDS Integers

Status == {"PASS", "WARN", "FAIL", "SKIP"}

Verdict(ok, otherwise) == IF ok THEN "PASS" ELSE otherwise

\* Report.Add, for the results of a group: no check reports twice under one name.
With(results, report) ==
  [c \in DOMAIN results \cup DOMAIN report |->
     IF c \in DOMAIN results THEN results[c] ELSE report[c]]

\* The id a result is printed and filtered under.
CheckId(name) ==
  CASE name \in {"D5key", "D5funds"} -> "D5"
    [] name \in {"D7sender", "D7id"} -> "D7"
    [] name = "R1R7" -> "R1-R7"
    [] OTHER -> name

HasFailures(report) == \E c \in DOMAIN report : report[c] = "FAIL"

\* LOCAL_MODE counts as true when it is unset.
LocalMode(env) == env.LOCAL_MODE \in {"", "true"}

\* godotenv.Load keeps a variable the process already has.
Loaded(env, dotenv) == [v \in DOMAIN env |-> IF env[v] # "" THEN env[v] ELSE dotenv[v]]

-----------------------------------------------------------------------------
(* The three pre-flight checks; a failing RPC counts as a failed check.     *)
AddressNotZero(site) == site.manager # "zero"
AddressHasCode(site, failed) == site.manager = "contract" /\ "code" \notin failed
KeyHasFunds(site, failed) == site.funded /\ "balance" \notin failed

CheckDeployerKeySource(env) ==
  Verdict(env.DEPLOYMENT_PRIVATE_KEY # "" \/ LocalMode(env), "WARN")

CheckExtensionEnvFormat(cfg) ==
  IF cfg.exists
  THEN [D7sender |-> Verdict(cfg.sender > 0, "FAIL"), D7id |-> Verdict(cfg.id > 0, "FAIL")]
  ELSE [D7 |-> "SKIP"]

RegisterDeployChecks(env, site, failed, path, cfg) ==
  With([D3 |-> Verdict(AddressNotZero(site), "FAIL"),
        D5key |-> CheckDeployerKeySource(env),
        D5funds |-> Verdict(KeyHasFunds(site, failed), "FAIL"),
        D6 |-> Verdict("chainId" \notin failed, "FAIL")],
    With(IF AddressNotZero(site)
         THEN [D1 |-> Verdict(AddressHasCode(site, failed), "FAIL")] ELSE <<>>,
         IF path THEN CheckExtensionEnvFormat(cfg) ELSE <<>>))

-----------------------------------------------------------------------------
(* Registration.  ok: the query was answered.                               *)

\* RegisterRegistrationChecks looks no further without a file to check.
NothingToRegister(path, cfg) == ~path \/ (cfg.id = 0 /\ cfg.sender = 0)

R1(ok, counter) ==
  CASE ~ok -> "FAIL" [] ok /\ counter = 0 -> "WARN" [] OTHER -> "PASS"

\* R2, R3 and R4: the registry's answer is the expected one.
OnChain(ok, asExpected) == Verdict(ok /\ asExpected, "FAIL")

\* matching: the ids below R1's counter that were answered with our sender.
R7(matching) == IF \E i, j \in matching : i # j THEN "WARN" ELSE "PASS"

-----------------------------------------------------------------------------
(* The steps that read only the environment, the file and endpoints         *)

Reachable(url, up) == IF url = "" THEN "SKIP" ELSE Verdict(up, "WARN")

RegisterServicesChecks(env, site, path, cfg) ==
  [S2 |-> IF path THEN Verdict(cfg.id > 0, "FAIL") ELSE "SKIP",
   S5 |-> Verdict(~site.portInUse, "WARN"),
   S7 |-> "PASS",
   S9 |-> Reachable(env.EXT_PROXY_URL, site.extProxyUp),
   S10 |-> Verdict(env.LOCAL_MODE # "false" \/ env.PROXY_PRIVATE_KEY # "", "WARN")]

\* Mutant: V2 looks at the deployment key only.
DeploymentKeyOnly(env, site, path, cfg) ==
  [V2 |-> CheckDeployerKeySource(env), V4 |-> "SKIP", V6 |-> "SKIP"]

RegisterTeeVersionChecks(env, site, path, cfg) ==
  [V2 |-> Verdict(env.EXTENSION_OWNER_KEY # "" \/ env.DEPLOYMENT_PRIVATE_KEY # ""
                    \/ LocalMode(env), "WARN"),
   V4 |-> IF ~path \/ ~cfg.exists THEN "SKIP" ELSE Verdict(cfg.id > 0, "FAIL"),
   V6 |-> Reachable(env.EXT_PROXY_URL, site.extProxyUp)]

RegisterTeeMachineChecks(env, site) ==
  [T1 |-> Verdict(env.SIMULATED_TEE # "true" \/ env.LOCAL_MODE # "false", "WARN"),
   T5 |-> Reachable(env.NORMAL_PROXY_URL, site.normalProxyUp),
   T10 |-> Reachable(env.EXT_PROXY_URL, site.extProxyUp)]

RegisterTestChecks(env, site, path, cfg) ==
  [E1 |-> IF ~path \/ ~cfg.exists THEN "SKIP" ELSE Verdict(cfg.sender > 0, "FAIL"),
   E3 |-> Reachable(env.EXT_PROXY_URL, site.extProxyUp),
   E6 |-> "PASS"]

-----------------------------------------------------------------------------
(* The keys the deployment tools sign with, which V2 and D5 are about       *)

DefaultPrivateKey(env) == IF env.DEPLOYMENT_PRIVATE_KEY # "" THEN "deployment" ELSE "dev"

\* allow-tee-version: the extension owner's key if there is one.
TeeVersionKey(env) == IF env.EXTENSION_OWNER_KEY # "" THEN "owner" ELSE DefaultPrivateKey(env)
=============================================================================
