------------------------ MODULE MCDeployVerification ------------------------
(* Command lines and surroundings for verify-deploy.                          *)
EXTENDS DeployVerification

NoVariables ==
  [v \in {"LOCAL_MODE", "DEPLOYMENT_PRIVATE_KEY", "EXTENSION_OWNER_KEY", "PROXY_PRIVATE_KEY",
          "EXT_PROXY_URL", "NORMAL_PROXY_URL", "SIMULATED_TEE"} |-> ""]

Testnet == [NoVariables EXCEPT !.LOCAL_MODE = "false", !.SIMULATED_TEE = "true",
                               !.EXT_PROXY_URL = "url", !.NORMAL_PROXY_URL = "url"]
OwnerKey == [NoVariables EXCEPT !.EXTENSION_OWNER_KEY = "key"]
DeployerKey == [NoVariables EXCEPT !.DEPLOYMENT_PRIVATE_KEY = "key", !.PROXY_PRIVATE_KEY = "key"]

Good == [manager |-> "contract", funded |-> TRUE, portInUse |-> FALSE,
         extProxyUp |-> TRUE, normalProxyUp |-> TRUE]
Bad == [manager |-> "zero", funded |-> FALSE, portInUse |-> TRUE,
        extProxyUp |-> FALSE, normalProxyUp |-> FALSE]

Run(step, path, process, dotenv, site) ==
  [step |-> step, path |-> path, filter |-> FALSE, only |-> {}, key |-> "ann",
   process |-> process, dotenv |-> dotenv, site |-> site]

Filtered(cmd, only) == [cmd EXCEPT !.filter = TRUE, !.only = only]

\* Complete reports without any key, and without --config with the owner's key in
\* .env, filtered by a list of no ids; the deployment step with the deployer's key
\* in .env; the registration step filtered; a step that needs no chain.
MCInvocations ==
  {Run("all", TRUE, Testnet, NoVariables, Good),
   Filtered(Run("all", FALSE, Testnet, OwnerKey, Bad), {}),
   Run("deploy", TRUE, Testnet, DeployerKey, Good),
   Filtered(Run("register", TRUE, NoVariables, NoVariables, Good), {"R2", "R7"}),
   Run("test", TRUE, Testnet, DeployerKey, Good)}
=============================================================================
