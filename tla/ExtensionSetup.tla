--------------------------- MODULE ExtensionSetup ---------------------------
(***************************************************************************)
(* Setting up an extension: scripts/pre-build.sh deploys an               *)
(* InstructionSender, registers an extension for it (SetupExtension in     *)
(* tools/pkg/fccutils/extension.go) and writes config/extension.env;       *)
(* register-extension can be run again by hand, by anybody, for a sender   *)
(* that exists; the InstructionSender contract looks up its own id once.   *)
(*                                                                         *)
(* An extension id is its position in the registry: FIRST_PUBLIC_EXTENSION *)
(* _ID is 1 here and 0 stands for "none", as it does in the contract.  A   *)
(* sender is the position of its deployment.  Each operator runs one       *)
(* command at a time under a key of its own.                               *)
(***************************************************************************)
EXTENDS Integers, Sequences, FiniteSets

CONSTANTS
  Operators,      \* who run the set-up commands; also their account
  MaxSenders,     \* bound: InstructionSender deployments
  MaxExtensions,  \* bound: registered extensions
  MaxFaults       \* bound: failed commands, lost or late transactions

ASSUME SetupAssumption ==
  /\ Operators # {}
  /\ MaxSenders \in Nat /\ MaxExtensions \in Nat /\ MaxFaults \in Nat

VARIABLES
  extensions,  \* the registry and owner allowlist: a sequence of Extension
  cachedId,    \* _extensionId of every deployed InstructionSender
  config,      \* config/extension.env
  op,          \* the command each operator is running
  late,        \* transactions given up on after two minutes, not yet mined
  faults

chainVars == <<extensions, cachedId, late>>
setupVars == <<extensions, cachedId, config, op, late, faults>>

-----------------------------------------------------------------------------
(* Types                                                                    *)

Senders == 1 .. Len(cachedId)
ExtensionIds == 1 .. Len(extensions)

Extension == [sender : Nat, machineOwners : SUBSET Operators,
              projectOwners : SUBSET Operators, evmType : BOOLEAN]

SetupCalls == {"register", "machineOwner", "projectOwner", "keyType"}

Command == [pc : {"idle", "deploy", "write"} \cup SetupCalls,
            preBuild : BOOLEAN, sender : Nat, id : Nat]
NoCommand == [pc |-> "idle", preBuild |-> FALSE, sender |-> 0, id |-> 0]

\* A value of extension.env that its regular expression rejects; 0 is a value
\* that is not there.
Malformed == -1
Config == [exists : BOOLEAN, id : Int, sender : Int, byHand : BOOLEAN]
NoConfig == [exists |-> FALSE, id |-> 0, sender |-> 0, byHand |-> FALSE]
File(id, sender, byHand) == [exists |-> TRUE, id |-> id, sender |-> sender, byHand |-> byHand]
Complete(cfg) == cfg.exists /\ cfg.id > 0 /\ cfg.sender > 0

Transaction == [call : SetupCalls, from : Operators, sender : Nat, id : Nat, nonce : Nat]

SetupInit ==
  /\ extensions = <<>> /\ cachedId = <<>> /\ late = {}
  /\ config = NoConfig
  /\ op = [p \in Operators |-> NoCommand]
  /\ faults = 0

-----------------------------------------------------------------------------
(* The registry, as the set-up calls it                                     *)

\* Register always makes a new extension, also for a sender that has one.
Registered(sender) ==
  Append(extensions, [sender |-> sender, machineOwners |-> {},
                      projectOwners |-> {}, evmType |-> FALSE])

\* What a mined transaction does to the registry.
Applied(tx) ==
  CASE tx.call = "register"     -> Registered(tx.sender)
    [] tx.call = "machineOwner" -> [extensions EXCEPT ![tx.id].machineOwners = @ \cup {tx.from}]
    [] tx.call = "projectOwner" -> [extensions EXCEPT ![tx.id].projectOwners = @ \cup {tx.from}]
    [] tx.call = "keyType"      -> [extensions EXCEPT ![tx.id].evmType = TRUE]

\* The transaction the command of p is waiting for.
TxOf(p) ==
  [call |-> op[p].pc, from |-> p, sender |-> op[p].sender, id |-> op[p].id, nonce |-> faults]

-----------------------------------------------------------------------------
(* pre-build.sh and register-extension                                      *)

\* Room below the bounds for the commands that are under way.
Under(pcs) == Cardinality({p \in Operators : op[p].pc \in pcs})
RoomForSender == Len(cachedId) + Under({"deploy"}) < MaxSenders
RoomForExtension ==
  Len(extensions) + Under({"deploy", "register"})
    + Cardinality({tx \in late : tx.call = "register"}) < MaxExtensions

\* deploy-contract --preflight-only comes first; where it fails nothing happened.
StartPreBuild(p) ==
  /\ op[p].pc = "idle" /\ RoomForSender /\ RoomForExtension
  /\ op' = [op EXCEPT ![p] = [NoCommand EXCEPT !.pc = "deploy", !.preBuild = TRUE]]
  /\ UNCHANGED <<extensions, cachedId, config, late, faults>>

\* register-extension by hand; AddressHasCode holds for a deployed sender.
StartRegister(p, sender) ==
  /\ op[p].pc = "idle" /\ RoomForExtension
  /\ op' = [op EXCEPT ![p] = [NoCommand EXCEPT !.pc = "register", !.sender = sender]]
  /\ UNCHANGED <<extensions, cachedId, config, late, faults>>

DeployInstructionSender(p) ==
  /\ op[p].pc = "deploy"
  /\ cachedId' = Append(cachedId, 0)
  /\ op' = [op EXCEPT ![p].pc = "register", ![p].sender = Len(cachedId) + 1]
  /\ UNCHANGED <<extensions, config, late, faults>>

\* Mutants: a grant left out, and the grants in another order.
NoProjectOwner ==
  [register |-> "machineOwner", machineOwner |-> "keyType", keyType |-> "write"]
KeyTypeEarly ==
  [register |-> "machineOwner", machineOwner |-> "keyType",
   keyType |-> "projectOwner", projectOwner |-> "write"]

\* Where SetupExtension goes after each of its transactions.
AfterCall ==
  [register |-> "machineOwner", machineOwner |-> "projectOwner",
   projectOwner |-> "keyType", keyType |-> "write"]

\* Mutant: the registry's counter, read after the registration.
CounterAfter == Len(extensions) + 2

\* The id in the TeeExtensionRegistered event of the registration.
EventId == Len(extensions) + 1

\* One of SetupExtension's transactions is mined in time.  The three grants ask
\* first and skip a transaction that would change nothing.
SetupExtension(p) ==
  /\ op[p].pc \in SetupCalls
  /\ extensions' = Applied(TxOf(p))
  /\ op' = [op EXCEPT ![p].pc = AfterCall[@],
                      ![p].id = IF op[p].pc = "register" THEN EventId ELSE @]
  /\ UNCHANGED <<cachedId, config, late, faults>>

\* register-extension has printed the id, and pre-build.sh writes it down; a run
\* by hand is over.
WriteConfig(p) ==
  /\ op[p].pc = "write"
  /\ config' = IF op[p].preBuild THEN File(op[p].id, op[p].sender, FALSE) ELSE config
  /\ op' = [op EXCEPT ![p] = NoCommand]
  /\ UNCHANGED <<extensions, cachedId, late, faults>>

\* "Re-register the extension or update extension.env", R2 advises: an operator
\* edits the file, naming an extension of the registry (an error message gives
\* the id of one that was left half set up) and, not always well, a sender.
\* Bound: an edited file is not edited again.
EditConfig(id, sender) ==
  /\ ~config.byHand
  /\ config' = File(id, sender, TRUE)
  /\ UNCHANGED <<extensions, cachedId, op, late, faults>>

-----------------------------------------------------------------------------
(* Faults                                                                   *)

\* A command ends with an error or is killed.  A transaction it sent may be
\* lost, or be mined after the two minutes CheckTx waits for it; a deployment
\* may succeed without its address being learned.
Die(p) ==
  /\ op[p].pc # "idle" /\ faults < MaxFaults /\ faults' = faults + 1
  /\ op' = [op EXCEPT ![p] = NoCommand]
  /\ \/ UNCHANGED <<late, cachedId>>
     \/ op[p].pc \in SetupCalls /\ late' = late \cup {TxOf(p)} /\ UNCHANGED cachedId
     \/ op[p].pc = "deploy" /\ cachedId' = Append(cachedId, 0) /\ UNCHANGED late
  /\ UNCHANGED <<extensions, config>>

LateMined(tx) ==
  /\ extensions' = Applied(tx)
  /\ late' = late \ {tx}
  /\ UNCHANGED <<cachedId, config, op, faults>>

\* The shell truncates extension.env before it writes; a script killed or a
\* disk full in between leaves a prefix, EXTENSION_ID first.
TornWrite(p) ==
  /\ op[p].pc = "write" /\ op[p].preBuild
  /\ faults < MaxFaults /\ faults' = faults + 1
  /\ \E torn \in {<<0, 0>>, <<Malformed, 0>>, <<op[p].id, 0>>, <<op[p].id, Malformed>>} :
       config' = File(torn[1], torn[2], FALSE)
  /\ op' = [op EXCEPT ![p] = NoCommand]
  /\ UNCHANGED <<extensions, cachedId, late>>

-----------------------------------------------------------------------------
(* InstructionSender                                                        *)

\* The ids whose registered sender is this contract.
IdsOf(sender) == {i \in ExtensionIds : extensions[i].sender = sender}

\* Mutant: the loop goes on to the last one.
LastFound(sender) ==
  IF IdsOf(sender) = {} THEN 0
  ELSE CHOOSE i \in IdsOf(sender) : \A j \in IdsOf(sender) : j <= i

\* The loop of setExtensionId stops at the first of them; 0 if it finds none.
FoundId(sender) ==
  IF IdsOf(sender) = {} THEN 0
  ELSE CHOOSE i \in IdsOf(sender) : \A j \in IdsOf(sender) : i <= j

\* setExtensionId, for whoever calls it: run-test does for every test, and takes
\* "already set" (from the gas estimate or the mined transaction, when somebody
\* else came first) for success; "not found" leaves everything as it is.
SetExtensionId(sender) ==
  /\ cachedId[sender] = 0 /\ FoundId(sender) # 0
  /\ cachedId' = [cachedId EXCEPT ![sender] = FoundId(sender)]
  /\ UNCHANGED <<extensions, config, op, late, faults>>

-----------------------------------------------------------------------------
OperatorStep(p) ==
  DeployInstructionSender(p) \/ SetupExtension(p) \/ WriteConfig(p)

SetupNext ==
  \/ \E p \in Operators :
       \/ StartPreBuild(p) \/ OperatorStep(p) \/ Die(p) \/ TornWrite(p)
       \/ \E s \in Senders : StartRegister(p, s)
  \/ \E tx \in late : LateMined(tx)
  \/ \E s \in Senders : SetExtensionId(s)
  \/ \E id \in ExtensionIds, s \in Senders : EditConfig(id, s)

SetupSpec == SetupInit /\ [][SetupNext]_setupVars

-----------------------------------------------------------------------------
(* Properties                                                               *)

\* Every variable holds a value of its type, and what commands, pending
\* transactions and extension.env refer to exists on chain.
SetupTypeOK ==
  /\ extensions \in Seq(Extension) /\ cachedId \in Seq(Nat)
  /\ \A i \in ExtensionIds : extensions[i].sender \in Senders
  /\ config \in Config /\ config.id <= Len(extensions) /\ config.sender <= Len(cachedId)
  /\ op \in [Operators -> Command]
  /\ \A p \in Operators : op[p].sender <= Len(cachedId) /\ op[p].id <= Len(extensions)
  /\ late \subseteq Transaction
  /\ \A tx \in late : tx.sender \in Senders /\ tx.id <= Len(extensions)
  /\ faults \in 0 .. MaxFaults

\* Whatever failed, timed out, was mined late or was repeated before, a whole
\* extension.env that pre-build.sh wrote names an extension that its own sender
\* may send to and that is completely set up: somebody is on both allowlists and
\* the key type is there.
ConfigIsSetUp ==
  Complete(config) /\ ~config.byHand =>
    LET ext == extensions[config.id] IN
      /\ ext.sender = config.sender /\ ext.evmType
      /\ ext.machineOwners \cap ext.projectOwners # {}

\* A contract is bound to the first extension registered for it, for ever:
\* neither a second registration nor a race of two setExtensionId calls moves it.
IsFirst(id, sender) == id \in IdsOf(sender) /\ \A i \in IdsOf(sender) : id <= i
BoundToFirst == \A s \in Senders : cachedId[s] # 0 => IsFirst(cachedId[s], s)
=============================================================================
