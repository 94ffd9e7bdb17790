------------------------ MODULE ExtensionSetupProofs ------------------------
(* What holds of the registry and of extension.env whatever set-up commands   *)
(* fail, time out, are mined late or are repeated, for any operators.          *)
EXTENDS ExtensionSetup, WellFoundedInduction, TLAPS

GrantCalls == {"machineOwner", "projectOwner", "keyType"}

(* The extension ext, registered for sender by a command of `who', when that   *)
(* command is about to do `phase': exactly the grants before it were made, and *)
(* by nobody else.                                                            *)
SetUpSoFar(ext, phase, who, sender) ==
  /\ ext.sender = sender
  /\ ext.machineOwners = IF phase = "machineOwner" THEN {} ELSE {who}
  /\ ext.projectOwners = IF phase \in {"machineOwner", "projectOwner"} THEN {} ELSE {who}
  /\ ext.evmType <=> phase = "write"

\* The command of p has registered an extension and is not through with it.
Holds(p) == op[p].pc \in GrantCalls \cup {"write"}

\* Every command is where the registry shows it to be ...
CommandsFit ==
  \A p \in Operators :
    /\ op[p].pc \in SetupCalls \cup {"write"} => op[p].sender \in Senders
    /\ Holds(p) => /\ op[p].id \in ExtensionIds
                   /\ SetUpSoFar(extensions[op[p].id], op[p].pc, p, op[p].sender)

\* ... and so is every grant that was given up on,
LateFits ==
  \A tx \in late :
    tx.call # "register" =>
      /\ tx.id \in ExtensionIds
      /\ SetUpSoFar(extensions[tx.id], tx.call, tx.from, tx.sender)

\* because no two of them are about the same extension.
Alone ==
  /\ \A p, q \in Operators : Holds(p) /\ Holds(q) /\ op[p].id = op[q].id => p = q
  /\ \A p \in Operators, tx \in late :
       Holds(p) /\ tx.call # "register" => op[p].id # tx.id
  /\ \A t1, t2 \in late :
       t1.call # "register" /\ t2.call # "register" /\ t1.id = t2.id => t1 = t2

\* The key type is the last grant: whoever is a machine owner then is a project owner.
KeyTypeLast ==
  \A i \in ExtensionIds :
    extensions[i].evmType => extensions[i].machineOwners \subseteq extensions[i].projectOwners

(* The inductive invariant. *)
SetupInv ==
  /\ SetupTypeOK /\ CommandsFit /\ LateFits /\ Alone /\ KeyTypeLast
  /\ ConfigIsSetUp /\ BoundToFirst

-----------------------------------------------------------------------------
(* The first extension of a sender.                                           *)

LEMMA HasMinimum ==
  ASSUME NEW T \in SUBSET Nat, T # {}
  PROVE  \E x \in T : \A y \in T : x <= y
  <1>1. PICK x \in T : \A y \in T : ~(<<y, x>> \in OpToRel(<, Nat))
    BY WFMin, NatLessThanWellFounded
  <1>2. \A y \in T : ~(y < x)
    BY <1>1 DEF OpToRel
  <1> QED
    BY <1>2

LEMMA FoundIsFirst ==
  ASSUME NEW s, Len(extensions) \in Nat, FoundId(s) # 0
  PROVE  IsFirst(FoundId(s), s)
  <1>1. IdsOf(s) # {} /\ IdsOf(s) \subseteq Nat
    BY DEF FoundId, IdsOf, ExtensionIds
  <1>2. \E i \in IdsOf(s) : \A j \in IdsOf(s) : i <= j
    BY <1>1, HasMinimum
  <1>3. FoundId(s) = CHOOSE i \in IdsOf(s) : \A j \in IdsOf(s) : i <= j
    BY <1>1 DEF FoundId
  <1> QED
    BY <1>2, <1>3 DEF IsFirst

-----------------------------------------------------------------------------
(* What transactions do to the registry.                                      *)

NewExtension(s) ==
  [sender |-> s, machineOwners |-> {}, projectOwners |-> {}, evmType |-> FALSE]

\* One of the three grants, made to the extension ext.
Grant(ext, call, who) ==
  CASE call = "machineOwner" -> [ext EXCEPT !.machineOwners = @ \cup {who}]
    [] call = "projectOwner" -> [ext EXCEPT !.projectOwners = @ \cup {who}]
    [] call = "keyType"      -> [ext EXCEPT !.evmType = TRUE]

(* A grant brings its command one phase further and takes nothing away. *)
LEMMA GrantFits ==
  ASSUME NEW ext \in Extension, NEW call \in GrantCalls, NEW who \in Operators,
         NEW sender, SetUpSoFar(ext, call, who, sender)
  PROVE  LET e == Grant(ext, call, who) IN
         /\ e \in Extension /\ SetUpSoFar(e, AfterCall[call], who, sender)
         /\ e.sender = ext.sender
         /\ ext.machineOwners \subseteq e.machineOwners
         /\ ext.projectOwners \subseteq e.projectOwners
         /\ ext.evmType => e.evmType
         /\ e.evmType => e.machineOwners \subseteq e.projectOwners
  <1>1. CASE call = "machineOwner"
    BY <1>1 DEF Grant, SetUpSoFar, AfterCall, Extension
  <1>2. CASE call = "projectOwner"
    BY <1>2 DEF Grant, SetUpSoFar, AfterCall, Extension
  <1>3. CASE call = "keyType"
    BY <1>3 DEF Grant, SetUpSoFar, AfterCall, Extension
  <1> QED
    BY <1>1, <1>2, <1>3 DEF GrantCalls

LEMMA AppliedGrant ==
  ASSUME extensions \in Seq(Extension), NEW tx, tx.call \in GrantCalls,
         tx.id \in ExtensionIds
  PROVE  LET e == Grant(extensions[tx.id], tx.call, tx.from) IN
         e \in Extension => 
           /\ Applied(tx) \in Seq(Extension) /\ Len(Applied(tx)) = Len(extensions)
           /\ Applied(tx)[tx.id] = e
           /\ \A i \in ExtensionIds : i # tx.id => Applied(tx)[i] = extensions[i]
  <1> DEFINE e == Grant(extensions[tx.id], tx.call, tx.from)
  <1>1. Applied(tx) = [extensions EXCEPT ![tx.id] = e]
    <2>1. CASE tx.call = "machineOwner"
      BY <2>1 DEF Applied, Grant
    <2>2. CASE tx.call = "projectOwner"
      BY <2>2 DEF Applied, Grant
    <2>3. CASE tx.call = "keyType"
      BY <2>3 DEF Applied, Grant
    <2> QED
      BY <2>1, <2>2, <2>3 DEF GrantCalls
  <1> HIDE DEF e
  <1>2. ASSUME e \in Extension
        PROVE  /\ Applied(tx) \in Seq(Extension) /\ Len(Applied(tx)) = Len(extensions)
               /\ Applied(tx)[tx.id] = e
               /\ \A i \in ExtensionIds : i # tx.id => Applied(tx)[i] = extensions[i]
    BY <1>1, <1>2 DEF ExtensionIds
  <1> QED
    BY <1>2 DEF e

LEMMA AppliedRegister ==
  ASSUME extensions \in Seq(Extension), NEW tx, tx.call = "register", tx.sender \in Nat
  PROVE  /\ Applied(tx) \in Seq(Extension) /\ Len(Applied(tx)) = Len(extensions) + 1
         /\ Applied(tx)[Len(extensions) + 1] = NewExtension(tx.sender)
         /\ \A i \in ExtensionIds : Applied(tx)[i] = extensions[i]
  <1>1. Applied(tx) = Append(extensions, NewExtension(tx.sender))
    BY DEF Applied, Registered, NewExtension
  <1>2. NewExtension(tx.sender) \in Extension
    BY DEF NewExtension, Extension
  <1> QED
    BY <1>1, <1>2 DEF ExtensionIds

(* The registry grows: extensions are added for deployed senders, and the old  *)
(* ones keep their sender and everything they were given.                     *)
Grows ==
  /\ extensions' \in Seq(Extension) /\ Len(extensions) <= Len(extensions')
  /\ \A i \in 1 .. Len(extensions') :
       i \notin ExtensionIds => extensions'[i].sender \in Senders
  /\ \A i \in ExtensionIds :
       /\ extensions'[i].sender = extensions[i].sender
       /\ extensions[i].machineOwners \subseteq extensions'[i].machineOwners
       /\ extensions[i].projectOwners \subseteq extensions'[i].projectOwners
       /\ extensions[i].evmType => extensions'[i].evmType

(* Then extension.env and the bound contracts stay right. *)
LEMMA GrowsKeeps ==
  ASSUME SetupInv, Grows, UNCHANGED <<cachedId, config>>
  PROVE  /\ ConfigIsSetUp' /\ BoundToFirst'
         /\ \A i \in ExtensionIds' : extensions'[i].sender \in Senders'
         /\ config.id <= Len(extensions')
         /\ ExtensionIds \subseteq ExtensionIds'
  <1>1. /\ extensions \in Seq(Extension) /\ Len(extensions) \in Nat
        /\ Len(extensions') \in Nat /\ config \in Config /\ cachedId \in Seq(Nat)
        /\ config.id <= Len(extensions)
        /\ \A i \in ExtensionIds : extensions[i].sender \in Senders
        /\ config.id \in Int
    BY DEF SetupInv, SetupTypeOK, Grows, Config
  <1>2. ExtensionIds \subseteq ExtensionIds' /\ config.id <= Len(extensions')
    BY <1>1 DEF ExtensionIds, Grows
  <1>3. \A i \in ExtensionIds' : extensions'[i].sender \in Senders'
    BY <1>1 DEF ExtensionIds, Grows, Senders
  <1>4. ConfigIsSetUp'
    <2>1. SUFFICES ASSUME Complete(config), ~config.byHand
                   PROVE  LET ext == extensions'[config.id] IN
                          /\ ext.sender = config.sender /\ ext.evmType
                          /\ ext.machineOwners \cap ext.projectOwners # {}
      BY DEF ConfigIsSetUp, Complete
    <2>2. config.id \in ExtensionIds
      BY <1>1, <2>1 DEF ExtensionIds, Complete
    <2>3. LET ext == extensions[config.id] IN
            /\ ext.sender = config.sender /\ ext.evmType
            /\ ext.machineOwners \cap ext.projectOwners # {}
      BY <2>1 DEF SetupInv, ConfigIsSetUp
    <2> QED
      BY <2>2, <2>3 DEF Grows
  <1>5. BoundToFirst'
    <2>1. SUFFICES ASSUME NEW s \in Senders, cachedId[s] # 0
                   PROVE  IsFirst(cachedId[s], s)'
      BY DEF BoundToFirst, Senders
    <2>2. cachedId[s] \in IdsOf(s) /\ \A i \in IdsOf(s) : cachedId[s] <= i
      BY <2>1 DEF SetupInv, BoundToFirst, IsFirst
    <2>3. cachedId[s] \in IdsOf(s)'
      BY <1>2, <2>2 DEF IdsOf, Grows
    <2>4. ASSUME NEW i \in IdsOf(s)' PROVE cachedId[s] <= i
      <3>1. CASE i \in ExtensionIds
        <4>1. i \in IdsOf(s)
          BY <2>4, <3>1 DEF IdsOf, Grows
        <4> QED
          BY <2>2, <4>1
      <3>2. CASE i \notin ExtensionIds
        BY <1>1, <2>2, <2>4, <3>2 DEF IdsOf, ExtensionIds
      <3> QED
        BY <3>1, <3>2
    <2> QED
      BY <2>3, <2>4 DEF IsFirst
  <1> QED
    BY <1>2, <1>3, <1>4, <1>5

-----------------------------------------------------------------------------
(* Steps that mine none of the set-up's transactions.                         *)

\* Everything but what is said of extension.env and of the fault counter.
CommandInv ==
  /\ extensions \in Seq(Extension) /\ cachedId \in Seq(Nat)
  /\ \A i \in ExtensionIds : extensions[i].sender \in Senders
  /\ op \in [Operators -> Command]
  /\ \A p \in Operators : op[p].sender <= Len(cachedId) /\ op[p].id <= Len(extensions)
  /\ late \subseteq Transaction
  /\ \A tx \in late : tx.sender \in Senders /\ tx.id <= Len(extensions)
  /\ CommandsFit /\ LateFits /\ Alone /\ KeyTypeLast /\ BoundToFirst

\* What is said of extension.env.
ConfigInv ==
  /\ config \in Config /\ config.id <= Len(extensions) /\ config.sender <= Len(cachedId)
  /\ ConfigIsSetUp

LEMMA InvParts ==
  ASSUME CommandInv', ConfigInv', faults' \in 0 .. MaxFaults
  PROVE  SetupInv'
  BY DEF SetupInv, SetupTypeOK, CommandInv, ConfigInv

\* InstructionSenders are added, and none of them is bound elsewhere.
LEMMA SendersGrow ==
  ASSUME SetupInv, cachedId' \in {cachedId, Append(cachedId, 0)}, extensions' = extensions
  PROVE  /\ cachedId' \in Seq(Nat) /\ Len(cachedId) <= Len(cachedId')
         /\ Senders \subseteq Senders' /\ BoundToFirst'
  <1>1. cachedId \in Seq(Nat) /\ Len(cachedId) \in Nat
    BY DEF SetupInv, SetupTypeOK
  <1>2. /\ cachedId' \in Seq(Nat) /\ Len(cachedId') \in {Len(cachedId), Len(cachedId) + 1}
        /\ \A s \in Senders : cachedId'[s] = cachedId[s]
        /\ \A s \in Senders' : s \notin Senders => cachedId'[s] = 0
    BY <1>1 DEF Senders
  <1>3. Senders \subseteq Senders'
    BY <1>1, <1>2 DEF Senders
  <1>4. ASSUME NEW s \in Senders', cachedId'[s] # 0
        PROVE  cachedId'[s] \in IdsOf(s)' /\ \A i \in IdsOf(s)' : cachedId'[s] <= i
    <2>1. s \in Senders /\ cachedId'[s] = cachedId[s]
      BY <1>2, <1>4
    <2>2. IdsOf(s)' = IdsOf(s)
      BY DEF IdsOf, ExtensionIds
    <2> QED
      BY <1>4, <2>1, <2>2 DEF SetupInv, BoundToFirst, IsFirst
  <1> QED
    BY <1>1, <1>2, <1>3, <1>4 DEF BoundToFirst, IsFirst

(* The command of p becomes c, which holds no extension; what p was waiting    *)
(* for may be left behind, and a sender may be deployed.                      *)
LEMMA CommandChanges ==
  ASSUME SetupInv, NEW p \in Operators, NEW c \in Command, NEW left \in SUBSET {TxOf(p)},
         c.pc \notin GrantCalls \cup {"write"}, c.id <= Len(extensions),
         left # {} => op[p].pc \in SetupCalls,
         op' = [op EXCEPT ![p] = c], late' = late \cup left,
         extensions' = extensions, cachedId' \in {cachedId, Append(cachedId, 0)},
         c.sender <= Len(cachedId'), c.pc = "register" => c.sender \in Senders'
  PROVE  CommandInv'
  <1>1. /\ extensions \in Seq(Extension) /\ Len(extensions) \in Nat
        /\ cachedId \in Seq(Nat) /\ Len(cachedId) \in Nat
        /\ op \in [Operators -> Command] /\ late \subseteq Transaction
        /\ \A i \in ExtensionIds : extensions[i].sender \in Senders
        /\ \A q \in Operators : op[q].sender <= Len(cachedId) /\ op[q].id <= Len(extensions)
        /\ \A tx \in late : tx.sender \in Senders /\ tx.id <= Len(extensions)
    BY DEF SetupInv, SetupTypeOK
  <1>2. CommandsFit /\ LateFits /\ Alone /\ KeyTypeLast
    BY DEF SetupInv
  <1>3. /\ cachedId' \in Seq(Nat) /\ Len(cachedId) <= Len(cachedId') /\ Len(cachedId') \in Nat
        /\ Senders \subseteq Senders' /\ BoundToFirst' /\ ExtensionIds' = ExtensionIds
    BY SendersGrow DEF ExtensionIds
  <1>4. /\ op'[p] = c /\ \A q \in Operators : q # p => op'[q] = op[q]
        /\ op' \in [Operators -> Command]
    BY <1>1
  <1>5. \A q \in Operators : op'[q].sender <= Len(cachedId') /\ op'[q].id <= Len(extensions')
    <2>1. \A q \in Operators : op[q].sender \in Nat
      BY <1>1 DEF Command
    <2> QED
      BY <1>1, <1>3, <1>4, <2>1
  <1>6. \A tx \in left :
          /\ tx \in Transaction /\ tx.sender \in Senders /\ tx.id = op[p].id
          /\ tx.id <= Len(extensions)
          /\ tx.call # "register" =>
               /\ Holds(p) /\ tx.id \in ExtensionIds
               /\ SetUpSoFar(extensions[tx.id], tx.call, tx.from, tx.sender)
    <2>1. SUFFICES ASSUME left # {}
                   PROVE  LET tx == TxOf(p) IN
                          /\ tx \in Transaction /\ tx.sender \in Senders /\ tx.id = op[p].id
                          /\ tx.id <= Len(extensions)
                          /\ tx.call # "register" =>
                               /\ Holds(p) /\ tx.id \in ExtensionIds
                               /\ SetUpSoFar(extensions[tx.id], tx.call, tx.from, tx.sender)
      OBVIOUS
    <2>2. op[p].pc \in SetupCalls /\ op[p].sender \in Senders /\ faults \in Nat
      BY <1>2, <2>1, SetupAssumption DEF CommandsFit, SetupInv, SetupTypeOK
    <2>3. op[p].id \in Nat /\ op[p].sender \in Nat
      BY <1>1 DEF Command
    <2>4. TxOf(p) \in Transaction
      BY <2>2, <2>3 DEF TxOf, Transaction
    <2>5. /\ TxOf(p).call = op[p].pc /\ TxOf(p).from = p
          /\ TxOf(p).sender = op[p].sender /\ TxOf(p).id = op[p].id
      BY DEF TxOf
    <2>6. op[p].pc # "register" => Holds(p)
      BY <2>2 DEF Holds, SetupCalls, GrantCalls
    <2> QED
      BY <1>1, <1>2, <2>2, <2>4, <2>5, <2>6 DEF CommandsFit
  <1>7. /\ late' \subseteq Transaction
        /\ \A tx \in late' : tx.sender \in Senders' /\ tx.id <= Len(extensions')
    BY <1>1, <1>3, <1>6
  <1>8. \A q \in Operators : Holds(q)' => q # p /\ Holds(q)
    BY <1>4 DEF Holds
  <1>9. CommandsFit'
    <2>1. ASSUME NEW q \in Operators, op'[q].pc \in SetupCalls \cup {"write"}
          PROVE  op'[q].sender \in Senders'
      <3>1. CASE q = p
        BY <1>4, <2>1, <3>1 DEF SetupCalls, GrantCalls
      <3>2. CASE q # p
        BY <1>2, <1>3, <1>4, <2>1, <3>2 DEF CommandsFit
      <3> QED
        BY <3>1, <3>2
    <2>2. ASSUME NEW q \in Operators, Holds(q)'
          PROVE  /\ op'[q].id \in ExtensionIds'
                 /\ SetUpSoFar(extensions'[op'[q].id], op'[q].pc, q, op'[q].sender)
      BY <1>2, <1>3, <1>4, <1>8, <2>2 DEF CommandsFit
    <2> QED
      BY <2>1, <2>2 DEF CommandsFit
  <1>10. LateFits'
    BY <1>2, <1>3, <1>6 DEF LateFits
  <1>11. Alone'
    <2>1. \A q, r \in Operators : Holds(q)' /\ Holds(r)' /\ op'[q].id = op'[r].id => q = r
      BY <1>2, <1>4, <1>8 DEF Alone
    <2>2. \A q \in Operators, tx \in late' :
            Holds(q)' /\ tx.call # "register" => op'[q].id # tx.id
      BY <1>2, <1>4, <1>6, <1>8 DEF Alone
    <2>3. \A t1, t2 \in late' :
            t1.call # "register" /\ t2.call # "register" /\ t1.id = t2.id => t1 = t2
      BY <1>2, <1>6 DEF Alone
    <2> QED
      BY <2>1, <2>2, <2>3 DEF Alone
  <1>12. KeyTypeLast' /\ \A i \in ExtensionIds' : extensions'[i].sender \in Senders'
    BY <1>1, <1>2, <1>3 DEF KeyTypeLast
  <1> QED
    BY <1>1, <1>3, <1>4, <1>5, <1>7, <1>9, <1>10, <1>11, <1>12 DEF CommandInv

\* An extension.env that is not touched stays right while nothing is mined.
LEMMA ConfigStays ==
  ASSUME SetupInv, UNCHANGED <<config, extensions>>,
         cachedId' \in {cachedId, Append(cachedId, 0)}
  PROVE  ConfigInv'
  <1>1. Len(cachedId) <= Len(cachedId') /\ Len(cachedId) \in Nat /\ Len(cachedId') \in Nat
    BY SendersGrow DEF SetupInv, SetupTypeOK
  <1>2. config \in Config /\ config.sender \in Int
    BY DEF SetupInv, SetupTypeOK, Config
  <1> QED
    BY <1>1, <1>2 DEF ConfigInv, SetupInv, SetupTypeOK, ConfigIsSetUp, Complete

-----------------------------------------------------------------------------
(* Transactions that are mined, in time or late.                              *)

\* The conjuncts of the invariant, as the steps below use them.
LEMMA SetupFacts ==
  ASSUME SetupInv
  PROVE  /\ extensions \in Seq(Extension) /\ Len(extensions) \in Nat
         /\ \A i \in ExtensionIds : extensions[i] \in Extension
         /\ cachedId \in Seq(Nat) /\ Len(cachedId) \in Nat
         /\ op \in [Operators -> Command] /\ late \subseteq Transaction
         /\ \A q \in Operators : op[q].sender <= Len(cachedId) /\ op[q].id <= Len(extensions)
         /\ \A q \in Operators : op[q].sender \in Nat /\ op[q].id \in Nat
         /\ \A tx \in late : tx.sender \in Senders /\ tx.id <= Len(extensions)
         /\ \A tx \in late : tx.from \in Operators /\ tx.call \in SetupCalls /\ tx.id \in Nat
         /\ CommandsFit /\ LateFits /\ Alone /\ KeyTypeLast
         /\ config \in Config /\ config.id <= Len(extensions) /\ config.sender <= Len(cachedId)
         /\ faults \in 0 .. MaxFaults
  BY DEF SetupInv, SetupTypeOK, ExtensionIds, Command, Transaction

(* A registration, whose command knows the new id or is gone. *)
LEMMA RegisterGrows ==
  ASSUME SetupInv, NEW tx, tx.call = "register", tx.sender \in Senders,
         extensions' = Applied(tx), cachedId' = cachedId
  PROVE  /\ Grows /\ KeyTypeLast' /\ Len(extensions') = Len(extensions) + 1
         /\ extensions'[Len(extensions) + 1] = NewExtension(tx.sender)
         /\ \A i \in ExtensionIds : extensions'[i] = extensions[i]
         /\ ExtensionIds' = ExtensionIds \cup {Len(extensions) + 1}
         /\ Len(extensions) + 1 \notin ExtensionIds
  <1>1. extensions \in Seq(Extension) /\ Len(extensions) \in Nat /\ KeyTypeLast
    BY SetupFacts
  <1>2. tx.sender \in Nat
    BY DEF Senders
  <1>3. /\ extensions' \in Seq(Extension) /\ Len(extensions') = Len(extensions) + 1
        /\ extensions'[Len(extensions) + 1] = NewExtension(tx.sender)
        /\ \A i \in ExtensionIds : extensions'[i] = extensions[i]
    BY <1>1, <1>2, AppliedRegister
  <1>4. /\ ExtensionIds' = ExtensionIds \cup {Len(extensions) + 1}
        /\ Len(extensions) + 1 \notin ExtensionIds
    BY <1>1, <1>3 DEF ExtensionIds
  <1>5. ~NewExtension(tx.sender).evmType /\ NewExtension(tx.sender).sender = tx.sender
    BY DEF NewExtension
  <1>6. KeyTypeLast'
    BY <1>1, <1>3, <1>4, <1>5 DEF KeyTypeLast
  <1>7. Grows
    <2>1. \A i \in 1 .. Len(extensions') :
            i \notin ExtensionIds => extensions'[i].sender \in Senders
      BY <1>3, <1>4, <1>5 DEF ExtensionIds
    <2> QED
      BY <1>1, <1>3, <2>1 DEF Grows
  <1> QED
    BY <1>3, <1>4, <1>6, <1>7

(* A grant, made by the command that has the extension or left behind by it. *)
LEMMA GrantGrows ==
  ASSUME SetupInv, NEW tx, tx.call \in GrantCalls, tx.id \in ExtensionIds,
         tx.from \in Operators,
         SetUpSoFar(extensions[tx.id], tx.call, tx.from, tx.sender),
         extensions' = Applied(tx), cachedId' = cachedId
  PROVE  /\ Grows /\ KeyTypeLast' /\ Len(extensions') = Len(extensions)
         /\ ExtensionIds' = ExtensionIds
         /\ SetUpSoFar(extensions'[tx.id], AfterCall[tx.call], tx.from, tx.sender)
         /\ \A i \in ExtensionIds : i # tx.id => extensions'[i] = extensions[i]
  <1> DEFINE ext == extensions[tx.id]
             e == Grant(ext, tx.call, tx.from)
  <1>1. /\ extensions \in Seq(Extension) /\ Len(extensions) \in Nat
        /\ ext \in Extension /\ KeyTypeLast
    BY SetupFacts
  <1>2. /\ e \in Extension /\ SetUpSoFar(e, AfterCall[tx.call], tx.from, tx.sender)
        /\ e.sender = ext.sender
        /\ ext.machineOwners \subseteq e.machineOwners
        /\ ext.projectOwners \subseteq e.projectOwners
        /\ ext.evmType => e.evmType
        /\ e.evmType => e.machineOwners \subseteq e.projectOwners
    BY <1>1, GrantFits
  <1> HIDE DEF e
  <1>3. /\ extensions' \in Seq(Extension) /\ Len(extensions') = Len(extensions)
        /\ extensions'[tx.id] = e
        /\ \A i \in ExtensionIds : i # tx.id => extensions'[i] = extensions[i]
    BY <1>1, <1>2, AppliedGrant DEF e
  <1>4. ExtensionIds' = ExtensionIds
    BY <1>3 DEF ExtensionIds
  <1>5. KeyTypeLast'
    BY <1>1, <1>2, <1>3, <1>4 DEF KeyTypeLast
  <1>6. Grows
    <2>1. \A i \in 1 .. Len(extensions') : i \in ExtensionIds
      BY <1>3 DEF ExtensionIds
    <2>2. \A i \in ExtensionIds :
            /\ extensions'[i].sender = extensions[i].sender
            /\ extensions[i].machineOwners \subseteq extensions'[i].machineOwners
            /\ extensions[i].projectOwners \subseteq extensions'[i].projectOwners
            /\ extensions[i].evmType => extensions'[i].evmType
      BY <1>2, <1>3
    <2> QED
      BY <1>1, <1>3, <2>1, <2>2 DEF Grows
  <1> QED
    BY <1>2, <1>3, <1>4, <1>5, <1>6

LEMMA SetupExtensionStep ==
  ASSUME SetupInv, NEW p \in Operators, SetupExtension(p)
  PROVE  SetupInv'
  <1> DEFINE tx == TxOf(p)
             n == Len(extensions)
  <1>1. /\ op[p].pc \in SetupCalls /\ extensions' = Applied(tx)
        /\ UNCHANGED <<cachedId, config, late, faults>>
        /\ op' = [op EXCEPT ![p] = [@ EXCEPT !.pc = AfterCall[op[p].pc],
                     !.id = IF op[p].pc = "register" THEN EventId ELSE op[p].id]]
    BY DEF SetupExtension
  <1>2. /\ tx.call = op[p].pc /\ tx.from = p /\ tx.sender = op[p].sender /\ tx.id = op[p].id
    BY DEF TxOf
  <1>3. op[p].sender \in Senders /\ op[p].pc \in {"register"} \cup GrantCalls
    BY <1>1, SetupFacts DEF CommandsFit, SetupCalls, GrantCalls
  <1>4. AfterCall[op[p].pc] \in GrantCalls \cup {"write"}
    BY <1>1 DEF AfterCall, SetupCalls, GrantCalls
  <1>5. /\ op'[p].pc = AfterCall[op[p].pc] /\ op'[p].sender = op[p].sender
        /\ op'[p].id = IF op[p].pc = "register" THEN n + 1 ELSE op[p].id
        /\ \A q \in Operators : q # p => op'[q] = op[q]
    BY <1>1, SetupFacts DEF EventId, Command
  <1>6. op' \in [Operators -> Command]
    <2>1. n + 1 \in Nat /\ op \in [Operators -> Command]
      BY SetupFacts
    <2>2. AfterCall[op[p].pc] \in {"idle", "deploy", "write"} \cup SetupCalls
      BY <1>4 DEF GrantCalls, SetupCalls
    <2> QED
      BY <1>1, <2>1, <2>2 DEF EventId, Command
  <1> HIDE DEF tx, n
  <1>7. CASE op[p].pc = "register"
    <2>1. /\ Grows /\ KeyTypeLast' /\ Len(extensions') = n + 1
          /\ extensions'[n + 1] = NewExtension(op[p].sender)
          /\ \A i \in ExtensionIds : extensions'[i] = extensions[i]
          /\ ExtensionIds' = ExtensionIds \cup {n + 1} /\ n + 1 \notin ExtensionIds
      BY <1>1, <1>2, <1>3, <1>7, RegisterGrows DEF n
    <2>2. op'[p].pc = "machineOwner" /\ op'[p].id = n + 1
      BY <1>5, <1>7 DEF AfterCall
    <2>3. SetUpSoFar(extensions'[n + 1], "machineOwner", p, op[p].sender)
      BY <2>1 DEF SetUpSoFar, NewExtension
    <2>4. \A q \in Operators : q # p => (Holds(q)' <=> Holds(q))
      BY <1>5 DEF Holds
    <2>5. CommandsFit'
      <3>1. \A q \in Operators :
              op'[q].pc \in SetupCalls \cup {"write"} => op'[q].sender \in Senders'
        BY <1>1, <1>3, <1>5, SetupFacts DEF CommandsFit, Senders
      <3>2. ASSUME NEW q \in Operators, Holds(q)'
            PROVE  /\ op'[q].id \in ExtensionIds'
                   /\ SetUpSoFar(extensions'[op'[q].id], op'[q].pc, q, op'[q].sender)
        <4>1. CASE q = p
          BY <1>5, <2>1, <2>2, <2>3, <4>1
        <4>2. CASE q # p
          BY <1>5, <2>1, <2>4, <3>2, <4>2, SetupFacts DEF CommandsFit
        <4> QED
          BY <4>1, <4>2
      <3> QED
        BY <3>1, <3>2 DEF CommandsFit
    <2>6. LateFits'
      BY <1>1, <2>1, SetupFacts DEF LateFits
    <2>7. Alone'
      <3>1. \A q \in Operators : Holds(q) => op[q].id # n + 1
        BY <2>1, SetupFacts DEF CommandsFit
      <3>2. \A t \in late : t.call # "register" => t.id # n + 1
        BY <2>1, SetupFacts DEF LateFits
      <3>3. Alone
        BY SetupFacts
      <3> QED
        BY <1>1, <1>5, <2>2, <2>4, <3>1, <3>2, <3>3 DEF Alone
    <2>8. SetupTypeOK' /\ ConfigIsSetUp' /\ BoundToFirst'
      <3>1. /\ ConfigIsSetUp' /\ BoundToFirst'
            /\ \A i \in ExtensionIds' : extensions'[i].sender \in Senders'
            /\ config.id <= Len(extensions')
        BY <1>1, <2>1, GrowsKeeps
      <3>2. n \in Nat /\ n = Len(extensions)
        BY SetupFacts DEF n
      <3>3. \A q \in Operators : op'[q].sender <= Len(cachedId) /\ op'[q].id <= n + 1
        BY <1>5, <2>2, <3>2, SetupFacts
      <3>4. \A t \in late : t.sender \in Senders /\ t.id <= n + 1
        BY <3>2, SetupFacts
      <3> QED
        BY <1>1, <1>6, <2>1, <3>1, <3>3, <3>4, SetupFacts DEF SetupTypeOK, Grows, Senders
    <2> QED
      BY <2>1, <2>5, <2>6, <2>7, <2>8 DEF SetupInv
  <1>8. CASE op[p].pc \in GrantCalls
    <2>1. Holds(p) /\ op[p].pc # "register"
      BY <1>8 DEF Holds, GrantCalls
    <2>2. /\ op[p].id \in ExtensionIds
          /\ SetUpSoFar(extensions[op[p].id], op[p].pc, p, op[p].sender)
      BY <2>1, SetupFacts DEF CommandsFit
    <2>3. /\ Grows /\ KeyTypeLast' /\ Len(extensions') = Len(extensions)
          /\ ExtensionIds' = ExtensionIds
          /\ SetUpSoFar(extensions'[op[p].id], AfterCall[op[p].pc], p, op[p].sender)
          /\ \A i \in ExtensionIds : i # op[p].id => extensions'[i] = extensions[i]
      BY <1>1, <1>2, <1>8, <2>2, GrantGrows
    <2>4. op'[p].id = op[p].id /\ Holds(p)'
      BY <1>4, <1>5, <2>1 DEF Holds
    <2>5. \A q \in Operators : (Holds(q)' <=> Holds(q)) /\ op'[q].id = op[q].id
      BY <1>5, <2>1, <2>4 DEF Holds
    <2>6. CommandsFit'
      <3>1. \A q \in Operators :
              op'[q].pc \in SetupCalls \cup {"write"} => op'[q].sender \in Senders'
        BY <1>1, <1>3, <1>5, SetupFacts DEF CommandsFit, Senders
      <3>2. ASSUME NEW q \in Operators, Holds(q)'
            PROVE  /\ op'[q].id \in ExtensionIds'
                   /\ SetUpSoFar(extensions'[op'[q].id], op'[q].pc, q, op'[q].sender)
        <4>1. CASE q = p
          BY <1>5, <2>2, <2>3, <2>4, <4>1
        <4>2. CASE q # p
          <5>1. /\ op[q].id \in ExtensionIds
                /\ SetUpSoFar(extensions[op[q].id], op[q].pc, q, op[q].sender)
            BY <2>5, <3>2, SetupFacts DEF CommandsFit
          <5>2. op[q].id # op[p].id
            BY <2>1, <2>5, <3>2, <4>2, SetupFacts DEF Alone
          <5> QED
            BY <1>5, <2>3, <4>2, <5>1, <5>2
        <4> QED
          BY <4>1, <4>2
      <3> QED
        BY <3>1, <3>2 DEF CommandsFit
    <2>7. LateFits'
      <3>1. \A t \in late : t.call # "register" => t.id # op[p].id
        BY <2>1, SetupFacts DEF Alone
      <3> QED
        BY <1>1, <2>3, <3>1, SetupFacts DEF LateFits
    <2>8. Alone'
      BY <1>1, <2>5, SetupFacts DEF Alone
    <2>9. SetupTypeOK' /\ ConfigIsSetUp' /\ BoundToFirst'
      <3>1. /\ ConfigIsSetUp' /\ BoundToFirst'
            /\ \A i \in ExtensionIds' : extensions'[i].sender \in Senders'
            /\ config.id <= Len(extensions')
        BY <1>1, <2>3, GrowsKeeps
      <3>2. \A q \in Operators : op'[q].sender <= Len(cachedId) /\ op'[q].id <= Len(extensions)
        BY <1>5, <2>5, SetupFacts
      <3> QED
        BY <1>1, <1>6, <2>3, <3>1, <3>2, SetupFacts DEF SetupTypeOK, Grows, Senders
    <2> QED
      BY <2>3, <2>6, <2>7, <2>8, <2>9 DEF SetupInv
  <1> QED
    BY <1>3, <1>7, <1>8

LEMMA LateMinedStep ==
  ASSUME SetupInv, NEW tx \in late, LateMined(tx)
  PROVE  SetupInv'
  <1>1. /\ extensions' = Applied(tx) /\ late' = late \ {tx}
        /\ UNCHANGED <<cachedId, config, op, faults>>
    BY DEF LateMined
  <1>2. /\ tx.sender \in Senders /\ tx.from \in Operators
        /\ tx.call \in {"register"} \cup GrantCalls
    BY SetupFacts DEF SetupCalls, GrantCalls
  <1>3. /\ Grows /\ KeyTypeLast'
        /\ \A i \in ExtensionIds :
             tx.call = "register" \/ i # tx.id => extensions'[i] = extensions[i]
    <2>1. CASE tx.call = "register"
      BY <1>1, <1>2, <2>1, RegisterGrows
    <2>2. CASE tx.call \in GrantCalls
      <3>1. /\ tx.call # "register" /\ tx.id \in ExtensionIds
            /\ SetUpSoFar(extensions[tx.id], tx.call, tx.from, tx.sender)
        BY <2>2, SetupFacts DEF LateFits, GrantCalls
      <3> QED
        BY <1>1, <1>2, <2>2, <3>1, GrantGrows
    <2> QED
      BY <1>2, <2>1, <2>2
  <1>4. /\ ConfigIsSetUp' /\ BoundToFirst' /\ config.id <= Len(extensions')
        /\ \A i \in ExtensionIds' : extensions'[i].sender \in Senders'
        /\ ExtensionIds \subseteq ExtensionIds'
    BY <1>1, <1>3, GrowsKeeps
  <1>5. CommandsFit'
    <2>1. \A q \in Operators :
            op'[q].pc \in SetupCalls \cup {"write"} => op'[q].sender \in Senders'
      BY <1>1, SetupFacts DEF CommandsFit, Senders
    <2>2. ASSUME NEW q \in Operators, Holds(q)'
          PROVE  /\ op'[q].id \in ExtensionIds'
                 /\ SetUpSoFar(extensions'[op'[q].id], op'[q].pc, q, op'[q].sender)
      <3>1. Holds(q) /\ op'[q] = op[q]
        BY <1>1, <2>2 DEF Holds
      <3>2. /\ op[q].id \in ExtensionIds
            /\ SetUpSoFar(extensions[op[q].id], op[q].pc, q, op[q].sender)
        BY <3>1, SetupFacts DEF CommandsFit
      <3>3. tx.call # "register" => op[q].id # tx.id
        BY <3>1, SetupFacts DEF Alone
      <3> QED
        BY <1>3, <1>4, <3>1, <3>2, <3>3
    <2> QED
      BY <2>1, <2>2 DEF CommandsFit
  <1>6. LateFits'
    <2>1. ASSUME NEW t \in late', t.call # "register"
          PROVE  /\ t.id \in ExtensionIds'
                 /\ SetUpSoFar(extensions'[t.id], t.call, t.from, t.sender)
      <3>1. t \in late /\ t # tx
        BY <1>1, <2>1
      <3>2. /\ t.id \in ExtensionIds
            /\ SetUpSoFar(extensions[t.id], t.call, t.from, t.sender)
        BY <2>1, <3>1, SetupFacts DEF LateFits
      <3>3. tx.call # "register" => t.id # tx.id
        BY <2>1, <3>1, SetupFacts DEF Alone
      <3> QED
        BY <1>3, <1>4, <3>2, <3>3
    <2> QED
      BY <2>1 DEF LateFits
  <1>7. Alone'
    BY <1>1, SetupFacts DEF Alone, Holds
  <1>8. SetupTypeOK'
    <2>1. Len(extensions) <= Len(extensions') /\ extensions' \in Seq(Extension)
      BY <1>3 DEF Grows
    <2>2. Len(extensions) \in Nat /\ Len(extensions') \in Nat
      BY <2>1, SetupFacts
    <2>3. \A q \in Operators : op[q].sender <= Len(cachedId) /\ op[q].id <= Len(extensions')
      BY <2>1, <2>2, SetupFacts
    <2>4. late' \subseteq late /\ \A t \in late : t.sender \in Senders /\ t.id <= Len(extensions')
      BY <1>1, <2>1, <2>2, SetupFacts
    <2> QED
      BY <1>1, <1>4, <2>1, <2>3, <2>4, SetupFacts DEF SetupTypeOK, Senders
  <1> QED
    BY <1>3, <1>4, <1>5, <1>6, <1>7, <1>8 DEF SetupInv

-----------------------------------------------------------------------------
(* The other steps.                                                           *)

LEMMA NoCommandFits ==
  /\ NoCommand \in Command /\ NoCommand.pc = "idle"
  /\ NoCommand.sender = 0 /\ NoCommand.id = 0
  BY DEF NoCommand, Command

LEMMA StartStep ==
  ASSUME SetupInv, NEW p \in Operators,
         StartPreBuild(p) \/ \E s \in Senders : StartRegister(p, s)
  PROVE  SetupInv'
  <1>1. UNCHANGED <<extensions, cachedId, config, late, faults>>
    BY DEF StartPreBuild, StartRegister
  <1>2. PICK c \in Command :
          /\ op' = [op EXCEPT ![p] = c] /\ c.pc \in {"deploy", "register"} /\ c.id = 0
          /\ c.sender \in Senders \cup {0} /\ (c.pc = "register" => c.sender \in Senders)
    <2>1. CASE StartPreBuild(p)
      <3> DEFINE c == [NoCommand EXCEPT !.pc = "deploy", !.preBuild = TRUE]
      <3>1. c \in Command /\ c.pc = "deploy" /\ c.id = 0 /\ c.sender = 0
        BY DEF NoCommand, Command
      <3>2. op' = [op EXCEPT ![p] = c]
        BY <2>1 DEF StartPreBuild
      <3> QED
        BY <3>1, <3>2
    <2>2. CASE \E s \in Senders : StartRegister(p, s)
      <3>1. PICK s \in Senders : StartRegister(p, s)
        BY <2>2
      <3> DEFINE c == [NoCommand EXCEPT !.pc = "register", !.sender = s]
      <3>2. c.pc = "register" /\ c.id = 0 /\ c.sender = s
        BY DEF NoCommand
      <3>3. c \in Command
        <4>1. s \in Nat /\ "register" \in SetupCalls
          BY SetupFacts DEF Senders, SetupCalls
        <4> QED
          BY <4>1 DEF NoCommand, Command
      <3>4. op' = [op EXCEPT ![p] = c]
        BY <3>1 DEF StartRegister
      <3> QED
        BY <3>2, <3>3, <3>4
    <2> QED
      BY <2>1, <2>2
  <1>3. c.sender <= Len(cachedId) /\ c.id <= Len(extensions)
    BY <1>2, SetupFacts DEF Senders
  <1>4. CommandInv'
    <2>1. late' = late \cup {} /\ {} \in SUBSET {TxOf(p)} /\ Senders' = Senders
      BY <1>1 DEF Senders
    <2>2. c.pc \notin GrantCalls \cup {"write"}
      BY <1>2 DEF GrantCalls
    <2> QED
      BY <1>1, <1>2, <1>3, <2>1, <2>2, CommandChanges
  <1> QED
    BY <1>1, <1>4, ConfigStays, SetupFacts, InvParts

LEMMA DeployStep ==
  ASSUME SetupInv, NEW p \in Operators, DeployInstructionSender(p)
  PROVE  SetupInv'
  <1> DEFINE c == [op[p] EXCEPT !.pc = "register", !.sender = Len(cachedId) + 1]
  <1>1. /\ UNCHANGED <<extensions, config, late, faults>> /\ op[p].pc = "deploy"
        /\ cachedId' = Append(cachedId, 0) /\ op' = [op EXCEPT ![p] = c]
    BY DEF DeployInstructionSender
  <1>2. op[p] \in Command /\ cachedId \in Seq(Nat) /\ Len(cachedId) \in Nat
    BY SetupFacts
  <1>3. op[p].id <= Len(extensions)
    BY SetupFacts
  <1>4. /\ c \in Command /\ c.pc = "register" /\ c.sender = Len(cachedId) + 1
        /\ c.id <= Len(extensions)
    <2>1. Len(cachedId) + 1 \in Nat /\ "register" \in SetupCalls
      BY <1>2 DEF SetupCalls
    <2> QED
      BY <1>2, <1>3, <2>1 DEF Command
  <1>5. Len(cachedId') = Len(cachedId) + 1 /\ c.sender \in Senders' /\ c.sender <= Len(cachedId')
    BY <1>1, <1>2, <1>4 DEF Senders
  <1> HIDE DEF c
  <1>6. CommandInv'
    <2>1. late' = late \cup {} /\ {} \in SUBSET {TxOf(p)}
      BY <1>1
    <2>2. c.pc \notin GrantCalls \cup {"write"}
      BY <1>4 DEF GrantCalls
    <2> QED
      BY <1>1, <1>4, <1>5, <2>1, <2>2, CommandChanges
  <1> QED
    BY <1>1, <1>6, ConfigStays, SetupFacts, InvParts

\* The command of p is over: it has written its file, torn it, or failed.
LEMMA EndCommand ==
  ASSUME SetupInv, NEW p \in Operators, NEW left \in SUBSET {TxOf(p)},
         left # {} => op[p].pc \in SetupCalls,
         op' = [op EXCEPT ![p] = NoCommand], late' = late \cup left,
         extensions' = extensions, cachedId' \in {cachedId, Append(cachedId, 0)}
  PROVE  CommandInv'
  <1>1. /\ NoCommand.pc \notin GrantCalls \cup {"write"} /\ NoCommand.pc # "register"
        /\ NoCommand \in Command /\ NoCommand.sender = 0 /\ NoCommand.id = 0
    BY NoCommandFits DEF GrantCalls
  <1>2. 0 <= Len(extensions) /\ 0 <= Len(cachedId')
    <2>1. cachedId' \in Seq(Nat)
      BY SendersGrow
    <2> QED
      BY <2>1, SetupFacts
  <1> QED
    BY <1>1, <1>2, CommandChanges

LEMMA WriteConfigStep ==
  ASSUME SetupInv, NEW p \in Operators, WriteConfig(p)
  PROVE  SetupInv'
  <1> DEFINE f == File(op[p].id, op[p].sender, FALSE)
             ext == extensions[op[p].id]
  <1>1. /\ UNCHANGED <<extensions, cachedId, late, faults>> /\ op[p].pc = "write"
        /\ op' = [op EXCEPT ![p] = NoCommand]
        /\ config' = IF op[p].preBuild THEN f ELSE config
    BY DEF WriteConfig
  <1>2. CommandInv'
    <2>1. late' = late \cup {} /\ {} \in SUBSET {TxOf(p)}
      BY <1>1
    <2> QED
      BY <1>1, <2>1, EndCommand
  <1>3. CASE op[p].preBuild
    <2>1. SetUpSoFar(ext, "write", p, op[p].sender)
      BY <1>1, SetupFacts DEF CommandsFit, Holds
    <2>2. ext.sender = op[p].sender /\ ext.evmType /\ ext.machineOwners \cap ext.projectOwners # {}
      BY <2>1 DEF SetUpSoFar
    <2>3. /\ f \in Config /\ f.id = op[p].id /\ f.sender = op[p].sender
          /\ f.id <= Len(extensions) /\ f.sender <= Len(cachedId)
      BY SetupFacts DEF File, Config
    <2>4. config' = f
      BY <1>1, <1>3
    <2> HIDE DEF f
    <2>5. ConfigInv'
      <3>1. extensions'[config'.id] = ext /\ config'.sender = op[p].sender
        BY <1>1, <2>3, <2>4
      <3>2. ConfigIsSetUp'
        BY <2>2, <3>1 DEF ConfigIsSetUp
      <3> QED
        BY <1>1, <2>3, <2>4, <3>2 DEF ConfigInv
    <2> QED
      BY <1>1, <1>2, <2>5, SetupFacts, InvParts
  <1>4. CASE ~op[p].preBuild
    BY <1>1, <1>2, <1>4, ConfigStays, SetupFacts, InvParts
  <1> QED
    BY <1>3, <1>4

LEMMA TornWriteStep ==
  ASSUME SetupInv, NEW p \in Operators, TornWrite(p)
  PROVE  SetupInv'
  <1>1. /\ UNCHANGED <<extensions, cachedId, late>>
        /\ op' = [op EXCEPT ![p] = NoCommand] /\ faults < MaxFaults /\ faults' = faults + 1
    BY DEF TornWrite
  <1>2. faults' \in 0 .. MaxFaults
    BY <1>1, SetupFacts, SetupAssumption
  <1>3. CommandInv'
    <2>1. late' = late \cup {} /\ {} \in SUBSET {TxOf(p)}
      BY <1>1
    <2> QED
      BY <1>1, <2>1, EndCommand
  <1>4. PICK id \in {0, Malformed, op[p].id}, sender \in {0, Malformed} :
          config' = File(id, sender, FALSE)
    <2>1. PICK torn \in {<<0, 0>>, <<Malformed, 0>>, <<op[p].id, 0>>, <<op[p].id, Malformed>>} :
            config' = File(torn[1], torn[2], FALSE)
      BY DEF TornWrite
    <2>2. torn[1] \in {0, Malformed, op[p].id} /\ torn[2] \in {0, Malformed}
      OBVIOUS
    <2> QED
      BY <2>1, <2>2
  <1>5. /\ id \in Int /\ sender \in Int /\ sender <= 0
        /\ id <= Len(extensions) /\ sender <= Len(cachedId)
    BY <1>4, SetupFacts DEF Malformed
  <1>6. config' \in Config /\ config'.id = id /\ config'.sender = sender
    BY <1>4, <1>5 DEF File, Config
  <1>7. ConfigInv'
    <2>1. ~(config'.sender > 0)
      BY <1>5, <1>6
    <2> QED
      BY <1>1, <1>5, <1>6, <2>1 DEF ConfigInv, ConfigIsSetUp, Complete
  <1> QED
    BY <1>2, <1>3, <1>7, InvParts

LEMMA DieStep ==
  ASSUME SetupInv, NEW p \in Operators, Die(p)
  PROVE  SetupInv'
  <1>1. /\ UNCHANGED <<extensions, config>> /\ faults < MaxFaults /\ faults' = faults + 1
        /\ op' = [op EXCEPT ![p] = NoCommand]
    BY DEF Die
  <1>2. faults' \in 0 .. MaxFaults
    BY <1>1, SetupFacts, SetupAssumption
  <1>3. PICK left \in SUBSET {TxOf(p)} :
          /\ left # {} => op[p].pc \in SetupCalls
          /\ late' = late \cup left /\ cachedId' \in {cachedId, Append(cachedId, 0)}
    <2>1. CASE UNCHANGED <<late, cachedId>>
      <3>1. late' = late \cup {} /\ {} \in SUBSET {TxOf(p)}
        BY <2>1
      <3> QED
        BY <2>1, <3>1
    <2>2. CASE op[p].pc \in SetupCalls /\ late' = late \cup {TxOf(p)} /\ UNCHANGED cachedId
      BY <2>2
    <2>3. CASE op[p].pc = "deploy" /\ cachedId' = Append(cachedId, 0) /\ UNCHANGED late
      <3>1. late' = late \cup {} /\ {} \in SUBSET {TxOf(p)}
        BY <2>3
      <3> QED
        BY <2>3, <3>1
    <2> QED
      BY <2>1, <2>2, <2>3 DEF Die
  <1>4. CommandInv' /\ ConfigInv'
    BY <1>1, <1>3, EndCommand, ConfigStays
  <1> QED
    BY <1>2, <1>4, InvParts

LEMMA EditConfigStep ==
  ASSUME SetupInv, NEW id \in ExtensionIds, NEW s \in Senders, EditConfig(id, s)
  PROVE  SetupInv'
  <1>1. UNCHANGED <<extensions, cachedId, op, late, faults>> /\ config' = File(id, s, TRUE)
    BY DEF EditConfig
  <1>2. /\ config' \in Config /\ config'.byHand
        /\ config'.id <= Len(extensions) /\ config'.sender <= Len(cachedId)
    BY <1>1, SetupFacts DEF File, Config, ExtensionIds, Senders
  <1>3. ConfigInv'
    BY <1>1, <1>2 DEF ConfigInv, ConfigIsSetUp
  <1>4. CommandInv'
    BY <1>1 DEF SetupInv, SetupTypeOK, CommandInv, ExtensionIds, Senders, CommandsFit, Holds,
                LateFits, Alone, KeyTypeLast, BoundToFirst, IsFirst, IdsOf
  <1> QED
    BY <1>1, <1>3, <1>4, SetupFacts, InvParts

LEMMA SetExtensionIdStep ==
  ASSUME SetupInv, NEW s \in Senders, SetExtensionId(s)
  PROVE  SetupInv'
  <1> DEFINE id == FoundId(s)
  <1>1. /\ UNCHANGED <<extensions, config, op, late, faults>> /\ id # 0
        /\ cachedId' = [cachedId EXCEPT ![s] = id]
    BY DEF SetExtensionId
  <1>2. cachedId \in Seq(Nat) /\ Len(cachedId) \in Nat /\ Len(extensions) \in Nat
    BY SetupFacts
  <1>3. id \in IdsOf(s) /\ \A i \in IdsOf(s) : id <= i
    BY <1>1, <1>2, FoundIsFirst DEF IsFirst
  <1>4. id \in Nat
    BY <1>3 DEF IdsOf, ExtensionIds
  <1> HIDE DEF id
  <1>5. /\ cachedId' \in Seq(Nat) /\ Len(cachedId') = Len(cachedId) /\ cachedId'[s] = id
        /\ \A t \in Senders : t # s => cachedId'[t] = cachedId[t]
    BY <1>1, <1>2, <1>4 DEF Senders
  <1>6. Senders' = Senders /\ ExtensionIds' = ExtensionIds
    BY <1>1, <1>5 DEF Senders, ExtensionIds
  <1>7. BoundToFirst'
    <2>1. ASSUME NEW t \in Senders', cachedId'[t] # 0
          PROVE  cachedId'[t] \in IdsOf(t)' /\ \A i \in IdsOf(t)' : cachedId'[t] <= i
      <3>1. IdsOf(t)' = IdsOf(t)
        BY <1>1, <1>6 DEF IdsOf
      <3>2. CASE t = s
        BY <1>3, <1>5, <3>1, <3>2
      <3>3. CASE t # s
        BY <1>5, <1>6, <2>1, <3>1, <3>3 DEF SetupInv, BoundToFirst, IsFirst
      <3> QED
        BY <3>2, <3>3
    <2> QED
      BY <2>1 DEF BoundToFirst, IsFirst
  <1>8. CommandsFit' /\ LateFits' /\ Alone' /\ KeyTypeLast'
    BY <1>1, <1>6, SetupFacts DEF CommandsFit, LateFits, Alone, KeyTypeLast, Holds
  <1>9. SetupTypeOK' /\ ConfigIsSetUp'
    BY <1>1, <1>5, <1>6 DEF SetupInv, SetupTypeOK, ConfigIsSetUp, Complete
  <1> QED
    BY <1>7, <1>8, <1>9 DEF SetupInv

LEMMA SetupStarts == SetupInit => SetupInv
  <1> SUFFICES ASSUME SetupInit PROVE SetupInv
    OBVIOUS
  <1>1. /\ extensions = <<>> /\ cachedId = <<>> /\ late = {} /\ config = NoConfig /\ faults = 0
        /\ op = [p \in Operators |-> NoCommand]
    BY DEF SetupInit
  <1>2. /\ extensions \in Seq(Extension) /\ cachedId \in Seq(Nat)
        /\ Len(extensions) = 0 /\ Len(cachedId) = 0
    BY <1>1
  <1>3. ExtensionIds = {} /\ Senders = {}
    BY <1>2 DEF ExtensionIds, Senders
  <1>4. /\ config \in Config /\ config.id = 0 /\ config.sender = 0 /\ ~Complete(config)
    BY <1>1 DEF NoConfig, Config, Complete
  <1>5. \A p \in Operators : op[p] = NoCommand
    BY <1>1
  <1>6. SetupTypeOK
    BY <1>1, <1>2, <1>3, <1>4, <1>5, NoCommandFits, SetupAssumption DEF SetupTypeOK
  <1>7. CommandsFit /\ LateFits /\ Alone
    BY <1>1, <1>5, NoCommandFits
       DEF CommandsFit, LateFits, Alone, Holds, GrantCalls, SetupCalls
  <1> QED
    BY <1>3, <1>4, <1>6, <1>7 DEF SetupInv, KeyTypeLast, ConfigIsSetUp, BoundToFirst

LEMMA SetupStepKeeps ==
  ASSUME SetupInv, SetupNext
  PROVE  SetupInv'
  <1>1. ASSUME NEW p \in Operators,
               \/ StartPreBuild(p) \/ OperatorStep(p) \/ Die(p) \/ TornWrite(p)
               \/ \E s \in Senders : StartRegister(p, s)
        PROVE  SetupInv'
    BY <1>1, StartStep, DeployStep, SetupExtensionStep, WriteConfigStep, DieStep, TornWriteStep
       DEF OperatorStep
  <1> QED
    BY <1>1, LateMinedStep, SetExtensionIdStep, EditConfigStep DEF SetupNext

(* Whoever does what, the registry only grows, and extension.env is written    *)
(* whole or in part but not removed.                                          *)
LEMMA SetupGrows ==
  ASSUME SetupInv, SetupNext
  PROVE  Grows /\ (config' = config \/ config'.exists)
  <1>1. ASSUME extensions' = extensions PROVE Grows
    <2>1. extensions \in Seq(Extension) /\ Len(extensions) \in Nat
      BY SetupFacts
    <2> QED
      BY <1>1, <2>1 DEF Grows, ExtensionIds
  <1>2. ASSUME NEW p \in Operators, SetupExtension(p) PROVE Grows /\ config' = config
    <2>1. /\ extensions' = Applied(TxOf(p)) /\ UNCHANGED <<cachedId, config>>
          /\ op[p].pc \in {"register"} \cup GrantCalls /\ op[p].sender \in Senders
          /\ op[p].pc \in GrantCalls => Holds(p)
      BY <1>2, SetupFacts DEF SetupExtension, CommandsFit, SetupCalls, GrantCalls, Holds
    <2>2. /\ TxOf(p).call = op[p].pc /\ TxOf(p).from = p
          /\ TxOf(p).sender = op[p].sender /\ TxOf(p).id = op[p].id
      BY DEF TxOf
    <2>3. CASE op[p].pc = "register"
      BY <2>1, <2>2, <2>3, RegisterGrows
    <2>4. CASE op[p].pc \in GrantCalls
      BY <2>1, <2>2, <2>4, SetupFacts, GrantGrows DEF CommandsFit
    <2> QED
      BY <2>1, <2>3, <2>4
  <1>3. ASSUME NEW tx \in late, LateMined(tx) PROVE Grows /\ config' = config
    <2>1. /\ extensions' = Applied(tx) /\ UNCHANGED <<cachedId, config>>
          /\ tx.call \in {"register"} \cup GrantCalls /\ tx.sender \in Senders
          /\ tx.from \in Operators
      BY <1>3, SetupFacts DEF LateMined, SetupCalls, GrantCalls
    <2>2. CASE tx.call = "register"
      BY <2>1, <2>2, RegisterGrows
    <2>3. CASE tx.call \in GrantCalls
      BY <2>1, <2>3, SetupFacts, GrantGrows DEF LateFits, GrantCalls
    <2> QED
      BY <2>1, <2>2, <2>3
  <1>4. ASSUME NEW p \in Operators,
               \/ StartPreBuild(p) \/ DeployInstructionSender(p) \/ WriteConfig(p) \/ Die(p)
               \/ TornWrite(p) \/ \E s \in Senders : StartRegister(p, s)
        PROVE  extensions' = extensions /\ (config' = config \/ config'.exists)
    <2>1. \A id, sender : File(id, sender, FALSE).exists
      BY DEF File
    <2>2. CASE WriteConfig(p) \/ TornWrite(p)
      BY <2>1, <2>2 DEF WriteConfig, TornWrite
    <2>3. CASE \/ StartPreBuild(p) \/ DeployInstructionSender(p) \/ Die(p)
               \/ \E s \in Senders : StartRegister(p, s)
      BY <2>3 DEF StartPreBuild, DeployInstructionSender, Die, StartRegister
    <2> QED
      BY <1>4, <2>2, <2>3
  <1>5. ASSUME NEW s \in Senders, SetExtensionId(s)
        PROVE  extensions' = extensions /\ config' = config
    BY <1>5 DEF SetExtensionId
  <1>6. ASSUME NEW id \in ExtensionIds, NEW s \in Senders, EditConfig(id, s)
        PROVE  extensions' = extensions /\ config'.exists
    BY <1>6 DEF EditConfig, File
  <1> QED
    BY <1>1, <1>2, <1>3, <1>4, <1>5, <1>6 DEF SetupNext, OperatorStep

LEMMA SetupUnchanged ==
  ASSUME SetupInv, UNCHANGED <<extensions, cachedId, config, op, late>>,
         faults' \in 0 .. MaxFaults
  PROVE  SetupInv'
  <1>1. SetupTypeOK' /\ ConfigIsSetUp'
    BY DEF SetupInv, SetupTypeOK, ConfigIsSetUp, Complete, ExtensionIds, Senders
  <1>2. CommandsFit' /\ LateFits' /\ Alone' /\ KeyTypeLast' /\ BoundToFirst'
    BY DEF SetupInv, ExtensionIds, Senders, CommandsFit, Holds,
           LateFits, Alone, KeyTypeLast, BoundToFirst, IsFirst, IdsOf
  <1> QED
    BY <1>1, <1>2 DEF SetupInv

LEMMA SetupAlways == SetupSpec => []SetupInv
  <1>1. ASSUME SetupInv, [SetupNext]_setupVars PROVE SetupInv'
    BY <1>1, SetupStepKeeps, SetupUnchanged, SetupFacts DEF setupVars
  <1> QED
    BY <1>1, SetupStarts, PTL DEF SetupSpec

(* Every variable of the set-up keeps its type, and what commands, pending     *)
(* transactions and extension.env refer to exists on chain, for any operators  *)
(* and however often commands fail or transactions are mined late.             *)
THEOREM SetupTypes == SetupSpec => []SetupTypeOK
  <1>1. SetupInv => SetupTypeOK
    BY DEF SetupInv
  <1> QED
    BY <1>1, SetupAlways, PTL

(* A whole extension.env that pre-build.sh wrote names an extension that is    *)
(* completely set up for its own sender: the order of SetupExtension's         *)
(* transactions and of the write makes it so, for any interleaving with other  *)
(* operators, failures and late transactions.                                  *)
THEOREM WrittenConfigIsSetUp == SetupSpec => []ConfigIsSetUp
  <1>1. SetupInv => ConfigIsSetUp
    BY DEF SetupInv
  <1> QED
    BY <1>1, SetupAlways, PTL

(* setExtensionId binds a contract to the first extension registered for it,   *)
(* and no later registration or call moves it.                                 *)
THEOREM SenderIsBoundToFirst == SetupSpec => []BoundToFirst
  <1>1. SetupInv => BoundToFirst
    BY DEF SetupInv
  <1> QED
    BY <1>1, SetupAlways, PTL

=============================================================================
