------------------------ MODULE TeeRegistrationProofs ------------------------
(***************************************************************************)
(* The state file of register-tee never lists a step that did not happen,  *)
(* and a run of the complete command line names the newest challenge and   *)
(* check, for every set of command lines and every bound on faults.        *)
(***************************************************************************)
EXTENDS TeeRegistration, TLAPS

\* The step that waits for a transaction of this kind.
Fits(kind) ==
  /\ run.pc \in {"r", "R"} => kind \in {"register", "attest"}
  /\ run.pc = "a" => kind = "check"

\* Only the newest transaction is waited for, and by the step that sent it.
WatchedFits ==
  \A i \in DOMAIN pending :
    pending[i].watched =>
      /\ i = Len(pending)
      /\ run.receipt = "pending"
      /\ Fits(pending[i].kind)

\* A success receipt carries an id of the kind its step asked for.
ReceiptFits ==
  run.receipt = "success" =>
    /\ run.pc \in {"r", "R"} => run.mined \in DOMAIN attests
    /\ run.pc = "a" => run.mined \in DOMAIN checks

\* A tool that does not run waits for nothing.
IdleFits == run.pc = "off" => run.receipt = "none"

RegInv == RegTypeOK /\ StateTruthful /\ WatchedFits /\ ReceiptFits /\ IdleFits

LEMMA RegInitially == RegInit => RegInv
  <1> SUFFICES ASSUME RegInit PROVE RegInv
    OBVIOUS
  <1>1. EmptyState \in RegState /\ Stopped \in Run
    BY RegistrationAssumption
    DEF EmptyState, RegState, Stopped, Run, Steps, TeeIds, ZeroHash
  <1>2. RegTypeOK
    BY <1>1, RegistrationAssumption DEF RegInit, RegTypeOK, TeeIds, NoFile
  <1>3. StateTruthful
    BY DEF RegInit, StateTruthful, Truthful, NoFile, Stopped, EmptyState
  <1>4. WatchedFits /\ ReceiptFits /\ IdleFits
    BY DEF RegInit, WatchedFits, ReceiptFits, IdleFits, Stopped
  <1> QED
    BY <1>2, <1>3, <1>4 DEF RegInv

(* A function on 1 .. n is a sequence. *)
LEMMA FunctionIsSeq ==
  ASSUME NEW S, NEW n \in Nat, NEW f \in [1 .. n -> S]
  PROVE  f \in Seq(S) /\ Len(f) = n /\ DOMAIN f = 1 .. n
  OBVIOUS

(* Changing the flag of a record, appending and updating. *)
LEMMA Unwatch ==
  ASSUME NEW tx \in Transaction
  PROVE  /\ [tx EXCEPT !.watched = FALSE] \in Transaction
         /\ [tx EXCEPT !.watched = FALSE].watched = FALSE
  BY DEF Transaction

LEMMA SavedFile ==
  ASSUME NEW state \in RegState, NEW readable \in BOOLEAN
  PROVE  [readable |-> readable, state |-> state] \in [readable : BOOLEAN, state : RegState]
  OBVIOUS

LEMMA Invalidate ==
  ASSUME NEW a \in AttestRequest
  PROVE  [a EXCEPT !.valid = FALSE] \in AttestRequest
  BY DEF AttestRequest

LEMMA SeqAppended ==
  ASSUME NEW S, NEW s \in Seq(S), NEW e \in S
  PROVE  /\ Append(s, e) \in Seq(S)
         /\ Len(Append(s, e)) = Len(s) + 1
         /\ Len(s) \in Nat
         /\ Len(s) + 1 \in DOMAIN Append(s, e)
  OBVIOUS

LEMMA SeqUpdated ==
  ASSUME NEW S, NEW s \in Seq(S), NEW i \in DOMAIN s, NEW e \in S
  PROVE  [s EXCEPT ![i] = e] \in Seq(S) /\ Len([s EXCEPT ![i] = e]) = Len(s)
  OBVIOUS

(* The tool that stops leaves nothing behind but its transactions. *)
LEMMA ExitKeeps ==
  ASSUME RegInv, Exit
  PROVE  /\ run' \in Run /\ pending' \in Seq(Transaction)
         /\ WatchedFits' /\ ReceiptFits' /\ IdleFits'
         /\ run'.state = EmptyState
  <1>1. run' \in Run /\ run'.state = EmptyState /\ run'.receipt = "none"
    BY RegistrationAssumption
    DEF Exit, EmptyState, RegState, Stopped, Run, Steps, TeeIds, ZeroHash
  <1>2. /\ pending' \in Seq(Transaction) /\ DOMAIN pending' = DOMAIN pending
        /\ \A i \in DOMAIN pending : pending'[i].watched = FALSE
    <2>1. /\ pending \in Seq(Transaction) /\ Len(pending) \in Nat
          /\ DOMAIN pending = 1 .. Len(pending)
      BY DEF RegInv, RegTypeOK
    <2>2. \A i \in 1 .. Len(pending) :
            /\ [pending[i] EXCEPT !.watched = FALSE] \in Transaction
            /\ [pending[i] EXCEPT !.watched = FALSE].watched = FALSE
      BY <2>1, Unwatch
    <2>3. pending' \in [1 .. Len(pending) -> Transaction]
      BY <2>1, <2>2 DEF Exit, Unwatched
    <2> QED
      BY <2>1, <2>2, <2>3, FunctionIsSeq DEF Exit, Unwatched
  <1>3. WatchedFits' /\ ReceiptFits' /\ IdleFits'
    BY <1>1, <1>2 DEF WatchedFits, ReceiptFits, IdleFits
  <1> QED
    BY <1>1, <1>2, <1>3

(* A step that stops the tool and leaves the chain and the file alone. *)
LEMMA StopKeeps ==
  ASSUME RegInv, Exit, UNCHANGED <<chainVars, file, worldVars>>,
         faults' \in 0 .. MaxFaults
  PROVE  RegInv'
  <1>1. RegTypeOK'
    BY ExitKeeps DEF RegInv, RegTypeOK, chainVars, worldVars
  <1>2. StateTruthful'
    BY ExitKeeps DEF RegInv, StateTruthful, Truthful, EmptyState, chainVars
  <1> QED
    BY <1>1, <1>2, ExitKeeps DEF RegInv

(* A step that moves the run on, sends nothing and leaves the rest alone. *)
LEMMA MoveKeeps ==
  ASSUME RegInv, run' \in Run, run'.state = run.state, run.receipt = "none",
         run'.receipt = "none",
         UNCHANGED <<chainVars, pending, file, worldVars>>, faults' = faults
  PROVE  RegInv'
  <1>1. RegTypeOK'
    BY DEF RegInv, RegTypeOK, chainVars, worldVars
  <1>2. StateTruthful'
    BY DEF RegInv, StateTruthful, Truthful, chainVars
  <1>3. WatchedFits' /\ ReceiptFits' /\ IdleFits'
    BY DEF RegInv, WatchedFits, ReceiptFits, IdleFits
  <1> QED
    BY <1>1, <1>2, <1>3 DEF RegInv

(* Sending waits for the transaction that was sent. *)
LEMMA SendKeeps ==
  ASSUME RegInv, NEW kind \in {"register", "attest", "check", "promote"},
         NEW tee \in TeeIds, run.receipt = "none", run.pc # "off", Fits(kind), Send(kind, tee),
         faults' \in 0 .. MaxFaults
  PROVE  RegInv'
  <1> DEFINE tx == [kind |-> kind, tee |-> tee, attest |-> run.attest, watched |-> TRUE]
  <1>1. CASE Reverts(tx)
    BY <1>1, StopKeeps DEF Send
  <1>2. CASE ~Reverts(tx)
    <2>1. /\ pending' = Append(pending, tx)
          /\ run' = [run EXCEPT !.receipt = "pending"]
          /\ UNCHANGED <<chainVars, file, worldVars>>
      BY <1>2 DEF Send
    <2>2. run \in Run /\ pending \in Seq(Transaction) /\ tx \in Transaction
      BY DEF RegInv, RegTypeOK, Run, Transaction
    <2>3. /\ run' \in Run /\ run'.receipt = "pending" /\ run'.pc = run.pc
          /\ run'.state = run.state
      BY <2>1, <2>2 DEF Run
    <2>4. /\ pending' \in Seq(Transaction) /\ Len(pending') = Len(pending) + 1
          /\ pending'[Len(pending) + 1] = tx
          /\ \A i \in 1 .. Len(pending) : pending'[i] = pending[i]
      BY <2>1, <2>2
    <2>5. RegTypeOK'
      BY <2>1, <2>3, <2>4 DEF RegInv, RegTypeOK, chainVars, worldVars
    <2>6. StateTruthful'
      BY <2>1, <2>3 DEF RegInv, StateTruthful, Truthful, chainVars
    <2>7. \A i \in 1 .. Len(pending) : ~pending[i].watched
      BY <2>2 DEF RegInv, WatchedFits
    <2>8. WatchedFits'
      BY <2>2, <2>3, <2>4, <2>7 DEF WatchedFits, Fits
    <2>9. ReceiptFits' /\ IdleFits'
      BY <2>3 DEF ReceiptFits, IdleFits
    <2> QED
      BY <2>5, <2>6, <2>8, <2>9 DEF RegInv
  <1> QED
    BY <1>1, <1>2
(* The id of a success receipt is noted: it is on the chain. *)
LEMMA CompleteKeeps ==
  ASSUME RegInv, NEW step \in {"r", "R", "a"}, NEW noted \in Run,
         Complete(step, noted),
         noted.state.completed = run.state.completed,
         noted.state.attest = IF step = "a" THEN run.state.attest ELSE run.mined,
         noted.state.instruction = IF step = "a" THEN run.mined ELSE run.state.instruction
  PROVE  RegInv'
  <1>1. run \in Run /\ noted.state \in RegState /\ After[step] \in Steps
    BY DEF RegInv, RegTypeOK, Run, After, Steps
  <1>2. /\ run' \in Run /\ run'.receipt = "none"
        /\ run'.state \in RegState
        /\ run'.state.completed = run.state.completed \cup {step}
        /\ run'.state.attest = noted.state.attest
        /\ run'.state.instruction = noted.state.instruction
    BY <1>1 DEF Complete, Run, RegState, ZeroHash
  <1>3. /\ UNCHANGED <<chainVars, pending, worldVars>>
        /\ run.receipt = "success" /\ run.pc = step
        /\ \/ file' = [readable |-> TRUE, state |-> run'.state] /\ faults' = faults
           \/ file' \in {file, CorruptFile} /\ SpendFault
    BY DEF Complete, SaveState
  <1>4. faults' \in 0 .. MaxFaults
    BY <1>3, RegistrationAssumption DEF RegInv, RegTypeOK, SpendFault
  <1>5. RegTypeOK'
    <2>1. file' \in [readable : BOOLEAN, state : RegState]
      <3>1. CorruptFile \in [readable : BOOLEAN, state : RegState]
        BY DEF CorruptFile, EmptyState, RegState, ZeroHash
      <3> QED
        BY <1>2, <1>3, <3>1, SavedFile DEF RegInv, RegTypeOK
    <2> QED
      BY <2>1, <1>2, <1>3, <1>4 DEF RegInv, RegTypeOK, chainVars, worldVars
  <1>6. Truthful(run.state)'
    BY <1>2, <1>3 DEF RegInv, StateTruthful, ReceiptFits, Truthful, chainVars
  <1>7. StateTruthful'
    <2>1. file'.state = run'.state \/ file'.state = file.state \/ file'.state = EmptyState
      BY <1>3 DEF CorruptFile
    <2>2. Truthful(file.state)'
      BY <1>3, <1>6, <2>1 DEF RegInv, StateTruthful, Truthful, chainVars, EmptyState
    <2> QED
      BY <1>6, <2>2 DEF StateTruthful
  <1>8. WatchedFits' /\ ReceiptFits' /\ IdleFits'
    BY <1>2, <1>3 DEF RegInv, WatchedFits, ReceiptFits, IdleFits
  <1> QED
    BY <1>5, <1>7, <1>8 DEF RegInv

(* What the contract does with a transaction only adds ids. *)
LEMMA ApplyAdds ==
  ASSUME RegTypeOK, NEW tx \in Transaction, Apply(tx), ~Reverts(tx)
  PROVE  /\ machine' \in [TeeIds -> {"none", "registered", "production"}]
         /\ attests' \in Seq(AttestRequest) /\ checks' \in Seq(CheckRequest)
         /\ Len(attests) <= Len(attests') /\ Len(checks) <= Len(checks')
         /\ InstructionOf(tx) \in Nat
         /\ tx.kind \in {"register", "attest"} => InstructionOf(tx) \in DOMAIN attests'
         /\ tx.kind = "check" => InstructionOf(tx) \in DOMAIN checks'
  <1>1. /\ attests \in Seq(AttestRequest) /\ checks \in Seq(CheckRequest)
        /\ [tee |-> tx.tee, valid |-> TRUE] \in AttestRequest
        /\ tx.tee \in TeeIds
    BY DEF RegTypeOK, Transaction, AttestRequest
  <1>2. CASE tx.kind = "register"
    <2>1. /\ machine' = [machine EXCEPT ![tx.tee] = "registered"]
          /\ attests' = Append(attests, [tee |-> tx.tee, valid |-> TRUE])
          /\ checks' = checks /\ InstructionOf(tx) = Len(attests')
      BY <1>2 DEF Apply, InstructionOf
    <2> QED
      BY <1>1, <1>2, <2>1, SeqAppended DEF RegTypeOK
  <1>3. CASE tx.kind = "attest"
    <2>1. /\ attests' = Append(attests, [tee |-> tx.tee, valid |-> TRUE])
          /\ machine' = machine /\ checks' = checks /\ InstructionOf(tx) = Len(attests')
      BY <1>3 DEF Apply, InstructionOf
    <2> QED
      BY <1>1, <1>3, <2>1, SeqAppended DEF RegTypeOK
  <1>4. CASE tx.kind = "check"
    <2>1. tx.attest \in DOMAIN attests
      BY <1>4 DEF Reverts
    <2>2. [attests[tx.attest] EXCEPT !.valid = FALSE] \in AttestRequest
      BY <1>1, <2>1, Invalidate
    <2>3. attests' = [attests EXCEPT ![tx.attest] = [attests[tx.attest] EXCEPT !.valid = FALSE]]
      BY <1>4 DEF Apply
    <2>4. attests' \in Seq(AttestRequest) /\ Len(attests') = Len(attests)
      BY <1>1, <2>1, <2>2, <2>3, SeqUpdated
    <2>5. PICK e \in CheckRequest : checks' = Append(checks, e)
      BY <1>1, <1>4 DEF Apply, CheckRequest
    <2>6. machine' = machine /\ InstructionOf(tx) = Len(checks')
      BY <1>4 DEF Apply, InstructionOf
    <2> QED
      BY <1>1, <1>4, <2>4, <2>5, <2>6, SeqAppended DEF RegTypeOK
  <1>5. CASE tx.kind = "promote"
    BY <1>1, <1>5 DEF RegTypeOK, Apply, InstructionOf, ZeroHash
  <1> QED
    BY <1>2, <1>3, <1>4, <1>5 DEF Transaction
(* A mined transaction: the receipt goes to the run that waits for it. *)
LEMMA MineKeeps ==
  ASSUME RegInv, Mine
  PROVE  RegInv'
  <1> DEFINE tx == Head(pending)
  <1>1. /\ pending \in Seq(Transaction) /\ pending # <<>> /\ run \in Run
        /\ tx \in Transaction /\ tx = pending[1]
        /\ 1 \in DOMAIN pending /\ Len(pending) \in Nat
    BY DEF RegInv, RegTypeOK, Mine
  <1>2. /\ pending' = Tail(pending)
        /\ UNCHANGED <<file, worldVars, faults>>
    BY DEF Mine
  <1>3. /\ pending' \in Seq(Transaction) /\ Len(pending') = Len(pending) - 1
        /\ \A i \in DOMAIN pending' : i + 1 \in DOMAIN pending /\ pending'[i] = pending[i + 1]
    BY <1>1, <1>2
  <1>4. /\ machine' \in [TeeIds -> {"none", "registered", "production"}]
        /\ attests' \in Seq(AttestRequest) /\ checks' \in Seq(CheckRequest)
        /\ DOMAIN attests \subseteq DOMAIN attests'
        /\ DOMAIN checks \subseteq DOMAIN checks'
    <2>1. CASE Reverts(tx)
      BY <2>1 DEF Mine, chainVars, RegInv, RegTypeOK
    <2>2. CASE ~Reverts(tx)
      <3>1. Apply(tx)
        BY <2>2 DEF Mine
      <3> QED
        BY <1>1, <2>2, <3>1, ApplyAdds DEF RegInv, RegTypeOK
    <2> QED
      BY <2>1, <2>2
  <1>5. /\ run' \in Run /\ run'.state = run.state /\ run'.pc = run.pc
        /\ ~tx.watched => run' = run
        /\ tx.watched => run'.receipt \in {"reverted", "success"}
        /\ tx.watched /\ run'.receipt = "success" =>
             ~Reverts(tx) /\ run'.mined = InstructionOf(tx)
    <2>1. CASE ~tx.watched
      BY <1>1, <2>1 DEF Mine
    <2>2. CASE tx.watched /\ Reverts(tx)
      <3>1. run' = [run EXCEPT !.receipt = "reverted"]
        BY <2>2 DEF Mine
      <3> QED
        BY <1>1, <2>2, <3>1 DEF Run
    <2>3. CASE tx.watched /\ ~Reverts(tx)
      <3>1. run' = [run EXCEPT !.receipt = "success", !.mined = InstructionOf(tx)]
        BY <2>3 DEF Mine
      <3>2. InstructionOf(tx) \in Nat
        BY <1>1, <2>3, ApplyAdds DEF Mine, RegInv
      <3> QED
        BY <1>1, <2>3, <3>1, <3>2 DEF Run
    <2> QED
      BY <2>1, <2>2, <2>3
  <1>6. RegTypeOK'
    BY <1>2, <1>3, <1>4, <1>5 DEF RegInv, RegTypeOK, worldVars
  <1>7. StateTruthful'
    BY <1>2, <1>4, <1>5 DEF RegInv, StateTruthful, Truthful
  <1>8. CASE ~tx.watched
    <2>1. WatchedFits'
      BY <1>1, <1>3, <1>5, <1>8 DEF RegInv, WatchedFits, Fits
    <2>2. ReceiptFits' /\ IdleFits'
      BY <1>4, <1>5, <1>8 DEF RegInv, ReceiptFits, IdleFits
    <2> QED
      BY <1>6, <1>7, <2>1, <2>2 DEF RegInv
  <1>9. CASE tx.watched
    <2>1. Len(pending) = 1 /\ Fits(tx.kind)
      BY <1>1, <1>9 DEF RegInv, WatchedFits
    <2>2. WatchedFits'
      BY <1>3, <2>1 DEF WatchedFits
    <2>3. ReceiptFits'
      BY <1>1, <1>5, <1>9, <2>1, ApplyAdds DEF RegInv, ReceiptFits, Fits, Mine
    <2>4. IdleFits'
      BY <1>1, <1>5, <1>9 DEF RegInv, WatchedFits, IdleFits
    <2> QED
      BY <1>6, <1>7, <2>2, <2>3, <2>4 DEF RegInv
  <1> QED
    BY <1>8, <1>9
(* A run starts from the file as it was left. *)
LEMMA StartKeeps ==
  ASSUME RegInv, NEW inv \in Invocations, NEW instruction \in {ZeroHash} \cup DOMAIN checks,
         NEW left \in {NoFile, file}, Start(inv, instruction, left), run.pc = "off",
         UNCHANGED <<chainVars, pending, worldVars>>, faults' \in 0 .. MaxFaults
  PROVE  RegInv'
  <1>1. EmptyState \in RegState /\ Stopped \in Run
    BY RegistrationAssumption
    DEF EmptyState, RegState, Stopped, Run, Steps, TeeIds, ZeroHash
  <1>2. left \in [readable : BOOLEAN, state : RegState] /\ Truthful(left.state)
    <2>1. CASE left = NoFile
      <3>1. left \in [readable : BOOLEAN, state : RegState]
        BY <1>1, <2>1, SavedFile DEF NoFile
      <3>2. left.state = EmptyState
        BY <2>1 DEF NoFile
      <3> QED
        BY <3>1, <3>2 DEF Truthful, EmptyState
    <2>2. CASE left = file
      BY <2>2 DEF RegInv, RegTypeOK, StateTruthful
    <2> QED
      BY <2>1, <2>2
  <1>3. instruction \in Nat /\ liveTee \in TeeIds /\ inv.command \in SUBSET Steps
    BY RegistrationAssumption DEF RegInv, RegTypeOK, ZeroHash
  <1>4. run' \in Run /\ run'.receipt = "none" /\ run'.state \in {EmptyState, left.state}
    <2>1. CASE ~left.readable
      BY <1>1, <2>1 DEF Start, Stopped
    <2>2. CASE left.readable
      <3>1. run' = [Stopped EXCEPT !.pc = "r", !.command = inv.command, !.tee = liveTee,
                      !.state = left.state, !.instruction = instruction]
        BY <2>2 DEF Start
      <3> QED
        BY <1>1, <1>2, <1>3, <3>1 DEF Run, Stopped, Steps
    <2> QED
      BY <2>1, <2>2
  <1>5. file' = left
    BY DEF Start
  <1>6. RegTypeOK'
    BY <1>2, <1>4, <1>5 DEF RegInv, RegTypeOK, chainVars, worldVars
  <1>7. StateTruthful'
    BY <1>2, <1>4, <1>5 DEF StateTruthful, Truthful, EmptyState, chainVars
  <1>8. WatchedFits'
    <2>1. \A i \in DOMAIN pending : ~pending[i].watched \/ run.receipt = "pending"
      BY DEF RegInv, WatchedFits
    <2>2. run.receipt # "pending"
      BY DEF RegInv, IdleFits
    <2> QED
      BY <2>1, <2>2 DEF WatchedFits
  <1>9. ReceiptFits' /\ IdleFits'
    BY <1>4 DEF ReceiptFits, IdleFits
  <1> QED
    BY <1>6, <1>7, <1>8, <1>9 DEF RegInv
(* The world moves; the tool, its file and its transactions do not. *)
LEMMA WorldKeeps ==
  ASSUME RegInv, machine' = machine, attests' \in Seq(AttestRequest),
         Len(attests') = Len(attests), checks' \in Seq(CheckRequest),
         Len(checks') = Len(checks), UNCHANGED <<pending, run, file>>,
         liveTee' \in TeeIds, lag' \in -1 .. 2, faults' \in 0 .. MaxFaults
  PROVE  RegInv'
  <1>1. DOMAIN attests' = DOMAIN attests /\ DOMAIN checks' = DOMAIN checks
    BY DEF RegInv, RegTypeOK
  <1>2. RegTypeOK'
    BY DEF RegInv, RegTypeOK
  <1>3. StateTruthful'
    BY <1>1 DEF RegInv, StateTruthful, Truthful
  <1>4. WatchedFits' /\ ReceiptFits' /\ IdleFits'
    BY <1>1 DEF RegInv, WatchedFits, ReceiptFits, IdleFits, Fits
  <1> QED
    BY <1>2, <1>3, <1>4 DEF RegInv

(* Changing the proof of one check, or of all of them. *)
LEMMA ProofChanged ==
  ASSUME NEW c \in CheckRequest
  PROVE  /\ [c EXCEPT !.proof = "ready"] \in CheckRequest
         /\ [c EXCEPT !.proof = "none"] \in CheckRequest
  BY DEF CheckRequest

(* Every step of the tool keeps the invariant. *)
LEMMA ToolKeeps ==
  ASSUME RegInv, ToolStep
  PROVE  RegInv'
  <1>1. /\ run \in Run /\ run.tee \in TeeIds /\ run.state \in RegState
        /\ run.mined \in Nat /\ faults \in 0 .. MaxFaults
    BY DEF RegInv, RegTypeOK, Run
  <1>2. SpendFault => faults' \in 0 .. MaxFaults
    BY <1>1, RegistrationAssumption DEF SpendFault
  <1>3. ASSUME NEW step \in {"r", "R", "a"}, PassOver(step)
        PROVE  RegInv'
    <2>1. /\ run' \in Run /\ run'.state = run.state /\ run'.receipt = run.receipt
      BY <1>1, <1>3 DEF PassOver, Run, After, Steps
    <2> QED
      BY <1>3, <2>1, MoveKeeps DEF PassOver, At
  <1>4. ASSUME NEW step \in {"r", "R", "a"}, SkipCompleted(step)
        PROVE  RegInv'
    <2>1. run.state.attest \in Nat /\ run.state.instruction \in Nat
      BY <1>1 DEF RegState
    <2>2. /\ run' \in Run /\ run'.state = run.state /\ run'.receipt = run.receipt
      <3>1. After[step] \in Steps
        BY DEF After, Steps
      <3>2. CASE step = "a"
        BY <1>1, <1>4, <2>1, <3>1, <3>2 DEF SkipCompleted, Run
      <3>3. CASE step # "a"
        BY <1>1, <1>4, <2>1, <3>1, <3>3 DEF SkipCompleted, Run
      <3> QED
        BY <3>2, <3>3
    <2> QED
      BY <1>4, <2>2, MoveKeeps DEF SkipCompleted, At
  <1>5. CASE PreRegistration
    BY <1>1, <1>5, SendKeeps DEF PreRegistration, Due, At, Fits
  <1>6. CASE RequestTeeAttestation
    BY <1>1, <1>6, SendKeeps DEF RequestTeeAttestation, Due, At, Fits
  <1>7. CASE RequestFTDCAvailabilityCheck
    BY <1>1, <1>2, <1>7, SendKeeps DEF RequestFTDCAvailabilityCheck, Due, At, Fits
  <1>8. CASE ToProduction
    <2>1. checks[run.instruction].tee \in TeeIds
      <3>1. checks[run.instruction] \in CheckRequest
        BY <1>8 DEF ToProduction, RegInv, RegTypeOK
      <3> QED
        BY <3>1 DEF CheckRequest
    <2> QED
      BY <1>1, <1>8, <2>1, SendKeeps DEF ToProduction, At, Fits
  <1>9. CASE PreRegistered
    <2> DEFINE noted == [run EXCEPT !.attest = run.mined, !.state.attest = run.mined]
    <2>1. noted \in Run /\ noted.state.completed = run.state.completed
          /\ noted.state.attest = run.mined /\ noted.state.instruction = run.state.instruction
      BY <1>1 DEF Run, RegState
    <2> QED
      BY <1>9, <2>1, CompleteKeeps DEF PreRegistered
  <1>10. CASE Attested
    <2> DEFINE noted == [run EXCEPT !.attest = run.mined, !.state.attest = run.mined]
    <2>1. noted \in Run /\ noted.state.completed = run.state.completed
          /\ noted.state.attest = run.mined /\ noted.state.instruction = run.state.instruction
      BY <1>1 DEF Run, RegState
    <2> QED
      BY <1>10, <2>1, CompleteKeeps DEF Attested
  <1>11. CASE CheckRequested
    <2> DEFINE noted == [run EXCEPT !.instruction = run.mined, !.state.instruction = run.mined]
    <2>1. noted \in Run /\ noted.state.completed = run.state.completed
          /\ noted.state.attest = run.state.attest /\ noted.state.instruction = run.mined
      BY <1>1 DEF Run, RegState
    <2> QED
      BY <1>11, <2>1, CompleteKeeps DEF CheckRequested
  <1>12. CASE PolicyOutOfSync
    BY <1>1, <1>12, StopKeeps DEF PolicyOutOfSync
  <1>13. CASE NoResult
    BY <1>1, <1>2, <1>13, StopKeeps DEF NoResult
  <1>14. CASE Reverted
    BY <1>1, <1>14, StopKeeps DEF Reverted
  <1>15. CASE Done
    <2>1. /\ Exit /\ UNCHANGED <<chainVars, worldVars>>
          /\ faults' \in 0 .. MaxFaults
          /\ file' = NoFile \/ file' = file
      BY <1>1, <1>2, <1>15 DEF Done
    <2>2. CASE file' = file
      BY <2>1, <2>2, StopKeeps
    <2>3. CASE file' = NoFile
      <3>1. EmptyState \in RegState /\ file'.state = EmptyState
        BY <2>3 DEF NoFile, EmptyState, RegState, ZeroHash
      <3>2. file' \in [readable : BOOLEAN, state : RegState]
        BY <2>3, <3>1, SavedFile DEF NoFile
      <3>3. RegTypeOK'
        BY <2>1, <3>2, ExitKeeps DEF RegInv, RegTypeOK, chainVars, worldVars
      <3>4. StateTruthful'
        BY <2>1, <3>1, ExitKeeps DEF StateTruthful, Truthful, EmptyState
      <3> QED
        BY <2>1, <3>3, <3>4, ExitKeeps DEF RegInv
    <2> QED
      BY <2>1, <2>2, <2>3
  <1> QED
    BY <1>3, <1>4, <1>5, <1>6, <1>7, <1>8, <1>9, <1>10, <1>11, <1>12, <1>13,
       <1>14, <1>15 DEF ToolStep
(* Everything that goes wrong keeps it, too. *)
LEMMA FaultKeeps ==
  ASSUME RegInv, FaultStep
  PROVE  RegInv'
  <1>1. /\ attests \in Seq(AttestRequest) /\ checks \in Seq(CheckRequest)
        /\ liveTee \in TeeIds /\ lag \in -1 .. 2 /\ faults \in 0 .. MaxFaults
    BY DEF RegInv, RegTypeOK
  <1>2. SpendFault => faults' \in 0 .. MaxFaults
    BY <1>1, RegistrationAssumption DEF SpendFault
  <1>3. CASE ToolStops
    BY <1>2, <1>3, StopKeeps DEF ToolStops
  <1>4. CASE ToolDiesWriting
    <2>1. /\ Exit /\ UNCHANGED <<chainVars, worldVars>>
          /\ faults' \in 0 .. MaxFaults /\ file' = CorruptFile
      BY <1>2, <1>4 DEF ToolDiesWriting
    <2>2. EmptyState \in RegState /\ file'.state = EmptyState
      BY <2>1 DEF CorruptFile, EmptyState, RegState, ZeroHash
    <2>3. file' \in [readable : BOOLEAN, state : RegState]
      BY <2>1, <2>2, SavedFile DEF CorruptFile
    <2>4. RegTypeOK'
      BY <2>1, <2>3, ExitKeeps DEF RegInv, RegTypeOK, chainVars, worldVars
    <2>5. StateTruthful'
      BY <2>1, <2>2, ExitKeeps DEF StateTruthful, Truthful, EmptyState
    <2> QED
      BY <2>1, <2>4, <2>5, ExitKeeps DEF RegInv
  <1>5. CASE PolicyLags
    BY <1>1, <1>2, <1>5, WorldKeeps DEF PolicyLags, chainVars
  <1>6. CASE TeeRelaunch
    <2>1. liveTee' \in TeeIds
      BY <1>1, <1>6, RegistrationAssumption DEF TeeRelaunch, TeeIds
    <2>2. checks' \in [1 .. Len(checks) -> CheckRequest]
      <3>1. \A i \in 1 .. Len(checks) : checks[i] \in CheckRequest
        BY <1>1
      <3>2. \A i \in 1 .. Len(checks) :
              [checks[i] EXCEPT !.proof = "none"] \in CheckRequest
        BY <3>1, ProofChanged
      <3> QED
        BY <1>1, <1>6, <3>1, <3>2 DEF TeeRelaunch
    <2>3. checks' \in Seq(CheckRequest) /\ Len(checks') = Len(checks)
      BY <1>1, <2>2, FunctionIsSeq
    <2> QED
      BY <1>1, <1>2, <1>6, <2>1, <2>3, WorldKeeps DEF TeeRelaunch
  <1>7. ASSUME NEW i \in DOMAIN attests, ChallengeExpires(i)
        PROVE  RegInv'
    <2>1. attests' = [attests EXCEPT ![i] = [attests[i] EXCEPT !.valid = FALSE]]
      BY <1>7 DEF ChallengeExpires
    <2>2. attests' \in Seq(AttestRequest) /\ Len(attests') = Len(attests)
      BY <1>1, <2>1, Invalidate, SeqUpdated
    <2> QED
      BY <1>1, <1>2, <1>7, <2>2, WorldKeeps DEF ChallengeExpires, worldVars
  <1>8. ASSUME NEW i \in DOMAIN checks, ProofLost(i)
        PROVE  RegInv'
    <2>1. checks' = [checks EXCEPT ![i] = [checks[i] EXCEPT !.proof = "none"]]
      BY <1>8 DEF ProofLost
    <2>2. checks' \in Seq(CheckRequest) /\ Len(checks') = Len(checks)
      <3> checks[i] \in CheckRequest
        BY <1>1
      <3>1. [checks[i] EXCEPT !.proof = "none"] \in CheckRequest
        BY ProofChanged
      <3> QED
        BY <1>1, <2>1, <3>1, SeqUpdated
    <2> QED
      BY <1>1, <1>2, <1>8, <2>2, WorldKeeps DEF ProofLost, worldVars
  <1>9. ASSUME NEW inv \in Invocations, NEW instruction \in {ZeroHash} \cup DOMAIN checks,
               InvokeStale(inv, instruction)
        PROVE  RegInv'
    BY <1>2, <1>9, StartKeeps DEF InvokeStale, MayInvoke
  <1> QED
    BY <1>3, <1>4, <1>5, <1>6, <1>7, <1>8, <1>9 DEF FaultStep

LEMMA RegStepKeeps ==
  ASSUME RegInv, [RegNext]_regVars
  PROVE  RegInv'
  <1>1. /\ checks \in Seq(CheckRequest) /\ attests \in Seq(AttestRequest)
        /\ liveTee \in TeeIds /\ lag \in -1 .. 2 /\ faults \in 0 .. MaxFaults
    BY DEF RegInv, RegTypeOK
  <1>2. CASE Operate
    <2>1. PICK inv \in Invocations, instruction \in {ZeroHash} \cup DOMAIN checks :
            Invoke(inv, instruction)
      BY <1>2 DEF Operate
    <2> QED
      BY <1>1, <2>1, StartKeeps DEF Invoke, MayInvoke
  <1>3. CASE ProofStep
    <2>1. PICK i \in DOMAIN checks : ProofArrives(i)
      BY <1>3 DEF ProofStep
    <2>2. checks' = [checks EXCEPT ![i] = [checks[i] EXCEPT !.proof = "ready"]]
      BY <2>1 DEF ProofArrives
    <2>3. checks' \in Seq(CheckRequest) /\ Len(checks') = Len(checks)
      <3> checks[i] \in CheckRequest
        BY <1>1
      <3>1. [checks[i] EXCEPT !.proof = "ready"] \in CheckRequest
        BY ProofChanged
      <3> QED
        BY <1>1, <2>2, <3>1, SeqUpdated
    <2> QED
      BY <1>1, <2>1, <2>3, WorldKeeps DEF ProofArrives, worldVars
  <1>4. CASE PolicyMoves
    BY <1>1, <1>4, WorldKeeps DEF PolicyMoves, chainVars
  <1>5. CASE UNCHANGED regVars
    BY <1>1, <1>5, WorldKeeps DEF regVars, chainVars, worldVars
  <1> QED
    BY <1>2, <1>3, <1>4, <1>5, MineKeeps, ToolKeeps, FaultKeeps DEF RegNext

(* Every variable of register-tee, its file and the contract keeps its type,  *)
(* for every set of command lines and every number of faults.                 *)
THEOREM RegistrationTypes == RegSpec => []RegTypeOK
  <1>1. RegInv => RegTypeOK
    BY DEF RegInv
  <1> QED
    BY <1>1, RegInitially, RegStepKeeps, PTL DEF RegSpec

(* RegisterNode's state file and state never list a step whose transaction was *)
(* not mined: a resumed run only skips what is on the chain.                   *)
THEOREM StateFileIsTruthful == RegSpec => []StateTruthful
  <1>1. RegInv => StateTruthful
    BY DEF RegInv
  <1> QED
    BY <1>1, RegInitially, RegStepKeeps, PTL DEF RegSpec

-----------------------------------------------------------------------------
(* The ids that a run uses are the newest ones.                               *)

AttestKinds == {"register", "attest"}

\* No transaction of these kinds is on its way.
NoneSent(kinds) == \A i \in DOMAIN pending : pending[i].kind \notin kinds

(* A state that lists both r and R, or a, has the newest id, and no newer one  *)
(* is coming: whoever would ask for one starts from this state and skips.      *)
Newest(state) ==
  /\ {"r", "R"} \subseteq state.completed => state.attest = Len(attests) /\ NoneSent(AttestKinds)
  /\ "a" \in state.completed => state.instruction = Len(checks) /\ NoneSent({"check"})

\* The file never lists more than the state in memory does.
FileBehind == run.pc # "off" => file.state.completed \subseteq run.state.completed

\* A step that has sent its transaction is not completed yet, and its receipt
\* comes after everything that was sent before.
SentNotCompleted == run.receipt # "none" => run.pc \notin run.state.completed

ReceiptNewest ==
  run.receipt = "success" =>
    /\ pending = <<>>
    /\ run.pc \in {"r", "R"} => run.mined = Len(attests)
    /\ run.pc = "a" => run.mined = Len(checks)

\* A run of post-build.sh's command line has the steps before its own completed.
Followed ==
  run.command = Steps =>
    /\ run.pc = "R" => "r" \in run.state.completed
    /\ run.pc \in {"a", "p"} =>
         {"r", "R"} \subseteq run.state.completed /\ run.attest = run.state.attest
    /\ run.pc = "p" =>
         "a" \in run.state.completed /\ run.instruction = run.state.instruction

IdsNewest ==
  /\ Newest(file.state) /\ Newest(run.state)
  /\ FileBehind /\ SentNotCompleted /\ ReceiptNewest /\ Followed

(* The inductive invariant. *)
NewestInv == RegInv /\ IdsNewest

LEMMA NewestInitially == RegInit => NewestInv
  <1> SUFFICES ASSUME RegInit PROVE NewestInv
    OBVIOUS
  <1>1. file = NoFile /\ run = Stopped
    BY DEF RegInit
  <1>2. file.state.completed = {} /\ run.state.completed = {} /\ run.receipt = "none"
        /\ run.pc = "off" /\ run.command = {}
    BY <1>1 DEF NoFile, Stopped, EmptyState
  <1> QED
    BY <1>2, RegInitially
    DEF NewestInv, IdsNewest, Newest, FileBehind, SentNotCompleted, ReceiptNewest, Followed, Steps

(* The tool stops; its transactions stay on their way. *)
LEMMA ExitNewest ==
  ASSUME NewestInv, Exit, Len(attests') = Len(attests), Len(checks') = Len(checks),
         file' \in {file, NoFile, CorruptFile}
  PROVE  IdsNewest'
  <1>1. /\ run'.state.completed = {} /\ run'.receipt = "none"
        /\ run'.pc = "off" /\ run'.command = {}
    BY DEF Exit, Stopped, EmptyState
  <1>2. DOMAIN pending' = DOMAIN pending /\ \A i \in DOMAIN pending : pending'[i].kind = pending[i].kind
    <2>1. \A i \in DOMAIN pending : pending[i] \in Transaction
      BY DEF NewestInv, RegInv, RegTypeOK
    <2>2. \A i \in DOMAIN pending : [pending[i] EXCEPT !.watched = FALSE].kind = pending[i].kind
      BY <2>1 DEF Transaction
    <2> QED
      BY <2>2 DEF Exit, Unwatched
  <1>3. \A kinds : NoneSent(kinds) => NoneSent(kinds)'
    BY <1>2 DEF NoneSent
  <1>4. Newest(file.state)'
    <2>1. file' = file \/ file'.state.completed = {}
      BY DEF NoFile, CorruptFile, EmptyState
    <2> QED
      BY <1>3, <2>1 DEF NewestInv, IdsNewest, Newest
  <1>5. Newest(run.state)'
    BY <1>1 DEF Newest
  <1> QED
    BY <1>1, <1>4, <1>5
    DEF IdsNewest, FileBehind, SentNotCompleted, ReceiptNewest, Followed, Steps

(* The tool goes on to its next step. *)
LEMMA MoveNewest ==
  ASSUME NewestInv, UNCHANGED <<chainVars, pending, file>>, run.pc # "off",
         run'.state = run.state, run'.receipt = "none", Followed'
  PROVE  IdsNewest'
  <1>1. Newest(file.state)' /\ Newest(run.state)'
    BY DEF NewestInv, IdsNewest, Newest, NoneSent, chainVars
  <1>2. FileBehind' /\ SentNotCompleted' /\ ReceiptNewest'
    BY DEF NewestInv, IdsNewest, FileBehind, SentNotCompleted, ReceiptNewest
  <1> QED
    BY <1>1, <1>2 DEF IdsNewest

(* A transaction is sent: the state does not list what it asks for. *)
LEMMA SendNewest ==
  ASSUME NewestInv, NEW kind, NEW tee, Send(kind, tee), run.receipt = "none", run.pc # "off",
         run.pc \notin run.state.completed,
         kind \in AttestKinds => ~({"r", "R"} \subseteq run.state.completed),
         kind = "check" => "a" \notin run.state.completed
  PROVE  IdsNewest'
  <1> DEFINE tx == [kind |-> kind, tee |-> tee, attest |-> run.attest, watched |-> TRUE]
  <1>1. UNCHANGED chainVars /\ UNCHANGED file
    BY DEF Send
  <1>2. CASE Reverts(tx)
    BY <1>1, <1>2, ExitNewest DEF Send, chainVars
  <1>3. CASE ~Reverts(tx)
    <2>1. pending' = Append(pending, tx) /\ run' = [run EXCEPT !.receipt = "pending"]
      BY <1>3 DEF Send
    <2>2. run \in Run /\ pending \in Seq(Transaction)
      BY DEF NewestInv, RegInv, RegTypeOK
    <2>3. /\ run'.receipt = "pending" /\ run'.pc = run.pc /\ run'.state = run.state
          /\ run'.command = run.command /\ run'.attest = run.attest
          /\ run'.instruction = run.instruction
      BY <2>1, <2>2 DEF Run
    <2>4. \A i \in DOMAIN pending' :
            pending'[i].kind = kind \/ (i \in DOMAIN pending /\ pending'[i] = pending[i])
      <3>1. /\ \A i \in DOMAIN pending' : i = Len(pending) + 1 \/ i \in DOMAIN pending
            /\ pending'[Len(pending) + 1] = tx
            /\ \A i \in DOMAIN pending : pending'[i] = pending[i]
        BY <2>1, <2>2
      <3>2. tx.kind = kind
        OBVIOUS
      <3> QED
        BY <3>1, <3>2
    <2>5. \A kinds : NoneSent(kinds) /\ kind \notin kinds => NoneSent(kinds)'
      BY <2>4 DEF NoneSent
    <2>6. Newest(run.state)'
      BY <1>1, <2>3, <2>5 DEF NewestInv, IdsNewest, Newest, chainVars
    <2>7. Newest(file.state)'
      <3>1. file.state.completed \subseteq run.state.completed
        BY DEF NewestInv, IdsNewest, FileBehind
      <3> QED
        BY <1>1, <2>5, <3>1 DEF NewestInv, IdsNewest, Newest, chainVars
    <2>8. FileBehind' /\ SentNotCompleted' /\ ReceiptNewest' /\ Followed'
      BY <1>1, <2>3 DEF NewestInv, IdsNewest, FileBehind, SentNotCompleted, ReceiptNewest, Followed
    <2> QED
      BY <2>6, <2>7, <2>8 DEF IdsNewest
  <1> QED
    BY <1>2, <1>3

(* A receipt has come: its id is the newest one and nothing else is pending. *)
LEMMA CompleteNewest ==
  ASSUME NewestInv, NEW step \in {"r", "R", "a"}, NEW noted \in Run,
         Complete(step, noted),
         noted.state.completed = run.state.completed,
         noted.command = run.command,
         noted.state.attest = IF step = "a" THEN run.state.attest ELSE run.mined,
         noted.attest = IF step = "a" THEN run.attest ELSE run.mined,
         noted.state.instruction = IF step = "a" THEN run.mined ELSE run.state.instruction,
         step = "a" => noted.instruction = run.mined
  PROVE  IdsNewest'
  <1>1. run \in Run /\ noted.state \in RegState /\ After[step] \in Steps
    BY DEF NewestInv, RegInv, RegTypeOK, Run, After, Steps
  <1>2. /\ run'.receipt = "none" /\ run'.pc = After[step]
        /\ run'.command = run.command /\ run'.attest = noted.attest
        /\ run'.instruction = noted.instruction
        /\ run'.state.completed = run.state.completed \cup {step}
        /\ run'.state.attest = noted.state.attest
        /\ run'.state.instruction = noted.state.instruction
    BY <1>1 DEF Complete, Run, RegState, ZeroHash
  <1>3. /\ UNCHANGED <<chainVars, pending>>
        /\ run.receipt = "success" /\ run.pc = step
        /\ \/ file' = [readable |-> TRUE, state |-> run'.state]
           \/ file' = file
           \/ file' = CorruptFile
    BY DEF Complete, SaveState
  <1>4. /\ pending = <<>> /\ (step \in {"r", "R"} => run.mined = Len(attests))
        /\ (step = "a" => run.mined = Len(checks))
    BY <1>3 DEF NewestInv, IdsNewest, ReceiptNewest
  <1>5. \A kinds : NoneSent(kinds)'
    BY <1>3, <1>4 DEF NoneSent
  <1>6. Newest(run.state)'
    <2>1. step \in {"r", "R"} => run'.state.attest = Len(attests)
      BY <1>2, <1>4
    <2>2. step = "a" => run'.state.instruction = Len(checks)
      BY <1>2, <1>4
    <2>3. step = "a" => run'.state.attest = run.state.attest
      BY <1>2
    <2>4. step \in {"r", "R"} => run'.state.instruction = run.state.instruction
      BY <1>2
    <2> QED
      BY <1>2, <1>3, <1>5, <2>1, <2>2, <2>3, <2>4 DEF NewestInv, IdsNewest, Newest, chainVars
  <1>7. Newest(file.state)'
    <2>1. CASE file' = file
      BY <1>3, <1>5, <2>1 DEF NewestInv, IdsNewest, Newest, chainVars
    <2>2. CASE file' = [readable |-> TRUE, state |-> run'.state]
      <3>1. file'.state = run'.state
        BY <2>2
      <3> QED
        BY <1>6, <3>1 DEF Newest
    <2>3. CASE file' = CorruptFile
      BY <2>3 DEF Newest, CorruptFile, EmptyState
    <2> QED
      BY <1>3, <2>1, <2>2, <2>3
  <1>8. FileBehind'
    <2>1. file.state.completed \subseteq run.state.completed
      BY <1>3 DEF NewestInv, IdsNewest, FileBehind
    <2>2. file'.state = run'.state \/ file' = file \/ file'.state.completed = {}
      BY <1>3 DEF CorruptFile, EmptyState
    <2> QED
      BY <1>2, <2>1, <2>2 DEF FileBehind
  <1>9. SentNotCompleted' /\ ReceiptNewest'
    BY <1>2 DEF SentNotCompleted, ReceiptNewest
  <1>10. Followed'
    <2>1. CASE step = "r"
      <3>1. run'.pc = "R" /\ "r" \in run'.state.completed
        BY <1>2, <2>1 DEF After
      <3> QED
        BY <3>1 DEF Followed
    <2>2. CASE step = "R"
      <3>1. run'.pc = "a" /\ run'.attest = run'.state.attest
        BY <1>2, <2>2 DEF After
      <3>2. run.command = Steps => {"r", "R"} \subseteq run'.state.completed
        BY <1>2, <1>3, <2>2 DEF NewestInv, IdsNewest, Followed
      <3> QED
        BY <1>2, <3>1, <3>2 DEF Followed
    <2>3. CASE step = "a"
      <3>1. run'.pc = "p" /\ run'.instruction = run'.state.instruction
            /\ run'.attest = run.attest /\ run'.state.attest = run.state.attest
        BY <1>2, <2>3 DEF After
      <3>2. run.command = Steps =>
              {"r", "R"} \subseteq run.state.completed /\ run.attest = run.state.attest
        BY <1>3, <2>3 DEF NewestInv, IdsNewest, Followed
      <3> QED
        BY <1>2, <2>3, <3>1, <3>2 DEF Followed
    <2> QED
      BY <2>1, <2>2, <2>3
  <1> QED
    BY <1>6, <1>7, <1>8, <1>9, <1>10 DEF IdsNewest

(* A mined transaction adds an id only where one was on its way. *)
LEMMA ApplyNewest ==
  ASSUME RegTypeOK, NEW tx \in Transaction, Apply(tx), ~Reverts(tx)
  PROVE  /\ tx.kind \notin AttestKinds => Len(attests') = Len(attests)
         /\ tx.kind # "check" => Len(checks') = Len(checks)
         /\ tx.kind \in AttestKinds => InstructionOf(tx) = Len(attests')
         /\ tx.kind = "check" => InstructionOf(tx) = Len(checks')
  <1>1. CASE tx.kind \in AttestKinds
    BY <1>1 DEF Apply, InstructionOf, AttestKinds
  <1>2. CASE tx.kind = "check"
    <2>1. tx.attest \in DOMAIN attests /\ attests \in Seq(AttestRequest)
      BY <1>2 DEF Reverts, RegTypeOK
    <2>2. [attests[tx.attest] EXCEPT !.valid = FALSE] \in AttestRequest
      BY <2>1, Invalidate
    <2>3. attests' = [attests EXCEPT ![tx.attest] = [attests[tx.attest] EXCEPT !.valid = FALSE]]
      BY <1>2 DEF Apply
    <2>4. Len(attests') = Len(attests)
      BY <2>1, <2>2, <2>3, SeqUpdated
    <2> QED
      BY <1>2, <2>4 DEF InstructionOf, AttestKinds
  <1>3. CASE tx.kind = "promote"
    BY <1>3 DEF Apply, AttestKinds
  <1> QED
    BY <1>1, <1>2, <1>3 DEF Transaction, AttestKinds

LEMMA MineNewest ==
  ASSUME NewestInv, Mine
  PROVE  IdsNewest'
  <1> DEFINE tx == Head(pending)
  <1>1. /\ pending \in Seq(Transaction) /\ pending # <<>> /\ run \in Run
        /\ tx \in Transaction /\ tx = pending[1]
        /\ 1 \in DOMAIN pending /\ Len(pending) \in Nat
    BY DEF NewestInv, RegInv, RegTypeOK, Mine
  <1>2. /\ pending' = Tail(pending) /\ file' = file
        /\ IF Reverts(tx) THEN UNCHANGED chainVars ELSE Apply(tx)
        /\ run' = IF ~tx.watched THEN run
                  ELSE IF Reverts(tx) THEN [run EXCEPT !.receipt = "reverted"]
                  ELSE [run EXCEPT !.receipt = "success", !.mined = InstructionOf(tx)]
    BY DEF Mine
  <1>3. Len(pending') = Len(pending) - 1
        /\ \A i \in DOMAIN pending' : i + 1 \in DOMAIN pending /\ pending'[i] = pending[i + 1]
    BY <1>1, <1>2
  <1>4. /\ tx.kind \notin AttestKinds => Len(attests') = Len(attests)
        /\ tx.kind # "check" => Len(checks') = Len(checks)
        /\ ~Reverts(tx) /\ tx.kind \in AttestKinds => InstructionOf(tx) = Len(attests')
        /\ ~Reverts(tx) /\ tx.kind = "check" => InstructionOf(tx) = Len(checks')
    <2>1. CASE Reverts(tx)
      BY <1>2, <2>1 DEF chainVars
    <2>2. CASE ~Reverts(tx)
      BY <1>1, <1>2, <2>2, ApplyNewest DEF NewestInv, RegInv
    <2> QED
      BY <2>1, <2>2
  <1>5. \A kinds : NoneSent(kinds) => NoneSent(kinds)' /\ tx.kind \notin kinds
    BY <1>1, <1>3 DEF NoneSent
  <1>6. /\ run'.state = run.state /\ run'.pc = run.pc /\ run'.command = run.command
        /\ run'.attest = run.attest /\ run'.instruction = run.instruction
    <2>1. CASE ~tx.watched
      BY <1>2, <2>1
    <2>2. CASE tx.watched /\ Reverts(tx)
      BY <1>1, <1>2, <2>2 DEF Run
    <2>3. CASE tx.watched /\ ~Reverts(tx)
      <3>1. run' = [run EXCEPT !.receipt = "success", !.mined = InstructionOf(tx)]
        BY <1>2, <2>3
      <3> QED
        BY <1>1, <3>1 DEF Run
    <2> QED
      BY <2>1, <2>2, <2>3
  <1>7. Newest(file.state)' /\ Newest(run.state)'
    BY <1>2, <1>4, <1>5, <1>6 DEF NewestInv, IdsNewest, Newest
  <1>8. FileBehind' /\ Followed'
    BY <1>2, <1>6 DEF NewestInv, IdsNewest, FileBehind, Followed
  <1>9. CASE ~tx.watched
    <2>1. run' = run
      BY <1>2, <1>9
    <2>2. run.receipt # "success"
      BY <1>1 DEF NewestInv, IdsNewest, ReceiptNewest
    <2>3. SentNotCompleted' /\ ReceiptNewest'
      BY <2>1, <2>2 DEF NewestInv, IdsNewest, SentNotCompleted, ReceiptNewest
    <2> QED
      BY <1>7, <1>8, <2>3 DEF IdsNewest
  <1>10. CASE tx.watched
    <2>1. Len(pending) = 1 /\ Fits(tx.kind) /\ run.receipt = "pending"
      BY <1>1, <1>10 DEF NewestInv, RegInv, WatchedFits
    <2>2. pending' = <<>>
      BY <1>1, <1>2, <2>1
    <2>3. SentNotCompleted'
      BY <1>6, <2>1 DEF NewestInv, IdsNewest, SentNotCompleted
    <2>4. run'.receipt = "success" => ~Reverts(tx) /\ run'.mined = InstructionOf(tx)
      <3>1. CASE Reverts(tx)
        <4>1. run' = [run EXCEPT !.receipt = "reverted"]
          BY <1>2, <1>10, <3>1
        <4> QED
          BY <1>1, <4>1 DEF Run
      <3>2. CASE ~Reverts(tx)
        <4>1. run' = [run EXCEPT !.receipt = "success", !.mined = InstructionOf(tx)]
          BY <1>2, <1>10, <3>2
        <4> QED
          BY <1>1, <3>2, <4>1 DEF Run
      <3> QED
        BY <3>1, <3>2
    <2>5. ReceiptNewest'
      BY <1>4, <1>6, <2>1, <2>2, <2>4 DEF ReceiptNewest, Fits, AttestKinds
    <2> QED
      BY <1>7, <1>8, <2>3, <2>5 DEF IdsNewest
  <1> QED
    BY <1>9, <1>10

(* A run starts from the file, or removes it first. *)
LEMMA StartNewest ==
  ASSUME NewestInv, NEW inv, NEW instruction,
         NEW left \in {NoFile, file}, Start(inv, instruction, left),
         UNCHANGED <<chainVars, pending>>
  PROVE  IdsNewest'
  <1>1. file' = left
    BY DEF Start
  <1>2. Newest(file.state)'
    <2>1. left = file \/ left.state.completed = {}
      BY DEF NoFile, EmptyState
    <2> QED
      BY <1>1, <2>1 DEF NewestInv, IdsNewest, Newest, NoneSent, chainVars
  <1>3. CASE left.readable
    <2>1. run' = [Stopped EXCEPT !.pc = "r", !.command = inv.command, !.tee = liveTee,
                    !.state = left.state, !.instruction = instruction]
      BY <1>3 DEF Start
    <2>2. run'.state = left.state /\ run'.pc = "r" /\ run'.receipt = "none"
      BY <2>1 DEF Stopped
    <2>3. Newest(run.state)'
      BY <1>1, <1>2, <2>2 DEF Newest
    <2> QED
      BY <1>1, <1>2, <2>2, <2>3
      DEF IdsNewest, FileBehind, SentNotCompleted, ReceiptNewest, Followed
  <1>4. CASE ~left.readable
    <2>1. run' = Stopped
      BY <1>4 DEF Start
    <2>2. /\ run'.state.completed = {} /\ run'.receipt = "none"
          /\ run'.pc = "off" /\ run'.command = {}
      BY <2>1 DEF Stopped, EmptyState
    <2>3. Newest(run.state)'
      BY <2>2 DEF Newest
    <2> QED
      BY <1>2, <2>2, <2>3
      DEF IdsNewest, FileBehind, SentNotCompleted, ReceiptNewest, Followed, Steps
  <1> QED
    BY <1>3, <1>4

LEMMA WorldNewest ==
  ASSUME NewestInv, Len(attests') = Len(attests), Len(checks') = Len(checks),
         UNCHANGED <<pending, run, file>>
  PROVE  IdsNewest'
  <1>1. Newest(file.state)' /\ Newest(run.state)'
    BY DEF NewestInv, IdsNewest, Newest, NoneSent
  <1>2. FileBehind' /\ SentNotCompleted' /\ ReceiptNewest' /\ Followed'
    BY DEF NewestInv, IdsNewest, FileBehind, SentNotCompleted, ReceiptNewest, Followed
  <1> QED
    BY <1>1, <1>2 DEF IdsNewest

LEMMA ToolNewest ==
  ASSUME NewestInv, ToolStep
  PROVE  IdsNewest'
  <1>1. /\ run \in Run /\ run.state \in RegState /\ run.mined \in Nat
        /\ RegInv /\ IdsNewest /\ run.state.completed \subseteq {"r", "R", "a"}
    BY DEF NewestInv, RegInv, RegTypeOK, Run, RegState
  <1>2. ASSUME NEW step \in {"r", "R", "a"}, PassOver(step)
        PROVE  IdsNewest'
    <2>1. /\ run'.state = run.state /\ run'.receipt = "none" /\ run'.command = run.command
          /\ UNCHANGED <<chainVars, pending, file>> /\ run.pc # "off" /\ run.command # Steps
      BY <1>1, <1>2 DEF PassOver, At, Run, Steps
    <2>2. Followed'
      BY <2>1 DEF Followed
    <2> QED
      BY <2>1, <2>2, MoveNewest
  <1>3. ASSUME NEW step \in {"r", "R", "a"}, SkipCompleted(step)
        PROVE  IdsNewest'
    <2>1. /\ run.pc = step /\ run.receipt = "none" /\ step \in run.state.completed
          /\ UNCHANGED <<chainVars, pending, file>>
          /\ run' = IF step = "a"
                    THEN [run EXCEPT !.pc = After[step], !.instruction = run.state.instruction]
                    ELSE [run EXCEPT !.pc = After[step], !.attest = run.state.attest]
      BY <1>3 DEF SkipCompleted, At
    <2>2. /\ run'.state = run.state /\ run'.receipt = "none" /\ run'.command = run.command
          /\ run'.pc = After[step]
          /\ run'.attest = IF step = "a" THEN run.attest ELSE run.state.attest
          /\ step = "a" => run'.instruction = run.state.instruction
      <3>1. CASE step = "a"
        BY <1>1, <2>1, <3>1 DEF Run
      <3>2. CASE step # "a"
        BY <1>1, <2>1, <3>2 DEF Run
      <3> QED
        BY <3>1, <3>2
    <2>3. Followed'
      <3>1. CASE step = "r"
        BY <2>1, <2>2, <3>1 DEF Followed, After
      <3>2. CASE step = "R"
        <4>1. run.command = Steps => "r" \in run.state.completed
          BY <1>1, <2>1, <3>2 DEF IdsNewest, Followed
        <4> QED
          BY <2>1, <2>2, <3>2, <4>1 DEF Followed, After
      <3>3. CASE step = "a"
        <4>1. run.command = Steps =>
                {"r", "R"} \subseteq run.state.completed /\ run.attest = run.state.attest
          BY <1>1, <2>1, <3>3 DEF IdsNewest, Followed
        <4> QED
          BY <2>1, <2>2, <3>3, <4>1 DEF Followed, After
      <3> QED
        BY <3>1, <3>2, <3>3
    <2> QED
      BY <2>1, <2>2, <2>3, MoveNewest
  <1>4. CASE PreRegistration
    <2>1. PICK kind : Send(kind, run.tee) /\ kind \in AttestKinds
      BY <1>4 DEF PreRegistration, AttestKinds
    <2>2. run.receipt = "none" /\ run.pc = "r" /\ "r" \notin run.state.completed
      BY <1>4 DEF PreRegistration, Due, At
    <2> QED
      BY <2>1, <2>2, SendNewest DEF AttestKinds
  <1>5. CASE RequestTeeAttestation
    <2>1. /\ Send("attest", run.tee) /\ run.receipt = "none" /\ run.pc = "R"
          /\ "R" \notin run.state.completed
      BY <1>5 DEF RequestTeeAttestation, Due, At
    <2> QED
      BY <2>1, SendNewest
  <1>6. CASE RequestFTDCAvailabilityCheck
    <2>1. /\ Send("check", run.tee) /\ run.receipt = "none" /\ run.pc = "a"
          /\ "a" \notin run.state.completed
      BY <1>6 DEF RequestFTDCAvailabilityCheck, Due, At
    <2> QED
      BY <2>1, SendNewest DEF AttestKinds
  <1>7. CASE ToProduction
    <2>1. /\ Send("promote", checks[run.instruction].tee) /\ run.receipt = "none" /\ run.pc = "p"
          /\ "p" \notin run.state.completed
      BY <1>1, <1>7 DEF ToProduction, At
    <2> QED
      BY <2>1, SendNewest DEF AttestKinds
  <1>8. CASE PreRegistered \/ Attested
    <2> DEFINE noted == [run EXCEPT !.attest = run.mined, !.state.attest = run.mined]
    <2>1. /\ noted \in Run /\ noted.state.completed = run.state.completed
          /\ noted.state.attest = run.mined /\ noted.state.instruction = run.state.instruction
          /\ noted.attest = run.mined /\ noted.command = run.command
      BY <1>1 DEF Run, RegState
    <2>2. PICK step \in {"r", "R"} : Complete(step, noted)
      BY <1>8 DEF PreRegistered, Attested
    <2> HIDE DEF noted
    <2> QED
      BY <2>1, <2>2, CompleteNewest
  <1>9. CASE CheckRequested
    <2> DEFINE noted == [run EXCEPT !.instruction = run.mined, !.state.instruction = run.mined]
    <2>1. /\ noted \in Run /\ noted.state.completed = run.state.completed
          /\ noted.state.attest = run.state.attest /\ noted.state.instruction = run.mined
          /\ noted.attest = run.attest /\ noted.command = run.command
          /\ noted.instruction = run.mined
      BY <1>1 DEF Run, RegState
    <2>2. Complete("a", noted)
      BY <1>9 DEF CheckRequested
    <2> HIDE DEF noted
    <2> QED
      BY <2>1, <2>2, CompleteNewest
  <1>10. CASE PolicyOutOfSync \/ NoResult \/ Reverted \/ Done
    <2>1. Exit /\ UNCHANGED chainVars /\ file' \in {file, NoFile}
      BY <1>10 DEF PolicyOutOfSync, NoResult, Reverted, Done
    <2> QED
      BY <2>1, ExitNewest DEF chainVars
  <1> QED
    BY <1>2, <1>3, <1>4, <1>5, <1>6, <1>7, <1>8, <1>9, <1>10 DEF ToolStep

LEMMA FaultNewest ==
  ASSUME NewestInv, FaultStep
  PROVE  IdsNewest'
  <1>1. attests \in Seq(AttestRequest) /\ checks \in Seq(CheckRequest)
    BY DEF NewestInv, RegInv, RegTypeOK
  <1>2. CASE ToolStops \/ ToolDiesWriting
    <2>1. Exit /\ UNCHANGED chainVars /\ file' \in {file, CorruptFile}
      BY <1>2 DEF ToolStops, ToolDiesWriting
    <2> QED
      BY <2>1, ExitNewest DEF chainVars
  <1>3. CASE PolicyLags
    BY <1>3, WorldNewest DEF PolicyLags, chainVars
  <1>4. CASE TeeRelaunch
    <2>1. Len(checks') = Len(checks)
      <3>1. \A i \in 1 .. Len(checks) : checks[i] \in CheckRequest
        BY <1>1
      <3>2. \A i \in 1 .. Len(checks) : [checks[i] EXCEPT !.proof = "none"] \in CheckRequest
        BY <3>1, ProofChanged
      <3>3. checks' \in [1 .. Len(checks) -> CheckRequest]
        BY <1>1, <1>4, <3>1, <3>2 DEF TeeRelaunch
      <3> QED
        BY <1>1, <3>3, FunctionIsSeq
    <2> QED
      BY <1>4, <2>1, WorldNewest DEF TeeRelaunch
  <1>5. ASSUME NEW i \in DOMAIN attests, ChallengeExpires(i)
        PROVE  IdsNewest'
    <2>1. attests' = [attests EXCEPT ![i] = [attests[i] EXCEPT !.valid = FALSE]]
      BY <1>5 DEF ChallengeExpires
    <2>2. Len(attests') = Len(attests)
      BY <1>1, <2>1, Invalidate, SeqUpdated
    <2> QED
      BY <1>5, <2>2, WorldNewest DEF ChallengeExpires
  <1>6. ASSUME NEW i \in DOMAIN checks, ProofLost(i)
        PROVE  IdsNewest'
    <2>1. checks' = [checks EXCEPT ![i] = [checks[i] EXCEPT !.proof = "none"]]
      BY <1>6 DEF ProofLost
    <2>2. Len(checks') = Len(checks)
      BY <1>1, <2>1
    <2> QED
      BY <1>6, <2>2, WorldNewest DEF ProofLost
  <1>7. ASSUME NEW inv \in Invocations, NEW instruction, InvokeStale(inv, instruction)
        PROVE  IdsNewest'
    BY <1>7, StartNewest DEF InvokeStale
  <1> QED
    BY <1>2, <1>3, <1>4, <1>5, <1>6, <1>7 DEF FaultStep

LEMMA NewestStepKeeps ==
  ASSUME NewestInv, [RegNext]_regVars
  PROVE  NewestInv'
  <1>1. RegInv'
    BY RegStepKeeps DEF NewestInv
  <1>2. CASE Operate
    <2>1. PICK inv \in Invocations, instruction \in {ZeroHash} \cup DOMAIN checks :
            Invoke(inv, instruction)
      BY <1>2 DEF Operate
    <2>2. IdsNewest'
      BY <2>1, StartNewest DEF Invoke
    <2> QED
      BY <1>1, <2>2 DEF NewestInv
  <1>3. CASE ProofStep
    <2>1. PICK i \in DOMAIN checks : ProofArrives(i)
      BY <1>3 DEF ProofStep
    <2>2. checks \in Seq(CheckRequest)
      BY DEF NewestInv, RegInv, RegTypeOK
    <2>3. checks' = [checks EXCEPT ![i] = [checks[i] EXCEPT !.proof = "ready"]]
      BY <2>1 DEF ProofArrives
    <2>4. Len(checks') = Len(checks)
      BY <2>2, <2>3
    <2>5. IdsNewest'
      BY <2>1, <2>4, WorldNewest DEF ProofArrives
    <2> QED
      BY <1>1, <2>5 DEF NewestInv
  <1>4. CASE PolicyMoves \/ UNCHANGED regVars
    BY <1>1, <1>4, WorldNewest DEF PolicyMoves, regVars, chainVars, NewestInv
  <1> QED
    BY <1>1, <1>2, <1>3, <1>4, MineNewest, ToolNewest, FaultNewest DEF RegNext, NewestInv

(* A run with post-build.sh's command line names the newest challenge in its   *)
(* availability check and the newest check in its promotion, for every set of  *)
(* command lines that other runs use, and however often runs die between a     *)
(* transaction and its save, saves fail and transactions are mined late.       *)
THEOREM RunsUseNewestIds == RegSpec => []NewestIdsUsed
  <1>1. ASSUME NewestInv PROVE NewestIdsUsed
    BY <1>1 DEF NewestInv, IdsNewest, Newest, Followed, NewestIdsUsed, Due, At
  <1> QED
    BY <1>1, NewestInitially, NewestStepKeeps, PTL DEF RegSpec
=============================================================================
