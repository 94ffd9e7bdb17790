---------------------------- MODULE AuditLedger ----------------------------
(***************************************************************************)
(* What the GuardianRegistry contract promises a reader of getActions():   *)
(* one ledger per guard, opened empty, that only ever grows at its end,    *)
(* one row at a time, with strictly increasing nonces.  No row is ever     *)
(* rewritten, reordered or removed, and no nonce is used twice.            *)
(***************************************************************************)
EXTENDS Naturals, Sequences

CONSTANT Rows            \* rows a ledger may hold; each has a field nonce

VARIABLE log             \* log[g] is the ledger of guard g

\* The highest nonce a ledger has used; 0 before its first row.
TailNonce(ledger) == IF ledger = <<>> THEN 0 ELSE ledger[Len(ledger)].nonce

Init == log = <<>>

\* A new guard's ledger starts empty; guards are numbered consecutively.
Open == log' = Append(log, <<>>)

Record(g, row) ==
  /\ row.nonce > TailNonce(log[g])
  /\ log' = [log EXCEPT ![g] = Append(@, row)]

Next == Open \/ \E g \in DOMAIN log, row \in Rows : Record(g, row)

Spec == Init /\ [][Next]_log
=============================================================================
