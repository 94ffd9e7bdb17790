--------------------------- MODULE GuardianPromise ---------------------------
(***************************************************************************)
(* What the enclave and the registry together promise an agent.  Once the  *)
(* registry is commissioned, that is, has a signer, the ledger of a guard  *)
(* is numbered consecutively, and every row is a top-up of an amount that  *)
(* was the active guard's committed policy at some moment since the row    *)
(* before it.  Policies may change, signatures may be delayed, lost or     *)
(* submitted twice; the ledger may not tell.  Of the rows from before the  *)
(* commissioning nothing is promised but that their nonces increase.       *)
(***************************************************************************)
EXTENDS Naturals, Sequences

CONSTANTS
  Rows,           \* rows a ledger may hold
  Amounts, TopUp  \* amounts a policy may commit; the row type

VARIABLES
  log,           \* log[g] is the ledger of guard g
  offered,       \* offered[g]: the amounts g's owner has offered, as the policy
                 \* of an active guard, since the last row of log[g]
  commissioned

Init == log = <<>> /\ offered = <<>> /\ commissioned = FALSE

\* The nonce of a ledger's last row; 0 before its first one.
LastNonce(ledger) == IF ledger = <<>> THEN 0 ELSE ledger[Len(ledger)].nonce

\* A new guard is active and offers the amount it registers with.
Enrol(amount) ==
  /\ log' = Append(log, <<>>)
  /\ offered' = Append(offered, {amount})
  /\ UNCHANGED commissioned

\* The owner changes the policy or activates the guard: one more offer.
Offer(g, amount) ==
  /\ offered' = [offered EXCEPT ![g] = @ \cup {amount}]
  /\ UNCHANGED <<log, commissioned>>

Commission == commissioned' = TRUE /\ UNCHANGED <<log, offered>>

\* One more row.  What the policy says now, if the guard is active, is offered
\* again.
Extend(g, row, current) ==
  /\ log' = [log EXCEPT ![g] = Append(@, row)]
  /\ offered' = [offered EXCEPT ![g] = current]
  /\ UNCHANGED commissioned

\* The next row: its number and its amount leave no choice but among the offers.
Record(g, amount, current) ==
  /\ commissioned
  /\ amount \in offered[g]
  /\ Extend(g, [actionType |-> TopUp, amount |-> amount,
                nonce |-> LastNonce(log[g]) + 1], current)

\* Before the commissioning anybody may add a row.
Admit(g, row, current) ==
  /\ ~commissioned
  /\ row.nonce > LastNonce(log[g])
  /\ Extend(g, row, current)

Next ==
  \/ Commission
  \/ \E amount \in Amounts : Enrol(amount)
  \/ \E g \in DOMAIN log, amount \in Amounts : Offer(g, amount)
  \/ \E g \in DOMAIN log, current \in {{}} \cup {{a} : a \in Amounts} :
       \/ \E amount \in Amounts : Record(g, amount, current)
       \/ \E row \in Rows : Admit(g, row, current)

Spec == Init /\ [][Next]_<<log, offered, commissioned>>
=============================================================================
