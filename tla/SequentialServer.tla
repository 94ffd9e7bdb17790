-------------------------- MODULE SequentialServer --------------------------
(***************************************************************************)
(* What the extension contract (docs/extension-contract.md, section 5)     *)
(* promises of concurrency: requests take effect one at a time and all at  *)
(* once, and a state read never shows a half-applied mutation.  The state  *)
(* is lost when the process is.                                            *)
(***************************************************************************)
EXTENDS GreetingApp

CONSTANTS Requests, Request  \* the requests, and what each one asks

VARIABLES table, state, answers

Init == state = Fresh /\ answers = [r \in Requests |-> NoAnswer]

Serve(r) ==
  LET q == Request[r]  h == Route(table, q) IN
  /\ ~answers[r].given
  /\ state' = IF Greets(table, q) THEN Remember(Count(state, h), h, r) ELSE state
  /\ answers' = [answers EXCEPT ![r] = AnswerTo(table, q, state')]
  /\ UNCHANGED table

Restart == state' = Fresh /\ UNCHANGED <<table, answers>>

Next == Restart \/ \E r \in Requests : Serve(r)

Spec == Init /\ [][Next]_<<table, state, answers>>
=============================================================================
