----------------------------- MODULE GreetingApp -----------------------------
(***************************************************************************)
(* The sample extension of app/handlers.ts and app/handlers.py: what its   *)
(* handlers do to the state that GET /state shows, and what they answer.   *)
(* A request has a path ("action", "state" or another one), says whether   *)
(* its body is well formed and its opType and opCommand are strings, which *)
(* handlers its payload is valid for, and has an operation:                *)
(* <<opType, opCommand>>.  table gives the handler registered for each     *)
(* operation; next to the two of the sample, "pending" is one that answers *)
(* with status 2, "progress" one that answers with status 3 and data, and  *)
(* "boom" one that throws.                                                 *)
(***************************************************************************)
EXTENDS Naturals

AnyCommand == ""  \* the empty opCommand

Fresh == [greetingCount |-> 0, lastGreeting |-> {}, farewellCount |-> 0, lastFarewell |-> {}]

\* Step 3 of a handler: the counter first, then the text, which names the request.
Count(s, h) ==
  CASE h = "hello"   -> [s EXCEPT !.greetingCount = @ + 1]
    [] h = "goodbye" -> [s EXCEPT !.farewellCount = @ + 1]
Uncount(s, h) ==
  CASE h = "hello"   -> [s EXCEPT !.greetingCount = @ - 1]
    [] h = "goodbye" -> [s EXCEPT !.farewellCount = @ - 1]
Remember(s, h, r) ==
  CASE h = "hello"   -> [s EXCEPT !.lastGreeting = {r}]
    [] h = "goodbye" -> [s EXCEPT !.lastFarewell = {r}]

\* Framework.lookup: the exact pair, then the opCommand wildcard.
Lookup(table, operation) ==
  LET default == <<operation[1], AnyCommand>> IN
  CASE operation \in DOMAIN table -> table[operation]
    [] operation \notin DOMAIN table /\ default \in DOMAIN table -> table[default]
    [] OTHER -> "none"

\* Where handleRequest and processAction send a request: one of the handlers,
\* "report", or nowhere ("refused": 400, 404, 405 or 501; "mistyped": normalize
\* throws on an opType or opCommand that is no string).
Route(table, q) ==
  CASE q.path = "state" -> "report"
    [] q.path = "action" /\ q.wellFormed /\ ~q.typed -> "mistyped"
    [] q.path = "action" /\ q.wellFormed /\ q.typed /\ Lookup(table, q.operation) # "none"
         -> Lookup(table, q.operation)
    [] OTHER -> "refused"

\* A handler that changes the state: the payload decodes and validates.
Greets(table, q) ==
  Route(table, q) \in {"hello", "goodbye"} /\ Route(table, q) \in q.validFor

\* Answers: the ActionResult's status and, as its data, the number of this
\* greeting or of this farewell (0: no such field); or the state.  NoAnswer: none yet.
NoAnswer ==
  [status |-> 0, greetingNumber |-> 0, farewellNumber |-> 0, state |-> Fresh, given |-> FALSE]
Result(status) == [NoAnswer EXCEPT !.status = status, !.given = TRUE]
Snapshot(s) == [NoAnswer EXCEPT !.state = s, !.given = TRUE]

\* The answer to q once the state is s.
AnswerTo(table, q, s) ==
  LET h == Route(table, q) IN
  CASE h = "report"  -> Snapshot(s)
    [] h = "pending" -> Result(2)
    [] h = "progress" -> [Result(3) EXCEPT !.greetingNumber = 1, !.farewellNumber = 1]
    [] h = "hello" /\ h \in q.validFor   -> [Result(1) EXCEPT !.greetingNumber = s.greetingCount]
    [] h = "goodbye" /\ h \in q.validFor -> [Result(1) EXCEPT !.farewellNumber = s.farewellCount]
    [] OTHER -> Result(0)
=============================================================================
