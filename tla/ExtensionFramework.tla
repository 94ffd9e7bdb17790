------------------------- MODULE ExtensionFramework -------------------------
(***************************************************************************)
(* The extension servers of tee/typescript and tee/python, serving several *)
(* requests at once, and tools/cmd/run-test, which sends two of them.      *)
(*                                                                         *)
(* TypeScript: one event loop.  A handler may return a promise, so others  *)
(* run while it is suspended, and serialize() chains each call to the one  *)
(* queued before it.  Python: one thread per request and one lock.  In     *)
(* both, a handler runs in two steps (counter, then text), another request *)
(* may run between them unless it is kept out, and the response is sent    *)
(* after the next request has been let in.                                 *)
(*                                                                         *)
(* A handler that throws, or the lookup of one, rejects handleRequest.  In *)
(* Python that ends its connection; in TypeScript nobody handles the       *)
(* rejection of serve(), so node exits once the microtasks queued by then  *)
(* have run: requests that need nothing else are still answered, those     *)
(* that are suspended, or wait for one that is, are lost.  The container   *)
(* ends with either of its processes and is started again.                 *)
(***************************************************************************)
EXTENDS GreetingApp, Sequences

CONSTANTS
  Requests, Request,  \* as in SequentialServer
  TestHello,          \* run-test's two requests
  TestGoodbye,
  Tables,             \* the handler tables an extension may register
  None,
  MaxNodeCrashes      \* bound: how often the tee-node process dies

ASSUME FrameworkAssumption ==
  {TestHello, TestGoodbye} \subseteq Requests /\ None \notin Requests /\ MaxNodeCrashes \in Nat

VARIABLES
  lang, table,  \* the language and the registered handlers
  up,           \* "up", "doomed" (a rejection is unhandled) or "down"
  pc, answer,   \* of every request; an answer computed may still get lost
  after, queue, \* TypeScript: the request whose promise r waits for; the last one
  lock,         \* Python: the request that holds it
  app,          \* the state of the handlers
  arrivals,     \* history: the requests of this process in serialize()'s order
  crashes, nodeCrashes,
  test          \* run-test: its program counter

runtime == <<lang, table>>
serverVars == <<runtime, up, pc, answer, after, queue, lock, app, arrivals, crashes, nodeCrashes>>
frameworkVars == <<serverVars, test>>

Phases == {"new", "waiting", "half", "settled", "answered", "lost"}
TestPhases == {"hello", "helloSent", "goodbye", "goodbyeSent", "passed", "failed"}

FrameworkInit ==
  /\ lang \in {"typescript", "python"} /\ table \in Tables
  /\ up = "up" /\ app = Fresh /\ arrivals = <<>>
  /\ pc = [r \in Requests |-> "new"] /\ answer = [r \in Requests |-> NoAnswer]
  /\ after = [r \in Requests |-> None] /\ queue = None /\ lock = None
  /\ crashes = 0 /\ nodeCrashes = 0 /\ test = "hello"

RouteOf(r) == Route(table, Request[r])

-----------------------------------------------------------------------------
(* Keeping requests apart                                                   *)

\* Mutant: the queue is replaced before it is read, so r waits for itself.
SerializeSwapped(r) ==
  queue' = r /\ after' = [after EXCEPT ![r] = queue'] /\ arrivals' = Append(arrivals, r)

\* serialize: r's call is chained to the queue, and the queue ends with it.
Serialize(r) ==
  IF lang = "typescript"
  THEN after' = [after EXCEPT ![r] = queue] /\ queue' = r /\ arrivals' = Append(arrivals, r)
  ELSE UNCHANGED <<after, queue, arrivals>>

\* A promise that was fulfilled or rejected: then(fn, fn) goes on after both.
Settled(r) == pc[r] \in {"settled", "answered", "lost"}

\* Mutants: _process_state without the lock; a mutex instead of the promise chain.
StateUnguarded(r) ==
  \/ lang = "typescript" /\ (after[r] # None => Settled(after[r]))
  \/ lang = "python" /\ (lock = None \/ RouteOf(r) = "report")
AnyOrder(r) == lock = None /\ \A s \in Requests : pc[s] # "half"

\* It is r's turn: its predecessor in the queue is through, the lock is free.
MayRun(r) ==
  \/ lang = "typescript" /\ (after[r] # None => Settled(after[r]))
  \/ lang = "python" /\ lock = None

-----------------------------------------------------------------------------
(* One request                                                              *)

\* run-test's instructions reach the extension once they are on chain.
Sent(r) ==
  /\ r = TestHello => test # "hello"
  /\ r = TestGoodbye => test \in {"goodbyeSent", "passed", "failed"}

\* The body is parsed and the handler looked up without waiting, even between a
\* rejection and the exit when requests are pipelined on one connection.
Arrive(r) ==
  /\ up # "down" /\ pc[r] = "new" /\ Sent(r) /\ RouteOf(r) # "mistyped"
  /\ IF RouteOf(r) = "refused"
     THEN pc' = [pc EXCEPT ![r] = "answered"] /\ UNCHANGED <<after, queue, arrivals>>
     ELSE pc' = [pc EXCEPT ![r] = "waiting"] /\ Serialize(r)
  /\ UNCHANGED <<runtime, up, answer, lock, app, crashes, nodeCrashes, test>>

\* Framework.lookup throws, before the request is queued and outside the lock.
LookupThrows(r) ==
  /\ up # "down" /\ pc[r] = "new" /\ Sent(r) /\ RouteOf(r) = "mistyped"
  /\ pc' = [pc EXCEPT ![r] = "lost"]
  /\ up' = IF lang = "typescript" THEN "doomed" ELSE up
  /\ UNCHANGED <<runtime, answer, after, queue, lock, app, arrivals, crashes, nodeCrashes, test>>

\* A handler that changes nothing: a state report, an error, "pending".
RunAtOnce(r) ==
  /\ pc[r] = "waiting" /\ MayRun(r)
  /\ RouteOf(r) # "boom" /\ ~Greets(table, Request[r])
  /\ pc' = [pc EXCEPT ![r] = "settled"]
  /\ answer' = [answer EXCEPT ![r] = AnswerTo(table, Request[r], app)]
  /\ UNCHANGED <<runtime, up, after, queue, lock, app, arrivals, crashes, nodeCrashes, test>>

\* The counter goes up ...
Begin(r) ==
  /\ pc[r] = "waiting" /\ MayRun(r) /\ Greets(table, Request[r])
  /\ pc' = [pc EXCEPT ![r] = "half"]
  /\ app' = Count(app, RouteOf(r))
  /\ lock' = IF lang = "python" THEN r ELSE lock
  /\ UNCHANGED <<runtime, up, answer, after, queue, arrivals, crashes, nodeCrashes, test>>

\* ... then the text is stored, and the counter is read for the response.
Finish(r) ==
  /\ pc[r] = "half"
  /\ pc' = [pc EXCEPT ![r] = "settled"]
  /\ app' = Remember(app, RouteOf(r), r)
  /\ answer' = [answer EXCEPT ![r] = AnswerTo(table, Request[r], app')]
  /\ lock' = None
  /\ UNCHANGED <<runtime, up, after, queue, arrivals, crashes, nodeCrashes, test>>

\* Mutant: the lock is not released when the handler throws.
ThrowLocked(r) ==
  /\ pc[r] = "waiting" /\ MayRun(r) /\ RouteOf(r) = "boom"
  /\ pc' = [pc EXCEPT ![r] = "lost"]
  /\ lock' = IF lang = "python" THEN r ELSE lock
  /\ up' = IF lang = "typescript" THEN "doomed" ELSE up
  /\ UNCHANGED <<runtime, answer, after, queue, app, arrivals, crashes, nodeCrashes, test>>

\* A handler throws: no response, the queue and the lock go on.
Throw(r) ==
  /\ pc[r] = "waiting" /\ MayRun(r) /\ RouteOf(r) = "boom"
  /\ pc' = [pc EXCEPT ![r] = "lost"]
  /\ up' = IF lang = "typescript" THEN "doomed" ELSE up
  /\ UNCHANGED <<runtime, answer, after, queue, lock, app, arrivals, crashes, nodeCrashes, test>>

Respond(r) ==
  /\ pc[r] = "settled"
  /\ pc' = [pc EXCEPT ![r] = "answered"]
  /\ UNCHANGED <<runtime, up, answer, after, queue, lock, app, arrivals, crashes, nodeCrashes, test>>

-----------------------------------------------------------------------------
(* The process                                                              *)

\* Open connections and everything in memory are gone.
Dies ==
  /\ up' = "down"
  /\ pc' = [r \in Requests |-> IF pc[r] \in {"waiting", "half", "settled"} THEN "lost" ELSE pc[r]]
  /\ after' = [r \in Requests |-> None] /\ queue' = None /\ lock' = None
  /\ app' = Fresh /\ arrivals' = <<>> /\ crashes' = crashes + 1
  /\ UNCHANGED <<runtime, answer, test>>

\* r's next step is a microtask: it takes it before node looks at rejections.
Queued(r) == pc[r] = "settled" \/ (pc[r] = "waiting" /\ MayRun(r))

UnhandledRejection ==
  /\ up = "doomed" /\ \A r \in Requests : ~Queued(r)
  /\ Dies /\ UNCHANGED nodeCrashes

NodeDies ==
  /\ up # "down" /\ nodeCrashes < MaxNodeCrashes /\ nodeCrashes' = nodeCrashes + 1
  /\ Dies

Restart ==
  /\ up = "down" /\ up' = "up"
  /\ UNCHANGED <<runtime, pc, answer, after, queue, lock, app, arrivals, crashes, nodeCrashes, test>>

-----------------------------------------------------------------------------
(* run-test                                                                 *)

\* SendSayHello and SendSayGoodbye: the instruction is on chain, or rejected.
SendInstruction ==
  /\ \/ test = "hello" /\ test' = "helloSent"
     \/ test = "goodbye" /\ test' = "goodbyeSent"
     \/ test \in {"hello", "goodbye"} /\ test' = "failed"
  /\ UNCHANGED serverVars

\* verifyHelloResult and verifyGoodbyeResult on an ActionResult and the number its
\* data gives under greetingNumber and farewellNumber.
Verified(result, number) == result.status # 0 /\ result.status # 2 /\ number >= 1

\* ActionResult polls fifteen times for a result the extension has answered with.
PollResult ==
  /\ \/ /\ test = "helloSent" /\ pc[TestHello] = "answered"
        /\ test' = IF Verified(answer[TestHello], answer[TestHello].greetingNumber)
                   THEN "goodbye" ELSE "failed"
     \/ /\ test = "goodbyeSent" /\ pc[TestGoodbye] = "answered"
        /\ test' = IF Verified(answer[TestGoodbye], answer[TestGoodbye].farewellNumber)
                   THEN "passed" ELSE "failed"
     \/ test \in {"helloSent", "goodbyeSent"} /\ test' = "failed"
  /\ UNCHANGED serverVars

-----------------------------------------------------------------------------
Run(r) == RunAtOnce(r) \/ Begin(r) \/ Finish(r) \/ Throw(r) \/ Respond(r)

FrameworkNext ==
  \/ \E r \in Requests : Arrive(r) \/ LookupThrows(r) \/ Run(r)
  \/ UnhandledRejection \/ NodeDies \/ Restart
  \/ SendInstruction \/ PollResult

\* The event loop and the thread scheduler run somebody as long as anybody can
\* run, and an unhandled rejection ends the process.
FrameworkSpec ==
  /\ FrameworkInit /\ [][FrameworkNext]_frameworkVars
  /\ WF_frameworkVars(\E r \in Requests : Run(r))
  /\ WF_frameworkVars(UnhandledRejection)

-----------------------------------------------------------------------------
(* Properties                                                               *)

\* Every variable holds a value of its type, and nobody waits for himself.
FrameworkTypeOK ==
  /\ lang \in {"typescript", "python"} /\ table \in Tables /\ up \in {"up", "doomed", "down"}
  /\ pc \in [Requests -> Phases] /\ test \in TestPhases
  /\ after \in [Requests -> Requests \cup {None}] /\ queue \in Requests \cup {None}
  /\ \A r \in Requests : after[r] # r
  /\ lock \in Requests \cup {None}
  /\ nodeCrashes \in 0 .. MaxNodeCrashes /\ crashes \in Nat

\* The state without what a handler has done of its work so far.
Committed ==
  IF \E r \in Requests : pc[r] = "half"
  THEN Uncount(app, RouteOf(CHOOSE r \in Requests : pc[r] = "half")) ELSE app

\* Concurrent requests, the two languages' ways of keeping them apart, throwing
\* handlers and restarts implement the sequential server: no read shows half a
\* greeting, no number is given twice, no effect is lost.
Sequential == INSTANCE SequentialServer WITH state <- Committed, answers <- answer
ImplementsSequential == Sequential!Spec

\* TypeScript runs requests in the order serialize() was called in, also after
\* one of them was rejected ("after all previously queued work, preserving order").
InOrder ==
  lang = "typescript" =>
    \A i, j \in DOMAIN arrivals :
      i < j /\ pc[arrivals[j]] # "waiting" => Settled(arrivals[i])

\* A request that was queued is answered, whatever throws before it, unless the
\* process ends.
Served ==
  \A r \in Requests :
    (pc[r] = "waiting" /\ RouteOf(r) # "boom") ~> (pc[r] = "answered" \/ crashes > 0)

\* "The queue is advanced even when fn rejects, so one failing handler cannot
\* wedge the server" (server.ts, serialize): whatever throws before it, a queued
\* request is answered as long as tee-node does not die.
NotWedged ==
  \A r \in Requests :
    (pc[r] = "waiting" /\ RouteOf(r) # "boom") ~> (pc[r] = "answered" \/ nodeCrashes > 0)
=============================================================================
