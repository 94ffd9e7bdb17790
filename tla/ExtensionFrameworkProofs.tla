---------------------- MODULE ExtensionFrameworkProofs ----------------------
(* The promise chain of server.ts and the lock of server.py both implement    *)
(* the sequential server, for any requests, any handler tables and any number *)
(* of crashes: the safety half of what ExtensionFramework checks.             *)
EXTENDS ExtensionFramework, TLAPS

App ==
  [greetingCount : Nat, lastGreeting : SUBSET Requests,
   farewellCount : Nat, lastFarewell : SUBSET Requests]

Answer ==
  [status : 0 .. 3, greetingNumber : Nat, farewellNumber : Nat, state : App,
   given : BOOLEAN]

\* The part of FrameworkTypeOK that is about the server's data.
DataOK == app \in App /\ answer \in [Requests -> Answer]

\* Whoever is last in the queue has arrived.
QueueArrived == queue # None => pc[queue] # "new"

(* TypeScript: arrivals is the promise chain itself.  Its links are `after',   *)
(* its end is `queue', nobody is in it twice, and whoever waits or runs is in  *)
(* it.                                                                        *)
Chained ==
  lang = "typescript" =>
    /\ arrivals \in Seq(Requests)
    /\ \A i \in 1 .. Len(arrivals) : pc[arrivals[i]] # "new"
    /\ \A i, j \in 1 .. Len(arrivals) : arrivals[i] = arrivals[j] => i = j
    /\ queue = IF Len(arrivals) = 0 THEN None ELSE arrivals[Len(arrivals)]
    /\ \A i \in 1 .. Len(arrivals) :
         after[arrivals[i]] = IF i = 1 THEN None ELSE arrivals[i - 1]
    /\ \A r \in Requests :
         pc[r] \in {"waiting", "half"} => \E i \in 1 .. Len(arrivals) : arrivals[i] = r
    /\ \A i, j \in 1 .. Len(arrivals) :
         i < j /\ pc[arrivals[j]] # "waiting" => Settled(arrivals[i])

\* Python: the lock is held exactly by the request that is half-way.
Locked == lang = "python" => \A r \in Requests : pc[r] = "half" <=> lock = r

\* Only handlers that greet have a half-way point.
HalfGreets == \A r \in Requests : pc[r] = "half" => Greets(table, Request[r])

\* A request has no answer before its handler is through.
Unanswered ==
  \A r \in Requests : pc[r] \in {"new", "waiting", "half"} => answer[r] = NoAnswer

(* The inductive invariant. *)
FrameworkInv ==
  /\ FrameworkTypeOK /\ DataOK /\ QueueArrived /\ Chained /\ Locked
  /\ HalfGreets /\ Unanswered

-----------------------------------------------------------------------------
(* The handlers' data.                                                        *)

LEMMA FreshIsApp == Fresh \in App /\ NoAnswer \in Answer
  BY DEF Fresh, App, NoAnswer, Answer

(* A state is what its four fields are. *)
LEMMA SameApp ==
  ASSUME NEW a \in App
  PROVE  a = [greetingCount |-> a.greetingCount, lastGreeting |-> a.lastGreeting,
              farewellCount |-> a.farewellCount, lastFarewell |-> a.lastFarewell]
  BY DEF App

LEMMA CountIsApp ==
  ASSUME NEW s \in App, NEW h \in {"hello", "goodbye"}
  PROVE  Count(s, h) \in App /\ Uncount(Count(s, h), h) = s
  <1> DEFINE g == s.greetingCount
             t == s.lastGreeting
             f == s.farewellCount
             u == s.lastFarewell
             Rec(m, n) == [greetingCount |-> m, lastGreeting |-> t,
                           farewellCount |-> n, lastFarewell |-> u]
  <1>1. g \in Nat /\ f \in Nat /\ (g + 1) - 1 = g /\ (f + 1) - 1 = f
    BY DEF App
  <1>2. s = Rec(g, f)
    BY SameApp
  <1>3. CASE h = "hello"
    <2>1. Count(s, h) = Rec(g + 1, f)
      BY <1>2, <1>3 DEF Count
    <2>2. Uncount(Rec(g + 1, f), h) = Rec((g + 1) - 1, f)
      BY <1>3 DEF Uncount
    <2> QED
      BY <1>1, <1>2, <2>1, <2>2 DEF App
  <1>4. CASE h = "goodbye"
    <2>1. Count(s, h) = Rec(g, f + 1)
      BY <1>2, <1>4 DEF Count
    <2>2. Uncount(Rec(g, f + 1), h) = Rec(g, (f + 1) - 1)
      BY <1>4 DEF Uncount
    <2> QED
      BY <1>1, <1>2, <2>1, <2>2 DEF App
  <1> QED
    BY <1>3, <1>4

(* Counting again what was taken back gives the same state. *)
LEMMA CountUncount ==
  ASSUME NEW s \in App, NEW h \in {"hello", "goodbye"}
  PROVE  Count(Uncount(s, h), h) = s
  <1> DEFINE g == s.greetingCount
             t == s.lastGreeting
             f == s.farewellCount
             u == s.lastFarewell
             Rec(m, n) == [greetingCount |-> m, lastGreeting |-> t,
                           farewellCount |-> n, lastFarewell |-> u]
  <1>1. (g - 1) + 1 = g /\ (f - 1) + 1 = f
    BY DEF App
  <1>2. s = Rec(g, f)
    BY SameApp
  <1>3. CASE h = "hello"
    <2>1. Uncount(s, h) = Rec(g - 1, f)
      BY <1>2, <1>3 DEF Uncount
    <2>2. Count(Rec(g - 1, f), h) = Rec((g - 1) + 1, f)
      BY <1>3 DEF Count
    <2> QED
      BY <1>1, <1>2, <2>1, <2>2
  <1>4. CASE h = "goodbye"
    <2>1. Uncount(s, h) = Rec(g, f - 1)
      BY <1>2, <1>4 DEF Uncount
    <2>2. Count(Rec(g, f - 1), h) = Rec(g, (f - 1) + 1)
      BY <1>4 DEF Count
    <2> QED
      BY <1>1, <1>2, <2>1, <2>2
  <1> QED
    BY <1>3, <1>4

LEMMA RememberIsApp ==
  ASSUME NEW s \in App, NEW h \in {"hello", "goodbye"}, NEW r \in Requests
  PROVE  Remember(s, h, r) \in App
  BY DEF Remember, App

(* An answer is typed. *)
LEMMA AnswerFits ==
  ASSUME NEW t, NEW q, NEW s \in App
  PROVE  AnswerTo(t, q, s) \in Answer
  <1> DEFINE hello == [Result(1) EXCEPT !.greetingNumber = s.greetingCount]
             goodbye == [Result(1) EXCEPT !.farewellNumber = s.farewellCount]
             progress == [Result(3) EXCEPT !.greetingNumber = 1, !.farewellNumber = 1]
  <1>1. Snapshot(s) \in Answer
    BY FreshIsApp DEF Snapshot, NoAnswer, Answer
  <1>2. \A n \in 0 .. 3 : Result(n) \in Answer
    BY FreshIsApp DEF Result, NoAnswer, Answer
  <1>3. hello \in Answer /\ goodbye \in Answer /\ progress \in Answer
    <2>1. \A a \in Answer, m \in Nat : [a EXCEPT !.greetingNumber = m] \in Answer
      BY DEF Answer
    <2>2. \A a \in Answer, m \in Nat : [a EXCEPT !.farewellNumber = m] \in Answer
      BY DEF Answer
    <2>3. progress = [[Result(3) EXCEPT !.greetingNumber = 1] EXCEPT !.farewellNumber = 1]
      BY <1>2 DEF Answer
    <2>4. s.greetingCount \in Nat /\ s.farewellCount \in Nat
      BY DEF App
    <2>5. Result(1) \in Answer /\ Result(3) \in Answer
      BY <1>2
    <2> QED
      BY <2>1, <2>2, <2>3, <2>4, <2>5
  <1>4. AnswerTo(t, q, s) \in {Snapshot(s), Result(0), Result(2), hello, goodbye, progress}
    BY DEF AnswerTo
  <1>5. Result(0) \in Answer /\ Result(2) \in Answer
    BY <1>2
  <1> HIDE DEF hello, goodbye, progress
  <1> QED
    BY <1>1, <1>3, <1>4, <1>5

-----------------------------------------------------------------------------
(* Whose turn it is.                                                          *)

(* When it is r's turn nobody is half-way, and whoever was queued before r is  *)
(* through.                                                                   *)
LEMMA TurnAlone ==
  ASSUME FrameworkInv, NEW r \in Requests, pc[r] = "waiting", MayRun(r)
  PROVE  /\ \A s \in Requests : pc[s] # "half"
         /\ lang = "typescript" =>
              \A i, j \in 1 .. Len(arrivals) :
                i < j /\ arrivals[j] = r => Settled(arrivals[i])
  <1>1. CASE lang = "python"
    BY <1>1, FrameworkAssumption DEF FrameworkInv, Locked, MayRun
  <1>2. CASE lang = "typescript"
    <2>1. after[r] # None => Settled(after[r])
      BY <1>2 DEF MayRun
    <2>2. /\ arrivals \in Seq(Requests) /\ Len(arrivals) \in Nat
          /\ \A i \in 1 .. Len(arrivals) : arrivals[i] \in Requests
      BY <1>2 DEF FrameworkInv, Chained
    <2>3. \A i, j \in 1 .. Len(arrivals) : i < j /\ arrivals[j] = r => Settled(arrivals[i])
      <3>1. SUFFICES ASSUME NEW i \in 1 .. Len(arrivals), NEW j \in 1 .. Len(arrivals),
                            i < j, arrivals[j] = r
                     PROVE  Settled(arrivals[i])
        OBVIOUS
      <3>2. j # 1 /\ j - 1 \in 1 .. Len(arrivals)
        BY <3>1, <2>2
      <3>3. after[r] = arrivals[j - 1] /\ arrivals[j - 1] \in Requests
        BY <1>2, <2>2, <3>1, <3>2 DEF FrameworkInv, Chained
      <3>4. Settled(arrivals[j - 1])
        BY <2>1, <3>3, FrameworkAssumption
      <3>5. CASE i = j - 1
        BY <3>4, <3>5
      <3>6. CASE i < j - 1
        <4>1. pc[arrivals[j - 1]] # "waiting"
          BY <3>4 DEF Settled
        <4> QED
          BY <1>2, <3>2, <3>6, <4>1 DEF FrameworkInv, Chained
      <3> QED
        BY <2>2, <3>1, <3>5, <3>6
    <2>4. ASSUME NEW s \in Requests, pc[s] = "half" PROVE FALSE
      <3>1. PICK j \in 1 .. Len(arrivals) : arrivals[j] = r
        BY <1>2 DEF FrameworkInv, Chained
      <3>2. PICK k \in 1 .. Len(arrivals) : arrivals[k] = s
        BY <1>2, <2>4 DEF FrameworkInv, Chained
      <3>3. ~Settled(r) /\ ~Settled(s) /\ s # r /\ pc[s] # "waiting"
        BY <2>4 DEF Settled
      <3>4. ~(k < j)
        BY <2>3, <3>1, <3>2, <3>3
      <3>5. ~(j < k)
        BY <1>2, <3>1, <3>2, <3>3 DEF FrameworkInv, Chained
      <3> QED
        BY <2>2, <3>1, <3>2, <3>3, <3>4, <3>5
    <2> QED
      BY <2>3, <2>4
  <1> QED
    BY <1>1, <1>2 DEF FrameworkInv, FrameworkTypeOK

\* At most one request is half-way.
LEMMA OnlyHalf ==
  ASSUME FrameworkInv, NEW r \in Requests, NEW s \in Requests,
         pc[r] = "half", pc[s] = "half"
  PROVE  r = s
  <1>1. CASE lang = "python"
    BY <1>1 DEF FrameworkInv, Locked
  <1>2. CASE lang = "typescript"
    <2>1. PICK j \in 1 .. Len(arrivals) : arrivals[j] = r
      BY <1>2 DEF FrameworkInv, Chained
    <2>2. PICK k \in 1 .. Len(arrivals) : arrivals[k] = s
      BY <1>2 DEF FrameworkInv, Chained
    <2>3. ~Settled(r) /\ ~Settled(s) /\ pc[r] # "waiting" /\ pc[s] # "waiting"
      BY DEF Settled
    <2>4. ~(k < j) /\ ~(j < k)
      BY <1>2, <2>1, <2>2, <2>3 DEF FrameworkInv, Chained
    <2>5. Len(arrivals) \in Nat
      BY <1>2 DEF FrameworkInv, Chained
    <2> QED
      BY <2>1, <2>2, <2>4, <2>5
  <1> QED
    BY <1>1, <1>2 DEF FrameworkInv, FrameworkTypeOK

(* A request that leaves the queue only when it is its turn keeps the chain. *)
LEMMA MoveChained ==
  ASSUME FrameworkInv, NEW r \in Requests,
         NEW p \in {"half", "settled", "answered", "lost"},
         pc[r] = "waiting" => MayRun(r),
         p = "half" => pc[r] = "waiting",
         pc' = [pc EXCEPT ![r] = p], UNCHANGED <<lang, after, queue, arrivals>>
  PROVE  Chained' /\ QueueArrived'
  <1>1. /\ pc'[r] = p /\ \A s \in Requests : s # r => pc'[s] = pc[s]
        /\ queue \in Requests \cup {None}
    BY DEF FrameworkInv, FrameworkTypeOK
  <1>2. QueueArrived'
    BY <1>1 DEF FrameworkInv, QueueArrived
  <1>3. ASSUME lang = "typescript" PROVE Chained'
    <2>1. /\ arrivals \in Seq(Requests) /\ Len(arrivals) \in Nat
          /\ \A i \in 1 .. Len(arrivals) : arrivals[i] \in Requests
      BY <1>3 DEF FrameworkInv, Chained
    <2>2. \A i \in 1 .. Len(arrivals) : pc'[arrivals[i]] # "new"
      BY <1>1, <1>3, <2>1 DEF FrameworkInv, Chained
    <2>3. \A s \in Requests : pc'[s] \in {"waiting", "half"} =>
            \E i \in 1 .. Len(arrivals) : arrivals[i] = s
      BY <1>1, <1>3 DEF FrameworkInv, Chained
    <2>4. ASSUME NEW i \in 1 .. Len(arrivals), NEW j \in 1 .. Len(arrivals),
                 i < j, pc'[arrivals[j]] # "waiting"
          PROVE  pc'[arrivals[i]] \in {"settled", "answered", "lost"}
      <3>1. arrivals[i] \in Requests /\ arrivals[j] \in Requests
        BY <2>1
      <3>2. arrivals[i] # arrivals[j]
        BY <1>3, <2>1, <2>4 DEF FrameworkInv, Chained
      <3>3. Settled(arrivals[i])
        <4>1. CASE arrivals[j] = r /\ pc[r] = "waiting"
          BY <1>3, <2>4, <4>1, TurnAlone
        <4>2. CASE pc[arrivals[j]] # "waiting"
          BY <1>3, <2>4, <4>2 DEF FrameworkInv, Chained
        <4> QED
          BY <1>1, <2>4, <3>1, <4>1, <4>2
      <3> QED
        BY <1>1, <3>1, <3>3 DEF Settled
    <2> QED
      BY <1>3, <2>1, <2>2, <2>3, <2>4 DEF FrameworkInv, Chained, Settled
  <1> QED
    BY <1>2, <1>3 DEF Chained

(* A new request joins the end of the chain. *)
LEMMA SerializeChained ==
  ASSUME FrameworkInv, NEW r \in Requests, pc[r] = "new", Serialize(r),
         pc' = [pc EXCEPT ![r] = "waiting"], lang' = lang
  PROVE  /\ Chained' /\ QueueArrived'
         /\ after' \in [Requests -> Requests \cup {None}]
         /\ queue' \in Requests \cup {None}
         /\ \A s \in Requests : after'[s] # s
  <1>1. /\ pc'[r] = "waiting" /\ \A s \in Requests : s # r => pc'[s] = pc[s]
        /\ queue \in Requests \cup {None} /\ queue # r
        /\ after \in [Requests -> Requests \cup {None}]
        /\ \A s \in Requests : after[s] # s
        /\ r # None /\ lang \in {"typescript", "python"}
    BY FrameworkAssumption DEF FrameworkInv, FrameworkTypeOK, QueueArrived
  <1>2. CASE lang = "python"
    <2>1. UNCHANGED <<after, queue, arrivals>>
      BY <1>2 DEF Serialize
    <2> QED
      BY <1>1, <1>2, <2>1 DEF Chained, QueueArrived, FrameworkInv
  <1>3. CASE lang = "typescript"
    <2> DEFINE n == Len(arrivals)
    <2>1. /\ after' = [after EXCEPT ![r] = queue] /\ queue' = r
          /\ arrivals' = Append(arrivals, r)
      BY <1>3 DEF Serialize
    <2>2. /\ arrivals \in Seq(Requests) /\ n \in Nat
          /\ \A i \in 1 .. n : arrivals[i] \in Requests /\ arrivals[i] # r
      BY <1>3 DEF FrameworkInv, Chained
    <2>3. /\ arrivals' \in Seq(Requests) /\ Len(arrivals') = n + 1
          /\ arrivals'[n + 1] = r
          /\ \A i \in 1 .. n : arrivals'[i] = arrivals[i]
      BY <2>1, <2>2
    <2>4. /\ \A i \in 1 .. n + 1 : i \in 1 .. n \/ i = n + 1
          /\ n + 1 \in 1 .. n + 1 /\ \A i \in 1 .. n : i \in 1 .. n + 1
      BY <2>2
    <2> HIDE DEF n
    <2>5. \A i \in 1 .. n + 1 : pc'[arrivals'[i]] # "new"
      <3>1. \A i \in 1 .. n : pc[arrivals[i]] # "new"
        BY <1>3 DEF FrameworkInv, Chained, n
      <3> QED
        BY <1>1, <2>2, <2>3, <2>4, <3>1
    <2>6. \A i, j \in 1 .. n + 1 : arrivals'[i] = arrivals'[j] => i = j
      <3>1. \A i, j \in 1 .. n : arrivals[i] = arrivals[j] => i = j
        BY <1>3 DEF FrameworkInv, Chained, n
      <3> QED
        BY <2>2, <2>3, <2>4, <3>1
    <2>7. queue' = IF Len(arrivals') = 0 THEN None ELSE arrivals'[Len(arrivals')]
      BY <2>1, <2>2, <2>3
    <2>8. ASSUME NEW i \in 1 .. n + 1
          PROVE  after'[arrivals'[i]] = IF i = 1 THEN None ELSE arrivals'[i - 1]
      <3>1. CASE i \in 1 .. n
        <4>1. after'[arrivals'[i]] = after[arrivals[i]]
          BY <1>1, <2>1, <2>2, <2>3, <3>1
        <4>2. after[arrivals[i]] = IF i = 1 THEN None ELSE arrivals[i - 1]
          BY <1>3, <3>1 DEF FrameworkInv, Chained, n
        <4>3. i = 1 \/ i - 1 \in 1 .. n
          BY <2>2, <3>1
        <4> QED
          BY <2>3, <4>1, <4>2, <4>3
      <3>2. CASE i = n + 1
        <4>1. after'[arrivals'[i]] = queue
          BY <1>1, <2>1, <2>3, <3>2
        <4>2. queue = IF n = 0 THEN None ELSE arrivals[n]
          BY <1>3 DEF FrameworkInv, Chained, n
        <4>3. CASE n = 0
          BY <3>2, <4>1, <4>2, <4>3
        <4>4. CASE n # 0
          <5>1. i # 1 /\ i - 1 = n /\ n \in 1 .. n
            BY <2>2, <3>2, <4>4
          <5> QED
            BY <2>3, <4>1, <4>2, <4>4, <5>1
        <4> QED
          BY <4>3, <4>4
      <3> QED
        BY <2>4, <3>1, <3>2
    <2>9. \A s \in Requests : pc'[s] \in {"waiting", "half"} =>
            \E i \in 1 .. n + 1 : arrivals'[i] = s
      <3>1. \A s \in Requests : pc[s] \in {"waiting", "half"} =>
              \E i \in 1 .. n : arrivals[i] = s
        BY <1>3 DEF FrameworkInv, Chained, n
      <3> QED
        BY <1>1, <2>3, <2>4, <3>1
    <2>10. ASSUME NEW i \in 1 .. n + 1, NEW j \in 1 .. n + 1,
                  i < j, pc'[arrivals'[j]] # "waiting"
           PROVE  pc'[arrivals'[i]] \in {"settled", "answered", "lost"}
      <3>1. i \in 1 .. n /\ j \in 1 .. n
        <4>1. j # n + 1
          BY <1>1, <2>3, <2>10
        <4> QED
          BY <2>2, <2>4, <2>10, <4>1
      <3>2. pc[arrivals[j]] # "waiting" /\ pc'[arrivals'[i]] = pc[arrivals[i]]
        BY <1>1, <2>2, <2>3, <2>10, <3>1
      <3>3. Settled(arrivals[i])
        BY <1>3, <2>10, <3>1, <3>2 DEF FrameworkInv, Chained, n
      <3> QED
        BY <3>2, <3>3 DEF Settled
    <2>11. Chained'
      BY <2>3, <2>5, <2>6, <2>7, <2>8, <2>9, <2>10 DEF Chained, Settled
    <2> QED
      BY <1>1, <2>1, <2>11 DEF QueueArrived
  <1> QED
    BY <1>1, <1>2, <1>3

-----------------------------------------------------------------------------
(* Every step keeps the invariant.                                            *)

(* What a step of r, not answered before it, does to the answers. *)
LEMMA MoveAnswered ==
  ASSUME FrameworkInv, NEW r \in Requests, pc[r] # "answered",
         NEW p \in Phases, NEW a \in Answer,
         p \in {"new", "waiting", "half"} => a = NoAnswer,
         pc' = [pc EXCEPT ![r] = p], answer' = [answer EXCEPT ![r] = a],
         UNCHANGED <<runtime, test>>
  PROVE  /\ pc' \in [Requests -> Phases] /\ answer' \in [Requests -> Answer]
         /\ Unanswered'
  <1>1. /\ pc \in [Requests -> Phases] /\ answer \in [Requests -> Answer]
        /\ Unanswered
    BY DEF FrameworkInv, FrameworkTypeOK, DataOK
  <1>2. /\ pc'[r] = p /\ answer'[r] = a
        /\ \A s \in Requests : s # r => pc'[s] = pc[s] /\ answer'[s] = answer[s]
    BY <1>1
  <1>3. pc' \in [Requests -> Phases] /\ answer' \in [Requests -> Answer]
    BY <1>1
  <1>4. Unanswered'
    BY <1>1, <1>2 DEF Unanswered
  <1> QED
    BY <1>3, <1>4

\* The same of a step that leaves r's answer alone.
LEMMA MoveUnanswered ==
  ASSUME FrameworkInv, NEW r \in Requests, pc[r] # "answered",
         NEW p \in Phases,
         p \in {"new", "waiting", "half"} => pc[r] \in {"new", "waiting", "half"},
         pc' = [pc EXCEPT ![r] = p], UNCHANGED <<runtime, test, answer>>
  PROVE  /\ pc' \in [Requests -> Phases] /\ answer' \in [Requests -> Answer]
         /\ Unanswered'
  <1>1. answer \in [Requests -> Answer] /\ Unanswered
    BY DEF FrameworkInv, DataOK
  <1>2. answer' = [answer EXCEPT ![r] = answer[r]]
    BY <1>1
  <1>3. p \in {"new", "waiting", "half"} => answer[r] = NoAnswer
    BY <1>1 DEF Unanswered
  <1>4. answer[r] \in Answer
    BY <1>1
  <1> QED
    BY <1>2, <1>3, <1>4, MoveAnswered

LEMMA ArriveStep ==
  ASSUME FrameworkInv, NEW r \in Requests, Arrive(r)
  PROVE  FrameworkInv'
  <1>1. /\ UNCHANGED <<lang, table, up, answer, lock, app, crashes, nodeCrashes, test>>
        /\ pc[r] = "new" /\ UNCHANGED runtime
    BY DEF Arrive, runtime
  <1>2. FrameworkTypeOK /\ DataOK /\ Locked /\ HalfGreets
    BY DEF FrameworkInv
  <1>3. CASE RouteOf(r) = "refused"
    <2>1. pc' = [pc EXCEPT ![r] = "answered"] /\ UNCHANGED <<after, queue, arrivals>>
      BY <1>3 DEF Arrive
    <2>2. Chained' /\ QueueArrived'
      BY <1>1, <2>1, MoveChained
    <2>3. /\ pc' \in [Requests -> Phases] /\ answer' \in [Requests -> Answer]
          /\ Unanswered'
      BY <1>1, <2>1, MoveUnanswered DEF Phases
    <2>4. FrameworkTypeOK' /\ DataOK'
      BY <1>1, <1>2, <2>1, <2>3 DEF FrameworkTypeOK, DataOK
    <2>5. \A s \in Requests : pc'[s] = "half" <=> pc[s] = "half"
      BY <1>1, <1>2, <2>1 DEF FrameworkTypeOK
    <2>6. Locked' /\ HalfGreets'
      BY <1>1, <1>2, <2>5 DEF Locked, HalfGreets
    <2> QED
      BY <2>2, <2>3, <2>4, <2>6 DEF FrameworkInv
  <1>4. CASE RouteOf(r) # "refused"
    <2>1. pc' = [pc EXCEPT ![r] = "waiting"] /\ Serialize(r)
      BY <1>4 DEF Arrive
    <2>2. /\ Chained' /\ QueueArrived'
          /\ after' \in [Requests -> Requests \cup {None}]
          /\ queue' \in Requests \cup {None}
          /\ \A s \in Requests : after'[s] # s
      BY <1>1, <2>1, SerializeChained
    <2>3. /\ pc' \in [Requests -> Phases] /\ answer' \in [Requests -> Answer]
          /\ Unanswered'
      BY <1>1, <2>1, MoveUnanswered DEF Phases
    <2>4. FrameworkTypeOK' /\ DataOK'
      BY <1>1, <1>2, <2>2, <2>3 DEF FrameworkTypeOK, DataOK
    <2>5. \A s \in Requests : pc'[s] = "half" <=> pc[s] = "half"
      BY <1>1, <1>2, <2>1 DEF FrameworkTypeOK
    <2>6. Locked' /\ HalfGreets'
      BY <1>1, <1>2, <2>5 DEF Locked, HalfGreets
    <2> QED
      BY <2>2, <2>3, <2>4, <2>6 DEF FrameworkInv
  <1> QED
    BY <1>3, <1>4

LEMMA RunAtOnceStep ==
  ASSUME FrameworkInv, NEW r \in Requests, RunAtOnce(r)
  PROVE  FrameworkInv'
  <1> DEFINE a == AnswerTo(table, Request[r], app)
  <1>1. /\ UNCHANGED <<lang, table, up, after, queue, lock, app, arrivals, crashes, nodeCrashes, test>>
        /\ pc[r] = "waiting" /\ MayRun(r) /\ UNCHANGED runtime
        /\ pc' = [pc EXCEPT ![r] = "settled"] /\ answer' = [answer EXCEPT ![r] = a]
    BY DEF RunAtOnce, runtime
  <1>2. FrameworkTypeOK /\ DataOK /\ Locked /\ HalfGreets
    BY DEF FrameworkInv
  <1>3. a \in Answer
    BY <1>2, AnswerFits DEF DataOK, RouteOf
  <1> HIDE DEF a
  <1>4. Chained' /\ QueueArrived'
    BY <1>1, MoveChained
  <1>5. /\ pc' \in [Requests -> Phases] /\ answer' \in [Requests -> Answer]
        /\ Unanswered'
    BY <1>1, <1>3, MoveAnswered DEF Phases
  <1>6. FrameworkTypeOK' /\ DataOK'
    BY <1>1, <1>2, <1>5 DEF FrameworkTypeOK, DataOK
  <1>7. \A s \in Requests : pc'[s] = "half" <=> pc[s] = "half"
    BY <1>1, <1>2 DEF FrameworkTypeOK
  <1>8. Locked' /\ HalfGreets'
    BY <1>1, <1>2, <1>7 DEF Locked, HalfGreets
  <1> QED
    BY <1>4, <1>5, <1>6, <1>8 DEF FrameworkInv

LEMMA BeginStep ==
  ASSUME FrameworkInv, NEW r \in Requests, Begin(r)
  PROVE  FrameworkInv'
  <1>1. /\ UNCHANGED <<lang, table, up, answer, after, queue, arrivals, crashes, nodeCrashes, test>>
        /\ pc[r] = "waiting" /\ MayRun(r) /\ UNCHANGED runtime
        /\ Greets(table, Request[r]) /\ pc' = [pc EXCEPT ![r] = "half"]
        /\ app' = Count(app, RouteOf(r)) /\ lock' = IF lang = "python" THEN r ELSE lock
    BY DEF Begin, runtime
  <1>2. FrameworkTypeOK /\ DataOK /\ Locked /\ HalfGreets
    BY DEF FrameworkInv
  <1>3. app' \in App
    BY <1>1, <1>2, CountIsApp DEF DataOK, Greets, RouteOf
  <1>4. Chained' /\ QueueArrived'
    BY <1>1, MoveChained
  <1>5. /\ pc' \in [Requests -> Phases] /\ answer' \in [Requests -> Answer]
        /\ Unanswered'
    BY <1>1, MoveUnanswered DEF Phases
  <1>6. FrameworkTypeOK' /\ DataOK'
    BY <1>1, <1>2, <1>3, <1>5 DEF FrameworkTypeOK, DataOK
  <1>7. \A s \in Requests : pc'[s] = "half" <=> s = r
    BY <1>1, <1>2, TurnAlone DEF FrameworkTypeOK
  <1>8. Locked' /\ HalfGreets'
    BY <1>1, <1>7 DEF Locked, HalfGreets
  <1> QED
    BY <1>4, <1>5, <1>6, <1>8 DEF FrameworkInv

LEMMA FinishStep ==
  ASSUME FrameworkInv, NEW r \in Requests, Finish(r)
  PROVE  FrameworkInv'
  <1> DEFINE a == AnswerTo(table, Request[r], app')
  <1>1. /\ UNCHANGED <<lang, table, up, after, queue, arrivals, crashes, nodeCrashes, test>>
        /\ pc[r] = "half" /\ UNCHANGED runtime
        /\ pc' = [pc EXCEPT ![r] = "settled"] /\ answer' = [answer EXCEPT ![r] = a]
        /\ app' = Remember(app, RouteOf(r), r) /\ lock' = None
    BY DEF Finish, runtime
  <1>2. FrameworkTypeOK /\ DataOK /\ Locked /\ HalfGreets
    BY DEF FrameworkInv
  <1>3. app' \in App
    <2>1. RouteOf(r) \in {"hello", "goodbye"}
      BY <1>1, <1>2 DEF HalfGreets, Greets, RouteOf
    <2> QED
      BY <1>1, <1>2, <2>1, RememberIsApp DEF DataOK
  <1>4. a \in Answer
    BY <1>3, AnswerFits DEF RouteOf
  <1> HIDE DEF a
  <1>5. Chained' /\ QueueArrived'
    BY <1>1, MoveChained
  <1>6. /\ pc' \in [Requests -> Phases] /\ answer' \in [Requests -> Answer]
        /\ Unanswered'
    BY <1>1, <1>4, MoveAnswered DEF Phases
  <1>7. FrameworkTypeOK' /\ DataOK'
    BY <1>1, <1>2, <1>3, <1>6 DEF FrameworkTypeOK, DataOK
  <1>8. \A s \in Requests : pc'[s] # "half"
    BY <1>1, <1>2, OnlyHalf DEF FrameworkTypeOK
  <1>9. Locked' /\ HalfGreets'
    BY <1>1, <1>8, FrameworkAssumption DEF Locked, HalfGreets
  <1> QED
    BY <1>5, <1>6, <1>7, <1>9 DEF FrameworkInv

\* Throw, Respond and LookupThrows: nothing but the phase of r, and whether a rejection is unhandled.
LEMMA EndStep ==
  ASSUME FrameworkInv, NEW r \in Requests, Throw(r) \/ Respond(r) \/ LookupThrows(r)
  PROVE  FrameworkInv'
  <1>1. PICK p \in {"lost", "answered"} :
          /\ pc' = [pc EXCEPT ![r] = p]
          /\ pc[r] \in {"new", "waiting", "settled"} /\ (pc[r] = "waiting" => MayRun(r))
          /\ up' \in {up, "doomed"}
          /\ UNCHANGED <<lang, table, answer, after, queue, lock, app, arrivals,
                         crashes, nodeCrashes, test>>
    BY DEF Throw, Respond, LookupThrows, runtime
  <1>2. UNCHANGED runtime
    BY <1>1 DEF runtime
  <1>3. FrameworkTypeOK /\ DataOK /\ Locked /\ HalfGreets
    BY DEF FrameworkInv
  <1>4. Chained' /\ QueueArrived'
    BY <1>1, MoveChained
  <1>5. /\ pc' \in [Requests -> Phases] /\ answer' \in [Requests -> Answer]
        /\ Unanswered'
    <2>1. p \in Phases /\ p \notin {"new", "waiting", "half"} /\ pc[r] # "answered"
      BY <1>1 DEF Phases
    <2> QED
      BY <1>1, <1>2, <2>1, MoveUnanswered
  <1>6. FrameworkTypeOK' /\ DataOK'
    BY <1>1, <1>3, <1>5 DEF FrameworkTypeOK, DataOK
  <1>7. \A s \in Requests : pc'[s] = "half" <=> pc[s] = "half"
    BY <1>1, <1>3 DEF FrameworkTypeOK
  <1>8. Locked' /\ HalfGreets'
    BY <1>1, <1>3, <1>7 DEF Locked, HalfGreets
  <1> QED
    BY <1>4, <1>5, <1>6, <1>8 DEF FrameworkInv

LEMMA DiesStep ==
  ASSUME FrameworkInv, Dies, nodeCrashes' \in 0 .. MaxNodeCrashes
  PROVE  FrameworkInv'
  <1>1. /\ UNCHANGED <<lang, table, answer, test>> /\ UNCHANGED runtime
        /\ up' = "down" /\ app' = Fresh /\ arrivals' = <<>>
        /\ queue' = None /\ lock' = None /\ crashes' = crashes + 1
        /\ after' = [r \in Requests |-> None]
    BY DEF Dies, runtime
  <1>2. /\ pc' \in [Requests -> Phases]
        /\ \A r \in Requests :
             pc'[r] = IF pc[r] \in {"waiting", "half", "settled"} THEN "lost" ELSE pc[r]
    BY DEF Dies, FrameworkInv, FrameworkTypeOK, Phases
  <1>3. FrameworkTypeOK' /\ DataOK'
    <2>1. FrameworkTypeOK /\ DataOK
      BY DEF FrameworkInv
    <2> QED
      BY <1>1, <1>2, <2>1, FreshIsApp, FrameworkAssumption DEF FrameworkTypeOK, DataOK
  <1>4. QueueArrived'
    BY <1>1 DEF QueueArrived
  <1>5. \A r \in Requests : pc'[r] \notin {"waiting", "half"}
    BY <1>2
  <1>6. Chained'
    <2>1. arrivals' \in Seq(Requests) /\ Len(arrivals') = 0 /\ 1 .. 0 = {}
      BY <1>1
    <2> QED
      BY <1>1, <1>5, <2>1 DEF Chained
  <1>7. Locked' /\ HalfGreets'
    BY <1>1, <1>5, FrameworkAssumption DEF Locked, HalfGreets
  <1>8. Unanswered'
    BY <1>1, <1>2 DEF FrameworkInv, Unanswered, RouteOf
  <1> QED
    BY <1>3, <1>4, <1>6, <1>7, <1>8 DEF FrameworkInv

\* Restart leaves everything but `up' alone, run-test everything but `test'.
LEMMA OutsideStep ==
  ASSUME FrameworkInv, Restart \/ SendInstruction \/ PollResult
  PROVE  FrameworkInv'
  <1>1. /\ UNCHANGED <<lang, table, pc, answer, after, queue, lock, app, arrivals,
                       crashes, nodeCrashes>>
        /\ up' \in {"up", "doomed", "down"}
    BY DEF Restart, SendInstruction, PollResult, serverVars, runtime, FrameworkInv, FrameworkTypeOK
  <1>2. test' \in TestPhases
    BY DEF Restart, SendInstruction, PollResult, FrameworkInv, FrameworkTypeOK, TestPhases
  <1>3. FrameworkTypeOK' /\ DataOK'
    BY <1>1, <1>2 DEF FrameworkInv, FrameworkTypeOK, DataOK
  <1>4. QueueArrived' /\ Chained'
    BY <1>1 DEF FrameworkInv, QueueArrived, Chained, Settled
  <1>5. Locked' /\ HalfGreets' /\ Unanswered'
    BY <1>1 DEF FrameworkInv, Locked, HalfGreets, Unanswered, RouteOf
  <1> QED
    BY <1>2, <1>3, <1>4, <1>5 DEF FrameworkInv

LEMMA FrameworkStarts == FrameworkInit => FrameworkInv
  <1> SUFFICES ASSUME FrameworkInit PROVE FrameworkInv
    OBVIOUS
  <1>1. FrameworkTypeOK
    BY FrameworkAssumption DEF FrameworkInit, FrameworkTypeOK, Phases, TestPhases
  <1>2. DataOK
    BY FreshIsApp DEF FrameworkInit, DataOK
  <1>3. QueueArrived /\ Locked /\ HalfGreets /\ Unanswered
    BY FrameworkAssumption
       DEF FrameworkInit, QueueArrived, Locked, HalfGreets, Unanswered
  <1>5. Chained
    <2>1. arrivals \in Seq(Requests) /\ Len(arrivals) = 0 /\ 1 .. 0 = {}
      BY DEF FrameworkInit
    <2> QED
      BY <2>1 DEF FrameworkInit, Chained
  <1> QED
    BY <1>1, <1>2, <1>3, <1>5 DEF FrameworkInv

LEMMA FrameworkStep ==
  ASSUME FrameworkInv, [FrameworkNext]_frameworkVars
  PROVE  FrameworkInv'
  <1>1. ASSUME NEW r \in Requests, Arrive(r) \/ LookupThrows(r) \/ Run(r) PROVE FrameworkInv'
    BY <1>1, ArriveStep, RunAtOnceStep, BeginStep, FinishStep, EndStep DEF Run
  <1>2. CASE UnhandledRejection \/ NodeDies
    <2>1. nodeCrashes' \in 0 .. MaxNodeCrashes
      BY <1>2, FrameworkAssumption
         DEF UnhandledRejection, NodeDies, FrameworkInv, FrameworkTypeOK
    <2> QED
      BY <1>2, <2>1, DiesStep DEF UnhandledRejection, NodeDies
  <1>3. CASE Restart \/ SendInstruction \/ PollResult
    BY <1>3, OutsideStep
  <1>4. CASE UNCHANGED frameworkVars
    <2>1. UNCHANGED <<lang, table, up, pc, answer, after, queue, lock, app, arrivals,
                      crashes, nodeCrashes, test>>
      BY <1>4 DEF frameworkVars, serverVars, runtime
    <2> QED
      BY <2>1 DEF FrameworkInv, FrameworkTypeOK, DataOK, QueueArrived, Chained, Settled,
                  Locked, HalfGreets, Unanswered, RouteOf
  <1> QED
    BY <1>1, <1>2, <1>3, <1>4 DEF FrameworkNext

LEMMA FrameworkAlways == FrameworkSpec => []FrameworkInv
  BY FrameworkStarts, FrameworkStep, PTL DEF FrameworkSpec

(* Every variable of the two servers keeps its type and no request waits for  *)
(* itself, for any requests and any handler tables.                           *)
THEOREM FrameworkTypes == FrameworkSpec => []FrameworkTypeOK
  <1>1. FrameworkInv => FrameworkTypeOK
    BY DEF FrameworkInv
  <1> QED
    BY <1>1, FrameworkAlways, PTL

(* server.ts runs requests in the order serialize() was called in, also after *)
(* rejections, however many requests are queued.                              *)
THEOREM RunsInOrder == FrameworkSpec => []InOrder
  <1>1. FrameworkInv => InOrder
    <2> SUFFICES ASSUME FrameworkInv, lang = "typescript" PROVE InOrder
      BY DEF InOrder
    <2>1. arrivals \in Seq(Requests)
      BY DEF FrameworkInv, Chained
    <2>2. DOMAIN arrivals = 1 .. Len(arrivals)
      BY <2>1
    <2> QED
      BY <2>2 DEF FrameworkInv, Chained, InOrder
  <1> QED
    BY <1>1, FrameworkAlways, PTL

-----------------------------------------------------------------------------
(* The servers implement the sequential one.                                  *)

(* Committed, as an operator on phases, table and state: with nobody half-way  *)
(* it is the state, with r half-way it is the state without r's count.         *)
CommittedOf(phase, tab, s) ==
  IF \E r \in Requests : phase[r] = "half"
  THEN Uncount(s, Route(tab, Request[CHOOSE r \in Requests : phase[r] = "half"])) ELSE s

LEMMA CommittedIs ==
  /\ Committed = CommittedOf(pc, table, app)
  /\ Committed' = CommittedOf(pc', table', app')
  BY DEF Committed, CommittedOf, RouteOf

LEMMA NobodyHalf ==
  ASSUME NEW phase, NEW tab, NEW s, \A r \in Requests : phase[r] # "half"
  PROVE  CommittedOf(phase, tab, s) = s
  BY DEF CommittedOf

LEMMA OneHalf ==
  ASSUME NEW phase, NEW tab, NEW s, NEW r \in Requests,
         \A q \in Requests : phase[q] = "half" <=> q = r
  PROVE  CommittedOf(phase, tab, s) = Uncount(s, Route(tab, Request[r]))
  <1>1. (CHOOSE q \in Requests : phase[q] = "half") = r
    OBVIOUS
  <1> QED
    BY <1>1 DEF CommittedOf

(* A step that neither starts nor ends anybody's half-way point, and leaves    *)
(* the handlers' state and the answers alone, is a stutter of the sequential   *)
(* server.                                                                    *)
LEMMA Stutters ==
  ASSUME FrameworkInv, UNCHANGED <<table, app, answer>>,
         \A s \in Requests : pc'[s] = "half" <=> pc[s] = "half"
  PROVE  UNCHANGED <<table, Committed, answer>>
  <1>1. CASE \A s \in Requests : pc[s] # "half"
    BY <1>1, CommittedIs, NobodyHalf
  <1>2. CASE \E s \in Requests : pc[s] = "half"
    <2>1. PICK r \in Requests : pc[r] = "half"
      BY <1>2
    <2>2. \A s \in Requests : (pc[s] = "half" <=> s = r) /\ (pc'[s] = "half" <=> s = r)
      BY <2>1, OnlyHalf
    <2> QED
      BY <2>2, CommittedIs, OneHalf
  <1> QED
    BY <1>1, <1>2

(* The sequential server's copies of the handlers' operators. *)
LEMMA SameHandlers ==
  /\ Sequential!Fresh = Fresh /\ Sequential!NoAnswer = NoAnswer
  /\ \A s, h : Sequential!Count(s, h) = Count(s, h)
  /\ \A s, h, r : Sequential!Remember(s, h, r) = Remember(s, h, r)
  /\ \A t, q : /\ Sequential!Route(t, q) = Route(t, q)
              /\ Sequential!Greets(t, q) = Greets(t, q)
  /\ \A t, q, s : Sequential!AnswerTo(t, q, s) = AnswerTo(t, q, s)
  <1>1. Sequential!Fresh = Fresh
    BY DEF Sequential!Fresh, Fresh
  <1>2. Sequential!NoAnswer = NoAnswer
    BY <1>1 DEF Sequential!NoAnswer, NoAnswer
  <1>3. \A s, h : Sequential!Count(s, h) = Count(s, h)
    BY DEF Sequential!Count, Count
  <1>4. \A s, h, r : Sequential!Remember(s, h, r) = Remember(s, h, r)
    BY DEF Sequential!Remember, Remember
  <1>5. \A t, o : Sequential!Lookup(t, o) = Lookup(t, o)
    BY DEF Sequential!Lookup, Lookup, Sequential!AnyCommand, AnyCommand
  <1>6. \A t, q : Sequential!Route(t, q) = Route(t, q)
    BY <1>5 DEF Sequential!Route, Route
  <1>7. \A t, q : Sequential!Greets(t, q) = Greets(t, q)
    BY <1>6 DEF Sequential!Greets, Greets
  <1>8. /\ \A n : Sequential!Result(n) = Result(n)
        /\ \A s : Sequential!Snapshot(s) = Snapshot(s)
    BY <1>2 DEF Sequential!Result, Result, Sequential!Snapshot, Snapshot
  <1>9. \A t, q, s : Sequential!AnswerTo(t, q, s) = AnswerTo(t, q, s)
    BY <1>6, <1>8 DEF Sequential!AnswerTo, AnswerTo
  <1> QED
    BY <1>1, <1>2, <1>3, <1>4, <1>6, <1>7, <1>9

\* A request without an answer may be served.
LEMMA NotGiven ==
  ASSUME FrameworkInv, NEW r \in Requests, pc[r] \in {"waiting", "half"}
  PROVE  ~answer[r].given
  BY DEF FrameworkInv, Unanswered, NoAnswer

LEMMA RunAtOnceServes ==
  ASSUME FrameworkInv, NEW r \in Requests, RunAtOnce(r)
  PROVE  Sequential!Serve(r)
  <1>1. /\ UNCHANGED <<table, app>> /\ pc[r] = "waiting" /\ MayRun(r)
        /\ pc' = [pc EXCEPT ![r] = "settled"] /\ ~Greets(table, Request[r])
        /\ answer' = [answer EXCEPT ![r] = AnswerTo(table, Request[r], app)]
    BY DEF RunAtOnce, runtime
  <1>2. \A s \in Requests : pc[s] # "half" /\ pc'[s] # "half"
    BY <1>1, TurnAlone DEF FrameworkInv, FrameworkTypeOK
  <1>3. Committed = app /\ Committed' = app
    BY <1>1, <1>2, CommittedIs, NobodyHalf
  <1>4. answer' = [answer EXCEPT ![r] = AnswerTo(table, Request[r], Committed')]
    BY <1>1, <1>3
  <1>5. ~Sequential!Greets(table, Request[r])
    BY <1>1, SameHandlers
  <1>6. Sequential!AnswerTo(table, Request[r], Committed')
          = AnswerTo(table, Request[r], Committed')
    BY SameHandlers
  <1>7. ~answer[r].given
    BY <1>1, NotGiven
  <1> QED
    BY <1>1, <1>3, <1>4, <1>5, <1>6, <1>7 DEF Sequential!Serve

LEMMA FinishServes ==
  ASSUME FrameworkInv, NEW r \in Requests, Finish(r)
  PROVE  Sequential!Serve(r)
  <1> DEFINE h == Route(table, Request[r])
  <1>1. /\ table' = table /\ pc[r] = "half"
        /\ pc' = [pc EXCEPT ![r] = "settled"]
        /\ answer' = [answer EXCEPT ![r] = AnswerTo(table, Request[r], app')]
        /\ app' = Remember(app, h, r)
    BY DEF Finish, runtime, RouteOf
  <1>2. Greets(table, Request[r]) /\ h \in {"hello", "goodbye"} /\ app \in App
    BY <1>1 DEF FrameworkInv, HalfGreets, DataOK, Greets
  <1>3. /\ \A s \in Requests : pc[s] = "half" <=> s = r
        /\ \A s \in Requests : pc'[s] # "half"
    BY <1>1, OnlyHalf DEF FrameworkInv, FrameworkTypeOK
  <1> HIDE DEF h
  <1>4. Committed = Uncount(app, h) /\ Committed' = app'
    BY <1>3, CommittedIs, NobodyHalf, OneHalf DEF h
  <1>5. Committed' = Remember(Count(Committed, h), h, r)
    BY <1>1, <1>2, <1>4, CountUncount
  <1>6. answer' = [answer EXCEPT ![r] = AnswerTo(table, Request[r], Committed')]
    BY <1>1, <1>4
  <1> QED
    BY <1>1, <1>2, <1>5, <1>6, NotGiven, SameHandlers DEF Sequential!Serve, h

\* Counting is not yet visible.
LEMMA BeginStutters ==
  ASSUME FrameworkInv, NEW r \in Requests, Begin(r)
  PROVE  UNCHANGED <<table, Committed, answer>>
  <1> DEFINE h == Route(table, Request[r])
  <1>1. /\ UNCHANGED <<table, answer>> /\ pc[r] = "waiting" /\ MayRun(r)
        /\ pc' = [pc EXCEPT ![r] = "half"] /\ app' = Count(app, h)
        /\ h \in {"hello", "goodbye"} /\ app \in App
    BY DEF Begin, runtime, RouteOf, Greets, FrameworkInv, DataOK
  <1>2. /\ \A s \in Requests : pc[s] # "half"
        /\ \A s \in Requests : pc'[s] = "half" <=> s = r
    BY <1>1, TurnAlone DEF FrameworkInv, FrameworkTypeOK
  <1> HIDE DEF h
  <1>3. Committed = app
    BY <1>2, CommittedIs, NobodyHalf
  <1>4. Committed' = Uncount(app', h)
    BY <1>1, <1>2, CommittedIs, OneHalf DEF h
  <1> QED
    BY <1>1, <1>3, <1>4, CountIsApp

LEMMA DiesRestarts ==
  ASSUME Dies
  PROVE  Sequential!Restart
  <1>1. /\ UNCHANGED <<table, answer>> /\ app' = Fresh
        /\ \A r \in Requests : pc'[r] # "half"
    BY DEF Dies, runtime
  <1>2. Committed' = Fresh
    BY <1>1, CommittedIs, NobodyHalf
  <1> QED
    BY <1>1, <1>2, SameHandlers DEF Sequential!Restart

LEMMA FrameworkStepIsSequential ==
  ASSUME FrameworkInv, [FrameworkNext]_frameworkVars
  PROVE  [Sequential!Next]_<<table, Committed, answer>>
  <1>1. ASSUME NEW r \in Requests, Arrive(r) \/ LookupThrows(r) \/ Throw(r) \/ Respond(r)
        PROVE  UNCHANGED <<table, Committed, answer>>
    <2>1. /\ UNCHANGED <<table, app, answer>>
          /\ pc[r] # "half"
          /\ \E p \in {"waiting", "answered", "lost"} : pc' = [pc EXCEPT ![r] = p]
      BY <1>1 DEF Arrive, LookupThrows, Throw, Respond, runtime
    <2>2. \A s \in Requests : pc'[s] = "half" <=> pc[s] = "half"
      BY <2>1 DEF FrameworkInv, FrameworkTypeOK
    <2> QED
      BY <2>1, <2>2, Stutters
  <1>2. ASSUME NEW r \in Requests, RunAtOnce(r) \/ Finish(r)
        PROVE  Sequential!Next
    BY <1>2, RunAtOnceServes, FinishServes DEF Sequential!Next
  <1>3. CASE UnhandledRejection \/ NodeDies
    BY <1>3, DiesRestarts DEF UnhandledRejection, NodeDies, Sequential!Next
  <1>4. CASE Restart \/ SendInstruction \/ PollResult \/ UNCHANGED frameworkVars
    <2>1. UNCHANGED <<table, app, answer, pc>>
      BY <1>4 DEF Restart, SendInstruction, PollResult, frameworkVars, serverVars, runtime
    <2> QED
      BY <2>1, Stutters
  <1> QED
    BY <1>1, <1>2, <1>3, <1>4, BeginStutters DEF FrameworkNext, Run

(* Concurrent requests behind the promise chain or the lock, throwing handlers *)
(* and restarts implement the sequential server of the extension contract, for *)
(* any requests, any handler tables and any number of crashes.                 *)
THEOREM FrameworkIsSequential == FrameworkSpec => ImplementsSequential
  <1>1. FrameworkInit => Sequential!Init
    <2> SUFFICES ASSUME FrameworkInit PROVE Sequential!Init
      OBVIOUS
    <2>1. \A r \in Requests : pc[r] # "half"
      BY DEF FrameworkInit
    <2>2. Committed = app
      BY <2>1, CommittedIs, NobodyHalf
    <2> QED
      BY <2>2, SameHandlers DEF FrameworkInit, Sequential!Init
  <1> QED
    BY <1>1, FrameworkStepIsSequential, FrameworkAlways, PTL
       DEF FrameworkSpec, ImplementsSequential, Sequential!Spec

=============================================================================
