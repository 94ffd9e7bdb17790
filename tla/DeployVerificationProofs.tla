---------------------- MODULE DeployVerificationProofs ----------------------
(* What verify-deploy's report means although the registry and extension.env   *)
(* change between its reads, for any operators, command lines, failing queries *)
(* and set-up steps in between.                                               *)
EXTENDS DeployVerification, ExtensionSetupProofs

RunFields == {"pc", "cmd", "todo", "env", "file", "counter", "report", "quiet", "answered"}
RegisterPhases == {"R1", "R2", "R3", "R4", "R7"}
Queries == {"R2", "R3", "R4"}

\* A check has a result; it has this one.
Has(c) == c \in DOMAIN ver.report
Says(c, status) == Has(c) /\ ver.report[c] = status

\* The verdicts of V2 and, with --config, of E1.
CheckTeeVersionKey(env) ==
  Verdict(env.EXTENSION_OWNER_KEY # "" \/ env.DEPLOYMENT_PRIVATE_KEY # "" \/ LocalMode(env), "WARN")
CheckSender(cfg) == IF cfg.exists THEN Verdict(cfg.sender > 0, "FAIL") ELSE "SKIP"

\* A running verify-deploy is a record, and what it read exists on chain.
RunTyped ==
  /\ DOMAIN ver = RunFields /\ ver.cmd \in Invocations /\ ver.todo \in Seq(Steps)
  /\ ver.file \in Config /\ ver.file.id <= Len(extensions)
  /\ ver.counter \in 0 .. Len(extensions) + 1

(* The groups still to do are the last ones of the command line's, and the     *)
(* running one is the first of them.                                          *)
Positioned ==
  LET s == StepsOf(ver.cmd)  n == Len(ver.todo) IN
  /\ n <= Len(s) /\ \A i \in 1 .. n : ver.todo[i] = s[Len(s) - n + i]
  /\ n = 0 => ver.pc = "exit"
  /\ n # 0 => ver.pc = ver.todo[1] \/ (ver.todo[1] = "register" /\ ver.pc \in RegisterPhases)

\* No registration result before its query.
NotYet ==
  /\ ver.pc \in {"deploy", "register"} => \A c \in Queries \cup {"R7"} : ~Has(c)
  /\ ver.pc \in RegisterPhases => ~Has("R7")

\* From R2 on the file names an extension, which R1's counter is above.
CounterFits ==
  ver.pc \in Queries \cup {"R7"} =>
    ver.file.id \in ExtensionIds /\ (ver.counter = 0 \/ ver.file.id < ver.counter)

(* A result of R2, R3 and R4 that was good is still true: extensions keep their *)
(* sender and what they were given.                                           *)
StillTrue ==
  /\ \A c \in Queries : Has(c) => ver.report[c] \in {"PASS", "FAIL"}
  /\ \A c \in Queries : Says(c, "PASS") => ver.file.id \in ExtensionIds
  /\ Says("R2", "PASS") => extensions[ver.file.id].sender = ver.file.sender
  /\ Says("R3", "PASS") => ver.cmd.key \in extensions[ver.file.id].machineOwners
  /\ Says("R4", "PASS") => extensions[ver.file.id].evmType

\* ... and a unique extension is the first one, because later ids are greater.
FirstIfUnique ==
  Says("R2", "PASS") /\ Says("R7", "PASS") /\ ver.answered =>
    IsFirst(ver.file.id, ver.file.sender)

\* Which results a complete report has after which groups: the keys,
KeyResults ==
  ver.cmd.step = "all" =>
    /\ ver.env = Loaded(ver.cmd.process, ver.cmd.dotenv)
    /\ Len(ver.todo) <= 5 => Says("D5key", CheckDeployerKeySource(ver.env))
    /\ Len(ver.todo) <= 2 => Says("V2", CheckTeeVersionKey(ver.env))

\* and the registration, as long as extension.env is as it was at the start.
FileResults ==
  ver.cmd.step = "all" /\ ver.cmd.path /\ ver.quiet =>
    /\ ver.pc \in RegisterPhases => ver.file = config
    /\ ver.pc \in {"R3", "R4", "R7"} /\ config.sender > 0 => Has("R2")
    /\ ver.pc \in {"R4", "R7"} => Has("R3")
    /\ ver.pc = "R7" => Has("R4")
    /\ Len(ver.todo) <= 4 /\ config.id > 0 /\ config.sender > 0 =>
         ver.file = config /\ \A c \in Queries : Has(c)
    /\ Len(ver.todo) <= 3 => Says("S2", Verdict(config.id > 0, "FAIL"))
    /\ Len(ver.todo) = 0 =>
         Says("E1", CheckSender(config))

RunInv ==
  /\ RunTyped /\ Positioned /\ NotYet /\ CounterFits /\ StillTrue /\ FirstIfUnique
  /\ KeyResults /\ FileResults

(* The inductive invariant. *)
VerifyInv ==
  /\ SetupInv /\ (config.id # 0 => config.exists)
  /\ ver.pc # "idle" => RunInv

-----------------------------------------------------------------------------
(* Reports.                                                                   *)

LEMMA WithFacts ==
  ASSUME NEW f, NEW g
  PROVE  /\ DOMAIN With(f, g) = DOMAIN f \cup DOMAIN g
         /\ \A c \in DOMAIN f : With(f, g)[c] = f[c]
         /\ \A c \in DOMAIN g : c \notin DOMAIN f => With(f, g)[c] = g[c]
  BY DEF With

LEMMA GroupedFacts ==
  ASSUME DOMAIN ver = RunFields, NEW results
  PROVE  LET g == Grouped(results) IN
         /\ DOMAIN g = RunFields
         /\ g.cmd = ver.cmd /\ g.env = ver.env /\ g.file = ver.file /\ g.counter = ver.counter
         /\ g.quiet = ver.quiet /\ g.answered = ver.answered
         /\ g.todo = Tail(ver.todo) /\ g.report = With(results, ver.report)
         /\ g.pc = IF Len(ver.todo) = 1 THEN "exit" ELSE ver.todo[2]
  BY DEF Grouped, RunFields

\* The groups of a command line.
LEMMA StepsFacts ==
  ASSUME NEW cmd \in Invocations
  PROVE  /\ StepsOf(cmd) \in Seq(Steps) /\ StepsOf(cmd) # <<>>
         /\ cmd.step = "all" => StepsOf(cmd) = AllSteps
         /\ cmd.step # "all" => StepsOf(cmd) = <<cmd.step>> /\ cmd.step \in Steps
  <1>1. cmd.step \in Steps \cup {"all"}
    BY InvocationsAssumption
  <1>2. CASE cmd.step = "all"
    <2>1. AllSteps \in Seq(Steps) /\ AllSteps # <<>>
      BY DEF AllSteps, Steps
    <2> QED
      BY <1>2, <2>1 DEF StepsOf
  <1>3. CASE cmd.step # "all"
    <2>1. StepsOf(cmd) = <<cmd.step>> /\ cmd.step \in Steps
      BY <1>1, <1>3 DEF StepsOf
    <2>2. <<cmd.step>> \in Seq(Steps) /\ <<cmd.step>> # <<>>
      BY <2>1
    <2> QED
      BY <1>3, <2>1, <2>2
  <1> QED
    BY <1>2, <1>3

(* Where a complete run is, by the number of groups it has still to do. *)
LEMMA Stage ==
  ASSUME RunTyped, Positioned, ver.cmd.step = "all"
  PROVE  LET n == Len(ver.todo) IN
         /\ n \in 0 .. 6
         /\ n = 0 <=> ver.pc = "exit"
         /\ n = 1 <=> ver.pc = "test"
         /\ n = 2 <=> ver.pc = "tee-machine"
         /\ n = 3 <=> ver.pc = "tee-version"
         /\ n = 4 <=> ver.pc = "services"
         /\ n = 5 <=> ver.pc \in {"register"} \cup RegisterPhases
         /\ n = 6 <=> ver.pc = "deploy"
         /\ n > 1 => ver.todo[2] = AllSteps[8 - n]
  <1> DEFINE n == Len(ver.todo)
  <1>1. n \in Nat /\ n <= 6 /\ \A i \in 1 .. n : ver.todo[i] = AllSteps[6 - n + i]
    <2>1. StepsOf(ver.cmd) = AllSteps /\ Len(AllSteps) = 6
      BY StepsFacts DEF RunTyped, AllSteps
    <2>2. ver.todo \in Seq(Steps)
      BY DEF RunTyped
    <2>3. n \in Nat
      BY <2>2
    <2>4. n <= Len(StepsOf(ver.cmd))
          /\ \A i \in 1 .. n : ver.todo[i] = StepsOf(ver.cmd)[Len(StepsOf(ver.cmd)) - n + i]
      BY DEF Positioned
    <2> QED
      BY <2>1, <2>3, <2>4
  <1>2. n # 0 => ver.todo[1] = AllSteps[7 - n]
    <2>1. n # 0 => 1 \in 1 .. n /\ 6 - n + 1 = 7 - n
      BY <1>1
    <2> QED
      BY <1>1, <2>1
  <1>3. n > 1 => ver.todo[2] = AllSteps[8 - n]
    <2>1. n > 1 => 2 \in 1 .. n /\ 6 - n + 2 = 8 - n
      BY <1>1
    <2> QED
      BY <1>1, <2>1
  <1>4. /\ n = 0 => ver.pc = "exit"
        /\ n # 0 => ver.pc = ver.todo[1] \/ (ver.todo[1] = "register" /\ ver.pc \in RegisterPhases)
    BY DEF Positioned
  <1> HIDE DEF n
  <1>5. n \in {0, 1, 2, 3, 4, 5, 6} /\ n \in 0 .. 6
    <2>1. n \in Nat /\ n <= 6
      BY <1>1
    <2> QED
      BY <2>1
  <1>6. /\ AllSteps[7 - 1] = "test" /\ AllSteps[7 - 2] = "tee-machine"
        /\ AllSteps[7 - 3] = "tee-version" /\ AllSteps[7 - 4] = "services"
        /\ AllSteps[7 - 5] = "register" /\ AllSteps[7 - 6] = "deploy"
    BY DEF AllSteps
  <1>7. /\ n = 0 => ver.pc = "exit"
        /\ n = 1 => ver.pc = "test"
        /\ n = 2 => ver.pc = "tee-machine"
        /\ n = 3 => ver.pc = "tee-version"
        /\ n = 4 => ver.pc = "services"
        /\ n = 5 => ver.pc \in {"register"} \cup RegisterPhases
        /\ n = 6 => ver.pc = "deploy"
    BY <1>2, <1>4, <1>6
  <1>8. /\ n = 0 <=> ver.pc = "exit"
        /\ n = 1 <=> ver.pc = "test"
        /\ n = 2 <=> ver.pc = "tee-machine"
        /\ n = 3 <=> ver.pc = "tee-version"
        /\ n = 4 <=> ver.pc = "services"
        /\ n = 5 <=> ver.pc \in {"register"} \cup RegisterPhases
        /\ n = 6 <=> ver.pc = "deploy"
    BY <1>5, <1>7 DEF RegisterPhases
  <1> QED
    BY <1>3, <1>5, <1>8 DEF n

LEMMA NextGroup ==
  ASSUME RunTyped, Positioned, ver.pc \notin {"exit", "idle"},
         ver'.cmd = ver.cmd, ver'.todo = Tail(ver.todo),
         ver'.pc = IF Len(ver.todo) = 1 THEN "exit" ELSE ver.todo[2]
  PROVE  /\ Positioned' /\ ver'.todo \in Seq(Steps)
         /\ Len(ver.todo) \in Nat \ {0} /\ Len(ver'.todo) = Len(ver.todo) - 1
         /\ ver'.pc \notin {"deploy", "idle"} \cup RegisterPhases
         /\ ver'.pc = "register" => ver.pc = "deploy"
  <1> DEFINE s == StepsOf(ver.cmd)
             m == Len(s)
             n == Len(ver.todo)
  <1>1. /\ ver.todo \in Seq(Steps) /\ n \in Nat /\ n # 0
        /\ s \in Seq(Steps) /\ m \in Nat /\ n <= m
        /\ \A i \in 1 .. n : ver.todo[i] = s[m - n + i]
    <2>1. ver.todo \in Seq(Steps) /\ s \in Seq(Steps)
      BY StepsFacts DEF RunTyped
    <2>2. n \in Nat /\ m \in Nat
      BY <2>1
    <2>3. /\ n <= m /\ \A i \in 1 .. n : ver.todo[i] = s[m - n + i]
          /\ n = 0 => ver.pc = "exit"
      BY DEF Positioned
    <2> QED
      BY <2>1, <2>2, <2>3
  <1>2. /\ ver'.todo \in Seq(Steps) /\ Len(ver'.todo) = n - 1
        /\ \A i \in 1 .. n - 1 : ver'.todo[i] = ver.todo[i + 1]
    BY <1>1
  <1>3. StepsOf(ver'.cmd) = s
    OBVIOUS
  <1>4. \A i \in 1 .. n - 1 : ver'.todo[i] = s[m - (n - 1) + i]
    <2> SUFFICES ASSUME NEW i \in 1 .. n - 1 PROVE ver'.todo[i] = s[m - (n - 1) + i]
      OBVIOUS
    <2>1. i + 1 \in 1 .. n /\ m - n + (i + 1) = m - (n - 1) + i
      BY <1>1
    <2> QED
      BY <1>1, <1>2, <2>1
  <1>5. n # 1 => 2 \in 1 .. n /\ 1 \in 1 .. n - 1
    <2>1. n \in Nat /\ n # 0
      BY <1>1
    <2> HIDE DEF n
    <2> QED
      BY <2>1
  <1>6. ver'.pc = IF n = 1 THEN "exit" ELSE ver'.todo[1]
    BY <1>2, <1>5
  <1>7. Positioned'
    <2>1. n - 1 <= m /\ (n - 1 = 0 <=> n = 1)
      BY <1>1
    <2> QED
      BY <1>2, <1>3, <1>4, <1>6, <2>1 DEF Positioned
  <1>8. /\ ver'.pc \notin {"deploy", "idle"} \cup RegisterPhases
        /\ ver'.pc = "register" => ver.pc = "deploy"
    <2>1. CASE ver.cmd.step = "all"
      <3>1. n \in {1, 2, 3, 4, 5, 6} /\ (n = 6 => ver.pc = "deploy")
        BY <1>1, <2>1, Stage
      <3>2. n > 1 => ver.todo[2] = AllSteps[8 - n]
        BY <2>1, Stage
      <3>3. /\ AllSteps[8 - 2] = "test" /\ AllSteps[8 - 3] = "tee-machine"
            /\ AllSteps[8 - 4] = "tee-version" /\ AllSteps[8 - 5] = "services"
            /\ AllSteps[8 - 6] = "register"
        BY DEF AllSteps
      <3>4. /\ n = 1 => ver'.pc = "exit"
            /\ n = 2 => ver'.pc = AllSteps[8 - 2]
            /\ n = 3 => ver'.pc = AllSteps[8 - 3]
            /\ n = 4 => ver'.pc = AllSteps[8 - 4]
            /\ n = 5 => ver'.pc = AllSteps[8 - 5]
            /\ n = 6 => ver'.pc = AllSteps[8 - 6]
        <4>1. (n = 1 => ver'.pc = "exit") /\ (n # 1 => ver'.pc = ver.todo[2])
          OBVIOUS
        <4>2. 2 > 1 /\ 3 > 1 /\ 4 > 1 /\ 5 > 1 /\ 6 > 1
          OBVIOUS
        <4> HIDE DEF n
        <4> QED
          BY <3>2, <4>1, <4>2
      <3> HIDE DEF n
      <3> QED
        BY <3>1, <3>3, <3>4 DEF RegisterPhases
    <2>2. CASE ver.cmd.step # "all"
      <3>1. s = <<ver.cmd.step>>
        BY <2>2, StepsFacts DEF RunTyped
      <3>2. m = 1
        BY <3>1
      <3>3. n = 1
        BY <1>1, <3>2
      <3> QED
        BY <1>6, <3>3 DEF RegisterPhases
    <2> QED
      BY <2>1, <2>2
  <1> QED
    BY <1>1, <1>2, <1>7, <1>8

(* Results of another group leave those of the registration as they are. *)
LEMMA OtherResults ==
  ASSUME RunInv, NEW results, UNCHANGED extensions,
         ver'.cmd = ver.cmd, ver'.file = ver.file, ver'.answered = ver.answered,
         ver'.report = With(results, ver.report),
         \A c \in Queries \cup {"R7"} : c \notin DOMAIN results
  PROVE  StillTrue' /\ FirstIfUnique'
  <1>1. \A c \in Queries \cup {"R7"} :
          (Has(c)' <=> Has(c)) /\ (Has(c) => ver'.report[c] = ver.report[c])
    <2>1. /\ DOMAIN ver'.report = DOMAIN results \cup DOMAIN ver.report
          /\ \A c \in DOMAIN ver.report : c \notin DOMAIN results => ver'.report[c] = ver.report[c]
      BY DEF With
    <2> QED
      BY <2>1 DEF Has
  <1>2. \A c \in Queries \cup {"R7"} : Says(c, "PASS")' <=> Says(c, "PASS")
    BY <1>1 DEF Says
  <1>3. StillTrue /\ FirstIfUnique
    BY DEF RunInv
  <1>4. ExtensionIds' = ExtensionIds /\ IsFirst(ver.file.id, ver.file.sender)' = IsFirst(ver.file.id, ver.file.sender)
    BY DEF ExtensionIds, IsFirst, IdsOf
  <1>5. StillTrue'
    BY <1>1, <1>2, <1>3, <1>4 DEF StillTrue, Queries
  <1>6. FirstIfUnique'
    BY <1>2, <1>3, <1>4 DEF FirstIfUnique, Queries
  <1> QED
    BY <1>5, <1>6

(* A group ends with its results.  What the invariant says of a complete       *)
(* report follows from which results the group adds and what they say.         *)
LEMMA GroupEnds ==
  ASSUME RunInv, ver.pc \notin {"idle", "exit"}, NEW results, UNCHANGED <<extensions, config>>,
         DOMAIN ver' = RunFields, ver'.cmd = ver.cmd, ver'.env = ver.env,
         ver'.file = ver.file, ver'.quiet = ver.quiet,
         ver'.counter \in 0 .. Len(extensions) + 1,
         ver'.todo = Tail(ver.todo), ver'.report = With(results, ver.report),
         ver'.pc = IF Len(ver.todo) = 1 THEN "exit" ELSE ver.todo[2],
         StillTrue', FirstIfUnique',
         ver.pc = "deploy" =>
           "D5key" \in DOMAIN results /\ \A c \in Queries \cup {"R7"} : c \notin DOMAIN results,
         ver.pc = "services" => "S2" \in DOMAIN results,
         ver.pc = "tee-version" => "V2" \in DOMAIN results,
         ver.pc = "test" => "E1" \in DOMAIN results,
         "D5key" \in DOMAIN results => results["D5key"] = CheckDeployerKeySource(ver.env),
         "V2" \in DOMAIN results => results["V2"] = CheckTeeVersionKey(ver.env),
         "S2" \in DOMAIN results /\ ver.cmd.path =>
           results["S2"] = Verdict(config.id > 0, "FAIL"),
         "E1" \in DOMAIN results /\ ver.cmd.path => results["E1"] = CheckSender(config),
         ver.pc \in {"register"} \cup RegisterPhases /\ ver.cmd.step = "all"
           /\ ver.cmd.path /\ ver.quiet /\ config.id > 0 /\ config.sender > 0 =>
             ver.file = config /\ \A c \in Queries : Has(c)'
  PROVE  RunInv' /\ ver'.pc # "idle"
  <1> DEFINE n == Len(ver.todo)
             k == Len(ver'.todo)
  <1>1. RunTyped /\ Positioned /\ NotYet /\ KeyResults /\ FileResults
    BY DEF RunInv
  <1>2. /\ Positioned' /\ ver'.todo \in Seq(Steps) /\ n \in Nat \ {0} /\ k = n - 1
        /\ ver'.pc \notin {"deploy", "idle"} \cup RegisterPhases
        /\ ver'.pc = "register" => ver.pc = "deploy"
    BY <1>1, NextGroup
  <1>3. RunTyped'
    BY <1>1, <1>2 DEF RunTyped
  <1>4. \A c : /\ Has(c)' <=> c \in DOMAIN results \/ Has(c)
               /\ c \in DOMAIN results => ver'.report[c] = results[c]
               /\ Has(c) /\ c \notin DOMAIN results => ver'.report[c] = ver.report[c]
    <2>1. /\ DOMAIN ver'.report = DOMAIN results \cup DOMAIN ver.report
          /\ \A c \in DOMAIN results : ver'.report[c] = results[c]
          /\ \A c \in DOMAIN ver.report : c \notin DOMAIN results => ver'.report[c] = ver.report[c]
      BY DEF With
    <2> QED
      BY <2>1 DEF Has
  <1>5. NotYet'
    BY <1>1, <1>2, <1>4 DEF NotYet
  <1>6. CounterFits'
    BY <1>2 DEF CounterFits, Queries, RegisterPhases
  <1> HIDE DEF n, k
  <1>7. KeyResults'
    <2> SUFFICES ASSUME ver.cmd.step = "all"
                 PROVE  /\ ver.env = Loaded(ver.cmd.process, ver.cmd.dotenv)
                        /\ k <= 5 => Says("D5key", CheckDeployerKeySource(ver.env))'
                        /\ k <= 2 => Says("V2", CheckTeeVersionKey(ver.env))'
      BY DEF KeyResults, k
    <2>1. /\ ver.env = Loaded(ver.cmd.process, ver.cmd.dotenv)
          /\ n <= 5 => Says("D5key", CheckDeployerKeySource(ver.env))
          /\ n <= 2 => Says("V2", CheckTeeVersionKey(ver.env))
      BY <1>1 DEF KeyResults, n
    <2>2. (n = 6 => ver.pc = "deploy") /\ (n = 3 => ver.pc = "tee-version") /\ n <= 6
      <3>1. (n = 6 => ver.pc = "deploy") /\ (n = 3 => ver.pc = "tee-version") /\ n \in 0 .. 6
        BY <1>1, Stage DEF n
      <3> QED
        BY <3>1
    <2>3. k <= 5 => Says("D5key", CheckDeployerKeySource(ver.env))'
      <3>1. "D5key" \in DOMAIN results \/ n <= 5
        BY <1>2, <2>2
      <3> QED
        BY <1>4, <2>1, <3>1 DEF Says
    <2>4. k <= 2 => Says("V2", CheckTeeVersionKey(ver.env))'
      <3>1. k <= 2 => "V2" \in DOMAIN results \/ n <= 2
        BY <1>2, <2>2
      <3> QED
        BY <1>4, <2>1, <3>1 DEF Says
    <2> QED
      BY <2>1, <2>3, <2>4
  <1>8. FileResults'
    <2> SUFFICES ASSUME ver.cmd.step = "all", ver.cmd.path, ver.quiet
                 PROVE  /\ k <= 4 /\ config.id > 0 /\ config.sender > 0 =>
                             ver.file = config /\ \A c \in Queries : Has(c)'
                        /\ k <= 3 => Says("S2", Verdict(config.id > 0, "FAIL"))'
                        /\ k = 0 => Says("E1", CheckSender(config))'
      <3>1. ver'.pc \notin RegisterPhases /\ ver'.pc \notin {"R3", "R4", "R7"} /\ ver'.pc # "R7"
        BY <1>2 DEF RegisterPhases
      <3> QED
        BY <3>1 DEF FileResults, k
    <2>1. /\ n <= 4 /\ config.id > 0 /\ config.sender > 0 =>
               ver.file = config /\ \A c \in Queries : Has(c)
          /\ n <= 3 => Says("S2", Verdict(config.id > 0, "FAIL"))
          /\ n = 0 => Says("E1", CheckSender(config))
      BY <1>1 DEF FileResults, n
    <2>2. /\ n = 5 => ver.pc \in {"register"} \cup RegisterPhases
          /\ n = 4 => ver.pc = "services"
          /\ n = 1 => ver.pc = "test"
      BY <1>1, Stage DEF n
    <2>3. k <= 4 /\ config.id > 0 /\ config.sender > 0 =>
            ver.file = config /\ \A c \in Queries : Has(c)'
      <3>1. k <= 4 => n = 5 \/ n <= 4
        BY <1>2
      <3> QED
        BY <1>4, <2>1, <2>2, <3>1
    <2>4. k <= 3 => Says("S2", Verdict(config.id > 0, "FAIL"))'
      <3>1. k <= 3 => "S2" \in DOMAIN results \/ n <= 3
        BY <1>2, <2>2
      <3>2. k <= 3 => Has("S2")' /\ ver'.report["S2"] = Verdict(config.id > 0, "FAIL")
        BY <1>4, <2>1, <3>1 DEF Says
      <3> QED
        BY <3>2 DEF Says
    <2>5. k = 0 => Says("E1", CheckSender(config))'
      <3>1. k = 0 => "E1" \in DOMAIN results
        BY <1>2, <2>2
      <3>2. CheckSender(config)' = CheckSender(config)
        BY DEF CheckSender
      <3> QED
        BY <1>4, <3>1, <3>2 DEF Says
    <2> QED
      BY <2>3, <2>4, <2>5
  <1> QED
    BY <1>2, <1>3, <1>5, <1>6, <1>7, <1>8 DEF RunInv

(* One of the registration group's queries is over. *)
LEMMA PhaseEnds ==
  ASSUME RunInv, ver.pc \in {"register"} \cup RegisterPhases, UNCHANGED <<extensions, config>>,
         DOMAIN ver' = RunFields, ver'.cmd = ver.cmd, ver'.env = ver.env,
         ver'.quiet = ver.quiet, ver'.todo = ver.todo, ver'.pc \in RegisterPhases,
         ver'.file \in Config, ver'.file.id <= Len(extensions),
         ver'.counter \in 0 .. Len(extensions) + 1,
         \A c : c \notin {"R1"} \cup Queries =>
           (Has(c)' <=> Has(c)) /\ (Has(c) => ver'.report[c] = ver.report[c]),
         CounterFits', StillTrue',
         ver.cmd.step = "all" /\ ver.cmd.path /\ ver.quiet =>
           /\ ver'.file = config
           /\ ver'.pc \in {"R3", "R4", "R7"} /\ config.sender > 0 => Has("R2")'
           /\ ver'.pc \in {"R4", "R7"} => Has("R3")'
           /\ ver'.pc = "R7" => Has("R4")'
  PROVE  RunInv'
  <1> DEFINE n == Len(ver.todo)
  <1>1. RunTyped /\ Positioned /\ NotYet /\ KeyResults
    BY DEF RunInv
  <1>2. RunTyped'
    BY <1>1 DEF RunTyped
  <1>3. n # 0 /\ ver.todo[1] = "register"
    <2>1. ver.pc \notin {"exit"} \cup (Steps \ {"register"})
      BY DEF RegisterPhases, Steps
    <2>2. /\ n = 0 => ver.pc = "exit"
          /\ n # 0 => ver.pc = ver.todo[1] \/ (ver.todo[1] = "register" /\ ver.pc \in RegisterPhases)
      BY <1>1 DEF Positioned
    <2>3. n # 0
      BY <2>1, <2>2
    <2>4. ver.todo[1] \in Steps
      <3>1. ver.todo \in Seq(Steps)
        BY <1>1 DEF RunTyped
      <3>2. 1 \in 1 .. Len(ver.todo)
        BY <2>3, <3>1
      <3> QED
        BY <3>1, <3>2
    <2> QED
      BY <2>1, <2>2, <2>3, <2>4
  <1>4. Positioned'
    BY <1>1, <1>3 DEF Positioned
  <1>5. ~Has("R7")'
    BY <1>1 DEF NotYet, Queries
  <1>6. NotYet' /\ FirstIfUnique'
    BY <1>5 DEF NotYet, FirstIfUnique, Says, RegisterPhases
  <1>7. ver.cmd.step = "all" => n = 5
    BY <1>1, Stage
  <1> HIDE DEF n
  <1>8. KeyResults'
    <2> SUFFICES ASSUME ver.cmd.step = "all"
                 PROVE  /\ ver.env = Loaded(ver.cmd.process, ver.cmd.dotenv)
                        /\ n <= 5 => Says("D5key", CheckDeployerKeySource(ver.env))'
                        /\ n <= 2 => Says("V2", CheckTeeVersionKey(ver.env))'
      BY DEF KeyResults, n
    <2>1. /\ ver.env = Loaded(ver.cmd.process, ver.cmd.dotenv)
          /\ n <= 5 => Says("D5key", CheckDeployerKeySource(ver.env))
      BY <1>1 DEF KeyResults, n
    <2>2. n = 5
      BY <1>7
    <2>3. Says("D5key", CheckDeployerKeySource(ver.env))'
      <3>1. Says("D5key", CheckDeployerKeySource(ver.env))
        BY <2>1, <2>2
      <3> QED
        BY <3>1 DEF Says, Queries
    <2> QED
      BY <2>1, <2>2, <2>3
  <1>9. FileResults'
    <2> SUFFICES ASSUME ver.cmd.step = "all", ver.cmd.path, ver.quiet
                 PROVE  /\ n <= 4 => FALSE
                        /\ n <= 3 => FALSE
                        /\ n = 0 => FALSE
      BY DEF FileResults, n
    <2> QED
      BY <1>7
  <1> QED
    BY <1>2, <1>4, <1>6, <1>8, <1>9 DEF RunInv

(* The setting around a step of verify-deploy. *)
LEMMA RunStep ==
  ASSUME VerifyInv, KeepsSetup, faults' \in 0 .. MaxFaults, RunInv'
  PROVE  VerifyInv'
  <1>1. SetupInv'
    BY SetupUnchanged DEF VerifyInv, KeepsSetup
  <1>2. (config.id # 0 => config.exists)'
    BY DEF VerifyInv, KeepsSetup
  <1> QED
    BY <1>1, <1>2 DEF VerifyInv

LEMMA FaultsFit ==
  ASSUME SetupInv, NEW failed, Failing(failed) \/ UNCHANGED faults
  PROVE  faults' \in 0 .. MaxFaults
  <1>1. faults \in 0 .. MaxFaults /\ MaxFaults \in Nat
    BY SetupAssumption DEF SetupInv, SetupTypeOK
  <1> QED
    BY <1>1 DEF Failing

-----------------------------------------------------------------------------
(* The groups that are one step.                                              *)

LEMMA DeployResults ==
  ASSUME NEW env, NEW site, NEW failed, NEW path, NEW cfg
  PROVE  LET r == RegisterDeployChecks(env, site, failed, path, cfg) IN
         /\ "D5key" \in DOMAIN r /\ r["D5key"] = CheckDeployerKeySource(env)
         /\ \A c \in Queries \cup {"R7", "V2", "S2", "E1"} : c \notin DOMAIN r
  <1> DEFINE first == [D3 |-> Verdict(AddressNotZero(site), "FAIL"),
                       D5key |-> CheckDeployerKeySource(env),
                       D5funds |-> Verdict(KeyHasFunds(site, failed), "FAIL"),
                       D6 |-> Verdict("chainId" \notin failed, "FAIL")]
             code == IF AddressNotZero(site)
                     THEN [D1 |-> Verdict(AddressHasCode(site, failed), "FAIL")] ELSE <<>>
             format == IF path THEN CheckExtensionEnvFormat(cfg) ELSE <<>>
             rest == With(code, format)
  <1>1. RegisterDeployChecks(env, site, failed, path, cfg) = With(first, rest)
    BY DEF RegisterDeployChecks
  <1>2. DOMAIN first = {"D3", "D5key", "D5funds", "D6"} /\ first["D5key"] = CheckDeployerKeySource(env)
    OBVIOUS
  <1>3. DOMAIN code \subseteq {"D1"}
    OBVIOUS
  <1>4. DOMAIN format \subseteq {"D7", "D7sender", "D7id"}
    BY DEF CheckExtensionEnvFormat
  <1>5. DOMAIN rest = DOMAIN code \cup DOMAIN format
    BY DEF With
  <1> HIDE DEF first, rest
  <1>6. /\ DOMAIN With(first, rest) = DOMAIN first \cup DOMAIN rest
        /\ \A c \in DOMAIN first : With(first, rest)[c] = first[c]
    BY DEF With
  <1> QED
    BY <1>1, <1>2, <1>3, <1>4, <1>5, <1>6 DEF Queries

LEMMA DeployGroupStep ==
  ASSUME VerifyInv, NEW failed, DeployGroup(failed)
  PROVE  VerifyInv'
  <1> DEFINE results == RegisterDeployChecks(ver.env, ver.cmd.site, failed, ver.cmd.path, config)
  <1>1. /\ ver.pc = "deploy" /\ Failing(failed) /\ ver' = Grouped(results) /\ KeepsSetup
    BY DEF DeployGroup
  <1>2. RunInv /\ SetupInv /\ DOMAIN ver = RunFields /\ RunTyped
    BY <1>1 DEF VerifyInv, RunInv, RunTyped
  <1>3. /\ "D5key" \in DOMAIN results /\ results["D5key"] = CheckDeployerKeySource(ver.env)
        /\ \A c \in Queries \cup {"R7", "V2", "S2", "E1"} : c \notin DOMAIN results
    BY DeployResults
  <1> HIDE DEF results
  <1>4. /\ DOMAIN ver' = RunFields
        /\ ver'.cmd = ver.cmd /\ ver'.env = ver.env /\ ver'.file = ver.file
        /\ ver'.counter = ver.counter /\ ver'.quiet = ver.quiet /\ ver'.answered = ver.answered
        /\ ver'.todo = Tail(ver.todo) /\ ver'.report = With(results, ver.report)
        /\ ver'.pc = IF Len(ver.todo) = 1 THEN "exit" ELSE ver.todo[2]
    BY <1>1, <1>2, GroupedFacts
  <1>5. UNCHANGED <<extensions, config>>
    BY <1>1 DEF KeepsSetup
  <1>6. \A c \in Queries \cup {"R7"} : c \notin DOMAIN results
    BY <1>3
  <1>7. StillTrue' /\ FirstIfUnique'
    BY <1>2, <1>4, <1>5, <1>6, OtherResults
  <1>8. ver'.counter \in 0 .. Len(extensions) + 1
    BY <1>2, <1>4 DEF RunTyped
  <1>9. RunInv'
    <2>1. "V2" \notin DOMAIN results /\ "S2" \notin DOMAIN results /\ "E1" \notin DOMAIN results
      BY <1>3
    <2>2. ver.pc \notin {"register"} \cup RegisterPhases
      BY <1>1 DEF RegisterPhases
    <2> QED
      BY <1>1, <1>2, <1>3, <1>4, <1>5, <1>6, <1>7, <1>8, <2>1, <2>2, GroupEnds
  <1> QED
    BY <1>1, <1>2, <1>9, FaultsFit, RunStep

LEMMA OtherGroupStep ==
  ASSUME VerifyInv, OtherGroup
  PROVE  VerifyInv'
  <1> DEFINE env == ver.env
             site == ver.cmd.site
             path == ver.cmd.path
  <1>1. ver.pc \in {"services", "tee-version", "tee-machine", "test"} /\ KeepsSetup /\ UNCHANGED faults
    BY DEF OtherGroup
  <1>2. PICK results :
          /\ ver' = Grouped(results)
          /\ \A c \in Queries \cup {"R7", "D5key"} : c \notin DOMAIN results
          /\ ver.pc = "services" <=> "S2" \in DOMAIN results
          /\ ver.pc = "tee-version" <=> "V2" \in DOMAIN results
          /\ ver.pc = "test" <=> "E1" \in DOMAIN results
          /\ ver.pc = "services" /\ path => results["S2"] = Verdict(config.id > 0, "FAIL")
          /\ ver.pc = "tee-version" => results["V2"] = CheckTeeVersionKey(env)
          /\ ver.pc = "test" /\ path => results["E1"] = CheckSender(config)
    <2>1. CASE ver.pc = "services"
      <3>1. ver' = Grouped(RegisterServicesChecks(env, site, path, config))
        BY <2>1 DEF OtherGroup
      <3>2. /\ DOMAIN RegisterServicesChecks(env, site, path, config) = {"S2", "S5", "S7", "S9", "S10"}
            /\ path => RegisterServicesChecks(env, site, path, config)["S2"] = Verdict(config.id > 0, "FAIL")
        BY DEF RegisterServicesChecks
      <3> QED
        BY <2>1, <3>1, <3>2 DEF Queries
    <2>2. CASE ver.pc = "tee-version"
      <3>1. ver' = Grouped(RegisterTeeVersionChecks(env, site, path, config))
        BY <2>2 DEF OtherGroup
      <3>2. /\ DOMAIN RegisterTeeVersionChecks(env, site, path, config) = {"V2", "V4", "V6"}
            /\ RegisterTeeVersionChecks(env, site, path, config)["V2"] = CheckTeeVersionKey(env)
        BY DEF RegisterTeeVersionChecks, CheckTeeVersionKey
      <3> QED
        BY <2>2, <3>1, <3>2 DEF Queries
    <2>3. CASE ver.pc = "tee-machine"
      <3>1. ver' = Grouped(RegisterTeeMachineChecks(env, site))
        BY <2>3 DEF OtherGroup
      <3>2. DOMAIN RegisterTeeMachineChecks(env, site) = {"T1", "T5", "T10"}
        BY DEF RegisterTeeMachineChecks
      <3> QED
        BY <2>3, <3>1, <3>2 DEF Queries
    <2>4. CASE ver.pc = "test"
      <3>1. ver' = Grouped(RegisterTestChecks(env, site, path, config))
        BY <2>4 DEF OtherGroup
      <3>2. /\ DOMAIN RegisterTestChecks(env, site, path, config) = {"E1", "E3", "E6"}
            /\ path => RegisterTestChecks(env, site, path, config)["E1"] = CheckSender(config)
        BY DEF RegisterTestChecks, CheckSender
      <3> QED
        BY <2>4, <3>1, <3>2 DEF Queries
    <2> QED
      BY <1>1, <2>1, <2>2, <2>3, <2>4
  <1>3. RunInv /\ SetupInv /\ DOMAIN ver = RunFields /\ RunTyped
    BY <1>1 DEF VerifyInv, RunInv, RunTyped
  <1>4. /\ DOMAIN ver' = RunFields
        /\ ver'.cmd = ver.cmd /\ ver'.env = ver.env /\ ver'.file = ver.file
        /\ ver'.counter = ver.counter /\ ver'.quiet = ver.quiet /\ ver'.answered = ver.answered
        /\ ver'.todo = Tail(ver.todo) /\ ver'.report = With(results, ver.report)
        /\ ver'.pc = IF Len(ver.todo) = 1 THEN "exit" ELSE ver.todo[2]
    BY <1>2, <1>3, GroupedFacts
  <1>5. UNCHANGED <<extensions, config>>
    BY <1>1 DEF KeepsSetup
  <1>6. StillTrue' /\ FirstIfUnique'
    BY <1>2, <1>3, <1>4, <1>5, OtherResults
  <1>7. ver'.counter \in 0 .. Len(extensions) + 1
    BY <1>3, <1>4 DEF RunTyped
  <1>8. RunInv'
    <2>1. ver.pc \notin {"register", "deploy", "idle", "exit"} \cup RegisterPhases
      BY <1>1 DEF RegisterPhases
    <2> QED
      BY <1>2, <1>3, <1>4, <1>5, <1>6, <1>7, <2>1, GroupEnds
  <1> QED
    BY <1>1, <1>3, <1>8, FaultsFit, RunStep

-----------------------------------------------------------------------------
(* The registration group.                                                    *)

LEMMA ParseStep ==
  ASSUME VerifyInv, ParseExtensionEnv
  PROVE  VerifyInv'
  <1>1. ver.pc = "register" /\ KeepsSetup /\ UNCHANGED faults
    BY DEF ParseExtensionEnv
  <1>2. RunInv /\ SetupInv /\ DOMAIN ver = RunFields /\ RunTyped /\ NotYet /\ FileResults
    BY <1>1 DEF VerifyInv, RunInv, RunTyped
  <1>3. UNCHANGED <<extensions, config>>
    BY <1>1 DEF KeepsSetup
  <1>4. \A c \in Queries \cup {"R7"} : ~Has(c)
    BY <1>1, <1>2 DEF NotYet
  <1>5. CASE NothingToRegister(ver.cmd.path, config)
    <2> DEFINE results == [R1R7 |-> "SKIP"]
    <2>1. ver' = Grouped(results)
      BY <1>5 DEF ParseExtensionEnv
    <2>2. DOMAIN results = {"R1R7"}
      OBVIOUS
    <2> HIDE DEF results
    <2>3. /\ DOMAIN ver' = RunFields
          /\ ver'.cmd = ver.cmd /\ ver'.env = ver.env /\ ver'.file = ver.file
          /\ ver'.counter = ver.counter /\ ver'.quiet = ver.quiet /\ ver'.answered = ver.answered
          /\ ver'.todo = Tail(ver.todo) /\ ver'.report = With(results, ver.report)
          /\ ver'.pc = IF Len(ver.todo) = 1 THEN "exit" ELSE ver.todo[2]
      BY <1>2, <2>1, GroupedFacts
    <2>4. /\ \A c \in Queries \cup {"R7"} : c \notin DOMAIN results
          /\ "D5key" \notin DOMAIN results /\ "V2" \notin DOMAIN results
          /\ "S2" \notin DOMAIN results /\ "E1" \notin DOMAIN results
      BY <2>2 DEF Queries
    <2>5. StillTrue' /\ FirstIfUnique'
      BY <1>2, <1>3, <2>3, <2>4, OtherResults
    <2>6. ver'.counter \in 0 .. Len(extensions) + 1
      BY <1>2, <2>3 DEF RunTyped
    <2>7. ~(ver.cmd.path /\ config.id > 0)
      <3>1. ~ver.cmd.path \/ config.id = 0
        BY <1>5 DEF NothingToRegister
      <3> QED
        BY <3>1
    <2>8. RunInv'
      BY <1>1, <1>2, <1>3, <2>3, <2>4, <2>5, <2>6, <2>7, GroupEnds
    <2> QED
      BY <1>1, <1>2, <2>8, FaultsFit, RunStep
  <1>6. CASE ~NothingToRegister(ver.cmd.path, config)
    <2>1. ver' = [ver EXCEPT !.pc = "R1", !.file = config]
      BY <1>6 DEF ParseExtensionEnv
    <2>2. /\ DOMAIN ver' = RunFields
          /\ ver'.cmd = ver.cmd /\ ver'.env = ver.env /\ ver'.file = config
          /\ ver'.counter = ver.counter /\ ver'.quiet = ver.quiet /\ ver'.todo = ver.todo
          /\ ver'.report = ver.report /\ ver'.pc = "R1"
      BY <1>2, <2>1 DEF RunFields
    <2>3. config \in Config /\ config.id <= Len(extensions)
      BY <1>2 DEF SetupInv, SetupTypeOK
    <2>4. ver'.counter \in 0 .. Len(extensions) + 1
      BY <1>2, <2>2 DEF RunTyped
    <2>5. \A c : (Has(c)' <=> Has(c)) /\ (Has(c) => ver'.report[c] = ver.report[c])
      BY <2>2 DEF Has
    <2>6. StillTrue'
      BY <1>4, <2>5 DEF StillTrue, Says, Queries
    <2>7. CounterFits' /\ ver'.pc \in RegisterPhases
      BY <2>2 DEF CounterFits, Queries, RegisterPhases
    <2>8. RunInv'
      BY <1>1, <1>2, <1>3, <2>2, <2>3, <2>4, <2>5, <2>6, <2>7, PhaseEnds
    <2> QED
      BY <1>1, <1>2, <2>8, FaultsFit, RunStep
  <1> QED
    BY <1>5, <1>6

LEMMA CheckR1Step ==
  ASSUME VerifyInv, NEW failed, CheckR1(failed)
  PROVE  VerifyInv'
  <1> DEFINE counter == Len(extensions) + 1
             r1 == [R1 |-> R1(failed = {}, counter)]
  <1>1. /\ ver.pc = "R1" /\ KeepsSetup /\ Failing(failed)
        /\ ver' = IF ver.file.id <= 0 THEN Grouped(With([R2 |-> "FAIL"], r1))
                  ELSE [ver EXCEPT !.pc = "R2", !.report = With(r1, @),
                                   !.counter = IF failed = {} THEN counter ELSE 0]
    BY DEF CheckR1
  <1>2. /\ RunInv /\ SetupInv /\ DOMAIN ver = RunFields /\ RunTyped /\ NotYet /\ FileResults
        /\ StillTrue
    BY <1>1 DEF VerifyInv, RunInv, RunTyped
  <1>3. UNCHANGED <<extensions, config>> /\ ver.pc \in RegisterPhases
    BY <1>1 DEF KeepsSetup, RegisterPhases
  <1>4. DOMAIN r1 = {"R1"}
    OBVIOUS
  <1>5. ver.file \in Config /\ ver.file.id \in Int /\ ver.file.id <= Len(extensions) /\ Len(extensions) \in Nat
    BY <1>2, SetupFacts DEF RunTyped, Config
  <1> HIDE DEF r1
  <1>6. CASE ver.file.id <= 0
    <2> DEFINE results == With([R2 |-> "FAIL"], r1)
    <2>1. ver' = Grouped(results)
      BY <1>1, <1>6
    <2>2. DOMAIN results = {"R1", "R2"} /\ results["R2"] = "FAIL"
      <3>1. DOMAIN [R2 |-> "FAIL"] = {"R2"} /\ [R2 |-> "FAIL"]["R2"] = "FAIL"
        OBVIOUS
      <3> QED
        BY <1>4, <3>1 DEF With
    <2> HIDE DEF results
    <2>3. /\ DOMAIN ver' = RunFields
          /\ ver'.cmd = ver.cmd /\ ver'.env = ver.env /\ ver'.file = ver.file
          /\ ver'.counter = ver.counter /\ ver'.quiet = ver.quiet /\ ver'.answered = ver.answered
          /\ ver'.todo = Tail(ver.todo) /\ ver'.report = With(results, ver.report)
          /\ ver'.pc = IF Len(ver.todo) = 1 THEN "exit" ELSE ver.todo[2]
      BY <1>2, <2>1, GroupedFacts
    <2>4. /\ Has("R2")' /\ ver'.report["R2"] = "FAIL"
          /\ \A c \in {"R3", "R4"} : (Has(c)' <=> Has(c)) /\ (Has(c) => ver'.report[c] = ver.report[c])
      <3>1. /\ DOMAIN ver'.report = DOMAIN results \cup DOMAIN ver.report
            /\ \A c \in DOMAIN results : ver'.report[c] = results[c]
            /\ \A c \in DOMAIN ver.report : c \notin DOMAIN results => ver'.report[c] = ver.report[c]
        BY <2>3 DEF With
      <3> QED
        BY <2>2, <3>1 DEF Has
    <2>5. ~Says("R2", "PASS")' /\ \A c \in {"R3", "R4"} : Says(c, "PASS")' <=> Says(c, "PASS")
      BY <2>4 DEF Says
    <2>6. FirstIfUnique'
      BY <2>5 DEF FirstIfUnique
    <2>7. StillTrue'
      <3>1. ExtensionIds' = ExtensionIds
        BY <1>3 DEF ExtensionIds
      <3> QED
        BY <1>2, <1>3, <2>3, <2>4, <2>5, <3>1 DEF StillTrue, Queries
    <2>8. ver'.counter \in 0 .. Len(extensions) + 1
      BY <1>2, <2>3 DEF RunTyped
    <2>9. ~(ver.cmd.step = "all" /\ ver.cmd.path /\ ver.quiet /\ config.id > 0)
      <3>1. ver.cmd.step = "all" /\ ver.cmd.path /\ ver.quiet => ver.file = config
        BY <1>2, <1>3 DEF FileResults
      <3> QED
        BY <1>5, <1>6, <3>1
    <2>10. /\ "D5key" \notin DOMAIN results /\ "V2" \notin DOMAIN results
           /\ "S2" \notin DOMAIN results /\ "E1" \notin DOMAIN results
      BY <2>2
    <2>11. RunInv'
      BY <1>1, <1>2, <1>3, <2>3, <2>6, <2>7, <2>8, <2>9, <2>10, GroupEnds
    <2> QED
      BY <1>1, <1>2, <2>11, FaultsFit, RunStep
  <1>7. CASE ~(ver.file.id <= 0)
    <2>1. ver' = [ver EXCEPT !.pc = "R2", !.report = With(r1, @),
                             !.counter = IF failed = {} THEN counter ELSE 0]
      BY <1>1, <1>7
    <2>2. /\ DOMAIN ver' = RunFields
          /\ ver'.cmd = ver.cmd /\ ver'.env = ver.env /\ ver'.file = ver.file
          /\ ver'.counter \in {0, counter} /\ ver'.quiet = ver.quiet /\ ver'.todo = ver.todo
          /\ ver'.report = With(r1, ver.report) /\ ver'.pc = "R2"
      BY <1>2, <2>1 DEF RunFields
    <2>3. \A c : c # "R1" => (Has(c)' <=> Has(c)) /\ (Has(c) => ver'.report[c] = ver.report[c])
      <3>1. /\ DOMAIN ver'.report = DOMAIN r1 \cup DOMAIN ver.report
            /\ \A c \in DOMAIN ver.report : c \notin DOMAIN r1 => ver'.report[c] = ver.report[c]
        BY <2>2 DEF With
      <3> QED
        BY <1>4, <3>1 DEF Has
    <2>4. ExtensionIds' = ExtensionIds
      BY <1>3 DEF ExtensionIds
    <2>5. StillTrue'
      <3>1. \A c \in Queries : /\ Has(c)' <=> Has(c)
                               /\ Has(c) => ver'.report[c] = ver.report[c]
                               /\ Says(c, "PASS")' <=> Says(c, "PASS")
        BY <2>3 DEF Says, Queries
      <3> QED
        BY <1>2, <1>3, <2>2, <2>4, <3>1 DEF StillTrue, Queries
    <2>6. /\ ver.file.id \in ExtensionIds /\ (ver'.counter = 0 \/ ver.file.id < ver'.counter)
          /\ ver'.counter \in 0 .. Len(extensions) + 1
      BY <1>5, <1>7, <2>2 DEF ExtensionIds
    <2>7. CounterFits' /\ ver'.pc \in RegisterPhases
      BY <2>2, <2>4, <2>6 DEF CounterFits, RegisterPhases
    <2>8. ver.cmd.step = "all" /\ ver.cmd.path /\ ver.quiet => ver.file = config
      BY <1>2, <1>3 DEF FileResults
    <2>9. RunInv'
      BY <1>2, <1>3, <1>5, <2>2, <2>3, <2>5, <2>6, <2>7, <2>8, PhaseEnds
    <2> QED
      BY <1>1, <1>2, <2>9, FaultsFit, RunStep
  <1> QED
    BY <1>6, <1>7

(* R2, R3 and R4. *)
LEMMA QueryStep ==
  ASSUME VerifyInv, NEW check \in Queries, NEW next \in {"R3", "R4", "R7"}, NEW failed,
         NEW asExpected, Query(check, next, asExpected, failed),
         <<check, next>> \in {<<"R2", "R3">>, <<"R3", "R4">>, <<"R4", "R7">>},
         asExpected /\ check = "R2" => extensions[ver.file.id].sender = ver.file.sender,
         asExpected /\ check = "R3" => ver.cmd.key \in extensions[ver.file.id].machineOwners,
         asExpected /\ check = "R4" => extensions[ver.file.id].evmType
  PROVE  VerifyInv'
  <1> DEFINE results == [c \in {check} |-> OnChain(failed = {}, asExpected)]
  <1>1. /\ ver.pc = check /\ Failing(failed) /\ KeepsSetup
        /\ ver' = [ver EXCEPT !.pc = next, !.report = With(results, @)]
    BY DEF Query
  <1>2. /\ RunInv /\ SetupInv /\ DOMAIN ver = RunFields /\ RunTyped /\ NotYet /\ FileResults
        /\ StillTrue /\ CounterFits
    BY <1>1 DEF VerifyInv, RunInv, RunTyped, Queries
  <1>3. UNCHANGED <<extensions, config>> /\ ver.pc \in RegisterPhases
    BY <1>1 DEF KeepsSetup, RegisterPhases, Queries
  <1>4. /\ DOMAIN results = {check} /\ results[check] \in {"PASS", "FAIL"}
        /\ results[check] = "PASS" => asExpected
    BY DEF OnChain, Verdict
  <1> HIDE DEF results
  <1>5. /\ DOMAIN ver' = RunFields
        /\ ver'.cmd = ver.cmd /\ ver'.env = ver.env /\ ver'.file = ver.file
        /\ ver'.counter = ver.counter /\ ver'.quiet = ver.quiet /\ ver'.todo = ver.todo
        /\ ver'.report = With(results, ver.report) /\ ver'.pc = next
    BY <1>1, <1>2 DEF RunFields
  <1>6. /\ Has(check)' /\ ver'.report[check] = results[check]
        /\ \A c : c # check => (Has(c)' <=> Has(c)) /\ (Has(c) => ver'.report[c] = ver.report[c])
    <2>1. /\ DOMAIN ver'.report = DOMAIN results \cup DOMAIN ver.report
          /\ \A c \in DOMAIN results : ver'.report[c] = results[c]
          /\ \A c \in DOMAIN ver.report : c \notin DOMAIN results => ver'.report[c] = ver.report[c]
      BY <1>5 DEF With
    <2> QED
      BY <1>4, <2>1 DEF Has
  <1>7. ExtensionIds' = ExtensionIds
    BY <1>3 DEF ExtensionIds
  <1>8. /\ ver.file.id \in ExtensionIds /\ (ver.counter = 0 \/ ver.file.id < ver.counter)
        /\ ver.file \in Config /\ ver.file.id <= Len(extensions)
        /\ ver.counter \in 0 .. Len(extensions) + 1
    BY <1>1, <1>2 DEF CounterFits, RunTyped
  <1>9. StillTrue'
    <2>1. Says(check, "PASS")' => asExpected
      BY <1>4, <1>6 DEF Says
    <2>2. \A c : c # check => (Says(c, "PASS")' <=> Says(c, "PASS"))
      BY <1>6 DEF Says
    <2>3. \A c \in Queries : Has(c)' => ver'.report[c] \in {"PASS", "FAIL"}
      BY <1>2, <1>4, <1>6 DEF StillTrue
    <2>4. \A c \in Queries : Says(c, "PASS")' => ver'.file.id \in ExtensionIds'
      BY <1>5, <1>7, <1>8
    <2>5. Says("R2", "PASS")' => extensions'[ver'.file.id].sender = ver'.file.sender
      BY <1>2, <1>3, <1>5, <2>1, <2>2 DEF StillTrue
    <2>6. Says("R3", "PASS")' => ver'.cmd.key \in extensions'[ver'.file.id].machineOwners
      BY <1>2, <1>3, <1>5, <2>1, <2>2 DEF StillTrue
    <2>7. Says("R4", "PASS")' => extensions'[ver'.file.id].evmType
      BY <1>2, <1>3, <1>5, <2>1, <2>2 DEF StillTrue
    <2> QED
      BY <2>3, <2>4, <2>5, <2>6, <2>7 DEF StillTrue
  <1>10. CounterFits' /\ ver'.pc \in RegisterPhases
    BY <1>5, <1>7, <1>8 DEF CounterFits, RegisterPhases
  <1>11. ver.cmd.step = "all" /\ ver.cmd.path /\ ver.quiet =>
           /\ ver'.file = config
           /\ ver'.pc \in {"R3", "R4", "R7"} /\ config.sender > 0 => Has("R2")'
           /\ ver'.pc \in {"R4", "R7"} => Has("R3")'
           /\ ver'.pc = "R7" => Has("R4")'
    <2> SUFFICES ASSUME ver.cmd.step = "all", ver.cmd.path, ver.quiet
                 PROVE  /\ ver.file = config
                        /\ config.sender > 0 => Has("R2")'
                        /\ next \in {"R4", "R7"} => Has("R3")'
                        /\ next = "R7" => Has("R4")'
      BY <1>5
    <2>1. /\ ver.file = config
          /\ check \in {"R3", "R4"} /\ config.sender > 0 => Has("R2")
          /\ check = "R4" => Has("R3")
      BY <1>1, <1>2, <1>3 DEF FileResults
    <2>2. \/ check = "R2" /\ next = "R3" 
          \/ check = "R3" /\ next = "R4" 
          \/ check = "R4" /\ next = "R7"
      OBVIOUS
    <2> QED
      BY <1>6, <2>1, <2>2
  <1>12. RunInv'
    <2>1. \A c : c \notin {"R1"} \cup Queries =>
            (Has(c)' <=> Has(c)) /\ (Has(c) => ver'.report[c] = ver.report[c])
      BY <1>6
    <2> QED
      BY <1>2, <1>3, <1>5, <1>8, <1>9, <1>10, <1>11, <2>1, PhaseEnds
  <1> QED
    BY <1>1, <1>2, <1>12, FaultsFit, RunStep

LEMMA SkipR2Step ==
  ASSUME VerifyInv, ver.pc = "R2", ver.file.sender <= 0, KeepsSetup, UNCHANGED faults,
         ver' = [ver EXCEPT !.pc = "R3"]
  PROVE  VerifyInv'
  <1>1. /\ RunInv /\ SetupInv /\ DOMAIN ver = RunFields /\ RunTyped /\ FileResults
        /\ StillTrue /\ CounterFits
    BY DEF VerifyInv, RunInv, RunTyped
  <1>2. UNCHANGED <<extensions, config>> /\ ver.pc \in RegisterPhases
    BY DEF KeepsSetup, RegisterPhases
  <1>3. /\ DOMAIN ver' = RunFields
        /\ ver'.cmd = ver.cmd /\ ver'.env = ver.env /\ ver'.file = ver.file
        /\ ver'.counter = ver.counter /\ ver'.quiet = ver.quiet /\ ver'.todo = ver.todo
        /\ ver'.report = ver.report /\ ver'.pc = "R3"
    BY <1>1 DEF RunFields
  <1>4. \A c : /\ Has(c)' <=> Has(c)
               /\ Has(c) => ver'.report[c] = ver.report[c]
               /\ Says(c, "PASS")' <=> Says(c, "PASS")
    BY <1>3 DEF Has, Says
  <1>5. ExtensionIds' = ExtensionIds
    BY <1>2 DEF ExtensionIds
  <1>6. StillTrue'
    BY <1>1, <1>2, <1>3, <1>4, <1>5 DEF StillTrue
  <1>7. /\ ver.file.id \in ExtensionIds /\ (ver.counter = 0 \/ ver.file.id < ver.counter)
        /\ ver.file \in Config /\ ver.file.id <= Len(extensions)
        /\ ver.counter \in 0 .. Len(extensions) + 1 /\ ver.file.sender \in Int
    BY <1>1 DEF CounterFits, RunTyped, Queries, Config
  <1>8. CounterFits' /\ ver'.pc \in RegisterPhases
    BY <1>3, <1>5, <1>7 DEF CounterFits, RegisterPhases
  <1>9. ver.cmd.step = "all" /\ ver.cmd.path /\ ver.quiet =>
          ver.file = config /\ ~(config.sender > 0)
    <2>1. ver.cmd.step = "all" /\ ver.cmd.path /\ ver.quiet => ver.file = config
      BY <1>1, <1>2 DEF FileResults
    <2> QED
      BY <1>7, <2>1
  <1>10. RunInv'
    BY <1>1, <1>2, <1>3, <1>4, <1>6, <1>7, <1>8, <1>9, PhaseEnds
  <1> QED
    BY <1>1, <1>10, FaultsFit, RunStep

LEMMA QueriesStep ==
  ASSUME VerifyInv, NEW failed, CheckR2(failed) \/ CheckR3(failed) \/ CheckR4(failed)
  PROVE  VerifyInv'
  <1>1. CASE CheckR2(failed)
    <2>1. CASE ver.pc = "R2" /\ ver.file.sender <= 0
      <3>1. KeepsSetup /\ UNCHANGED faults /\ ver' = [ver EXCEPT !.pc = "R3"]
        <4>1. ~(ver.file.sender > 0)
          <5>1. RunTyped
            BY <2>1 DEF VerifyInv, RunInv
          <5>2. ver.file.sender \in Int
            BY <5>1 DEF RunTyped, Config
          <5> QED
            BY <2>1, <5>2
        <4> QED
          BY <1>1, <4>1 DEF CheckR2
      <3> QED
        BY <2>1, <3>1, SkipR2Step
    <2>2. CASE Query("R2", "R3", extensions[ver.file.id].sender = ver.file.sender, failed)
      BY <2>2, QueryStep DEF Queries
    <2> QED
      BY <1>1, <2>1, <2>2 DEF CheckR2
  <1>2. CASE CheckR3(failed)
    <2>1. Query("R3", "R4", ver.cmd.key \in extensions[ver.file.id].machineOwners, failed)
      BY <1>2 DEF CheckR3
    <2> QED
      BY <2>1, QueryStep DEF Queries
  <1>3. CASE CheckR4(failed)
    <2>1. Query("R4", "R7", extensions[ver.file.id].evmType, failed)
      BY <1>3 DEF CheckR4
    <2> QED
      BY <2>1, QueryStep DEF Queries
  <1> QED
    BY <1>1, <1>2, <1>3

(* An only match below the counter is the first extension of its sender. *)
LEMMA OnlyMatchIsFirst ==
  ASSUME RunTyped, CounterFits, ver.pc = "R7", ver.counter > 0, Len(extensions) \in Nat,
         extensions[ver.file.id].sender = ver.file.sender,
         R7(Matching({})) = "PASS"
  PROVE  IsFirst(ver.file.id, ver.file.sender)
  <1> DEFINE id == ver.file.id
             mine == IdsOf(ver.file.sender)
  <1>1. ver.counter \in Nat /\ id \in ExtensionIds /\ id < ver.counter /\ id \in Nat
    BY DEF RunTyped, CounterFits, ExtensionIds
  <1>2. id \in mine /\ mine \subseteq Nat
    BY <1>1 DEF IdsOf, ExtensionIds
  <1>3. \A i \in mine : i < ver.counter => i = id
    <2>1. \A i, j \in Matching({}) : i = j
      BY DEF R7
    <2>2. id \in Matching({}) /\ \A i \in mine : i < ver.counter => i \in Matching({})
      BY <1>1, <1>2 DEF Matching
    <2> QED
      BY <2>1, <2>2
  <1>4. \A i \in mine : id <= i
    BY <1>1, <1>2, <1>3
  <1> QED
    BY <1>2, <1>4 DEF IsFirst

LEMMA CheckR7Step ==
  ASSUME VerifyInv, NEW failed, CheckR7(failed)
  PROVE  VerifyInv'
  <1> DEFINE asked == ver.counter > 0 /\ ver.file.sender > 0
             results == IF asked THEN [R7 |-> R7(Matching(failed))] ELSE <<>>
             g == Grouped(results)
  <1>1. /\ ver.pc = "R7" /\ Failing(failed) /\ KeepsSetup
        /\ ver' = [g EXCEPT !.answered = (failed = {}), !.counter = 0]
    BY DEF CheckR7
  <1>2. /\ RunInv /\ SetupInv /\ DOMAIN ver = RunFields /\ RunTyped /\ NotYet /\ FileResults
        /\ StillTrue /\ CounterFits
    BY <1>1 DEF VerifyInv, RunInv, RunTyped
  <1>3. UNCHANGED <<extensions, config>> /\ ver.pc \in RegisterPhases
    BY <1>1 DEF KeepsSetup, RegisterPhases
  <1>4. /\ DOMAIN results \subseteq {"R7"} /\ ("R7" \in DOMAIN results <=> asked)
        /\ asked => results["R7"] = R7(Matching(failed))
    OBVIOUS
  <1>5. Len(extensions) \in Nat
    BY <1>2, SetupFacts
  <1> HIDE DEF results
  <1>6. /\ DOMAIN g = RunFields
        /\ g.cmd = ver.cmd /\ g.env = ver.env /\ g.file = ver.file /\ g.quiet = ver.quiet
        /\ g.todo = Tail(ver.todo) /\ g.report = With(results, ver.report)
        /\ g.pc = IF Len(ver.todo) = 1 THEN "exit" ELSE ver.todo[2]
    BY <1>2, GroupedFacts
  <1> HIDE DEF g
  <1>7. /\ DOMAIN ver' = RunFields
        /\ ver'.cmd = ver.cmd /\ ver'.env = ver.env /\ ver'.file = ver.file /\ ver'.quiet = ver.quiet
        /\ ver'.todo = Tail(ver.todo) /\ ver'.report = With(results, ver.report)
        /\ ver'.pc = IF Len(ver.todo) = 1 THEN "exit" ELSE ver.todo[2]
        /\ ver'.answered = (failed = {}) /\ ver'.counter = 0
    BY <1>1, <1>6 DEF RunFields
  <1>8. /\ Has("R7")' <=> asked
        /\ asked => ver'.report["R7"] = R7(Matching(failed))
        /\ \A c : c # "R7" => (Has(c)' <=> Has(c)) /\ (Has(c) => ver'.report[c] = ver.report[c])
    <2>1. /\ DOMAIN ver'.report = DOMAIN results \cup DOMAIN ver.report
          /\ \A c \in DOMAIN results : ver'.report[c] = results[c]
          /\ \A c \in DOMAIN ver.report : c \notin DOMAIN results => ver'.report[c] = ver.report[c]
      BY <1>7 DEF With
    <2>2. ~Has("R7")
      BY <1>2, <1>3 DEF NotYet
    <2> QED
      BY <1>4, <2>1, <2>2 DEF Has
  <1>9. \A c \in Queries : Says(c, "PASS")' <=> Says(c, "PASS")
    BY <1>8 DEF Says, Queries
  <1>10. ExtensionIds' = ExtensionIds /\ IsFirst(ver.file.id, ver.file.sender)' = IsFirst(ver.file.id, ver.file.sender)
    BY <1>3, <1>7 DEF ExtensionIds, IsFirst, IdsOf
  <1>11. StillTrue'
    <2>1. \A c \in Queries : Has(c)' => ver'.report[c] \in {"PASS", "FAIL"}
      BY <1>2, <1>8 DEF StillTrue, Queries
    <2> QED
      BY <1>2, <1>3, <1>7, <1>9, <1>10, <2>1 DEF StillTrue, Queries
  <1>12. FirstIfUnique'
    <2> SUFFICES ASSUME Says("R2", "PASS")', Says("R7", "PASS")', failed = {}
                 PROVE  IsFirst(ver.file.id, ver.file.sender)
      BY <1>7, <1>10 DEF FirstIfUnique
    <2>1. asked /\ R7(Matching({})) = "PASS"
      BY <1>8 DEF Says
    <2>2. extensions[ver.file.id].sender = ver.file.sender
      BY <1>2, <1>9 DEF StillTrue, Queries
    <2> QED
      BY <1>1, <1>2, <1>5, <2>1, <2>2, OnlyMatchIsFirst
  <1>13. ver.cmd.step = "all" /\ ver.cmd.path /\ ver.quiet /\ config.id > 0 /\ config.sender > 0 =>
           ver.file = config /\ \A c \in Queries : Has(c)'
    BY <1>1, <1>2, <1>3, <1>8 DEF FileResults, Queries
  <1>14. RunInv'
    <2>1. /\ "D5key" \notin DOMAIN results /\ "V2" \notin DOMAIN results
          /\ "S2" \notin DOMAIN results /\ "E1" \notin DOMAIN results
      BY <1>4
    <2>2. ver'.counter \in 0 .. Len(extensions) + 1
      BY <1>5, <1>7
    <2> HIDE DEF asked
    <2> QED
      BY <1>1, <1>2, <1>3, <1>7, <1>11, <1>12, <1>13, <2>1, <2>2, GroupEnds
  <1> QED
    BY <1>1, <1>2, <1>14, FaultsFit, RunStep

-----------------------------------------------------------------------------
(* The beginning and the end, and the set-up meanwhile.                       *)

LEMMA StartVerifyStep ==
  ASSUME VerifyInv, NEW cmd \in Invocations, StartVerify(cmd)
  PROVE  VerifyInv'
  <1> DEFINE s == StepsOf(cmd)
             env == IF NeedsChain(cmd) THEN Loaded(cmd.process, cmd.dotenv) ELSE cmd.process
  <1>1. /\ ver' = [pc |-> Head(s), cmd |-> cmd, todo |-> s, env |-> env,
                   file |-> NoConfig, counter |-> 0, report |-> <<>>, quiet |-> TRUE, answered |-> TRUE]
        /\ UNCHANGED setupVars
    BY DEF StartVerify
  <1>2. /\ s \in Seq(Steps) /\ s # <<>>
        /\ cmd.step = "all" => s = AllSteps
    BY StepsFacts
  <1> HIDE DEF s, env
  <1>3. /\ DOMAIN ver' = RunFields /\ ver'.pc = Head(s) /\ ver'.cmd = cmd /\ ver'.todo = s
        /\ ver'.env = env /\ ver'.file = NoConfig /\ ver'.counter = 0 /\ ver'.report = <<>>
    BY <1>1 DEF RunFields
  <1>4. Len(s) \in Nat /\ Len(s) # 0 /\ Head(s) = s[1] /\ s[1] \in Steps
    BY <1>2
  <1>5. \A c : c \in Queries \cup {"R7"} => ~Has(c)'
    BY <1>3 DEF Has, Queries
  <1>6. Len(extensions) \in Nat /\ SetupInv /\ KeepsSetup /\ UNCHANGED faults
    BY <1>1, SetupFacts DEF VerifyInv, setupVars, KeepsSetup
  <1>7. RunTyped'
    <2>1. NoConfig \in Config /\ NoConfig.id = 0
      BY DEF NoConfig, Config
    <2> QED
      BY <1>2, <1>3, <1>6, <2>1 DEF RunTyped, KeepsSetup
  <1>8. Positioned'
    <2>1. StepsOf(ver'.cmd) = s
      BY <1>3 DEF s
    <2>2. \A i \in 1 .. Len(s) : Len(s) - Len(s) + i = i
      BY <1>4
    <2> QED
      BY <1>3, <1>4, <2>1, <2>2 DEF Positioned
  <1>9. NotYet' /\ CounterFits' /\ StillTrue' /\ FirstIfUnique'
    <2>1. ver'.pc \notin Queries \cup {"R7"}
      BY <1>3, <1>4 DEF Steps, Queries
    <2>2. \A c \in Queries \cup {"R7"} : ~Says(c, "PASS")'
      BY <1>5 DEF Says
    <2> QED
      BY <1>5, <2>1, <2>2 DEF NotYet, CounterFits, StillTrue, FirstIfUnique, Queries
  <1>10. KeyResults' /\ FileResults'
    <2>1. CASE cmd.step # "all"
      BY <1>3, <2>1 DEF KeyResults, FileResults
    <2>2. CASE cmd.step = "all"
      <3>1. env = Loaded(cmd.process, cmd.dotenv)
        BY <2>2 DEF NeedsChain, env
      <3>2. Len(s) = 6 /\ Head(s) = "deploy"
        BY <1>2, <2>2 DEF AllSteps
      <3>3. /\ ~(Len(ver'.todo) <= 5) /\ ~(Len(ver'.todo) <= 2) /\ ~(Len(ver'.todo) <= 4)
            /\ ~(Len(ver'.todo) <= 3) /\ Len(ver'.todo) # 0
        BY <1>3, <3>2
      <3>4. ver'.pc \notin RegisterPhases /\ ver'.pc \notin {"R3", "R4", "R7"}
        BY <1>3, <3>2 DEF RegisterPhases
      <3> QED
        BY <1>3, <3>1, <3>3, <3>4 DEF KeyResults, FileResults
    <2> QED
      BY <2>1, <2>2
  <1>11. RunInv'
    BY <1>7, <1>8, <1>9, <1>10 DEF RunInv
  <1> QED
    BY <1>6, <1>11, FaultsFit, RunStep

(* What an extension was given stays, and the first of a sender stays the first. *)
LEMMA GrowsFirst ==
  ASSUME SetupInv, SetupInv', Grows, NEW id, NEW s, IsFirst(id, s)
  PROVE  IsFirst(id, s)'
  <1>1. /\ Len(extensions) \in Nat /\ Len(extensions') \in Nat
        /\ Len(extensions) <= Len(extensions')
        /\ \A i \in ExtensionIds : extensions'[i].sender = extensions[i].sender
    BY SetupFacts DEF Grows, SetupInv, SetupTypeOK
  <1>2. id \in ExtensionIds /\ id \in Nat /\ id <= Len(extensions)
    BY <1>1 DEF IsFirst, IdsOf, ExtensionIds
  <1>3. id \in IdsOf(s)'
    BY <1>1, <1>2 DEF IsFirst, IdsOf, ExtensionIds
  <1>4. ASSUME NEW i \in IdsOf(s)' PROVE id <= i
    <2>1. CASE i \in ExtensionIds
      BY <1>1, <2>1 DEF IsFirst, IdsOf
    <2>2. CASE i \notin ExtensionIds
      BY <1>1, <1>2, <2>2 DEF IdsOf, ExtensionIds
    <2> QED
      BY <2>1, <2>2
  <1> QED
    BY <1>3, <1>4 DEF IsFirst

LEMMA SetupMeanwhile ==
  ASSUME VerifyInv, SetupStep
  PROVE  VerifyInv'
  <1>1. SetupInv /\ SetupNext
    BY DEF VerifyInv, SetupStep
  <1>2. SetupInv' /\ Grows /\ (config' = config \/ config'.exists)
    BY <1>1, SetupStepKeeps, SetupGrows
  <1>3. (config.id # 0 => config.exists)'
    BY <1>2 DEF VerifyInv
  <1>4. CASE ver.pc = "idle"
    <2>1. ver' = ver
      BY <1>4 DEF SetupStep
    <2> QED
      BY <1>2, <1>3, <1>4, <2>1 DEF VerifyInv
  <1>5. CASE ver.pc # "idle"
    <2>1. RunInv
      BY <1>5 DEF VerifyInv
    <2>2. /\ RunTyped /\ Positioned /\ NotYet /\ CounterFits /\ StillTrue /\ FirstIfUnique
          /\ KeyResults /\ FileResults /\ DOMAIN ver = RunFields
      BY <2>1 DEF RunInv, RunTyped
    <2>3. /\ DOMAIN ver' = RunFields /\ ver'.pc = ver.pc
          /\ ver'.cmd = ver.cmd /\ ver'.env = ver.env /\ ver'.file = ver.file /\ ver'.todo = ver.todo
          /\ ver'.counter = ver.counter /\ ver'.report = ver.report /\ ver'.answered = ver.answered
          /\ (ver'.quiet = ver.quiet /\ config' = config) \/ ~ver'.quiet
      <3>1. CASE config' = config
        BY <2>2, <3>1 DEF SetupStep
      <3>2. CASE config' # config
        <4>1. ver' = [ver EXCEPT !.quiet = FALSE]
          BY <1>5, <3>2 DEF SetupStep
        <4> QED
          BY <2>2, <4>1 DEF RunFields
      <3> QED
        BY <3>1, <3>2
    <2>4. /\ Len(extensions) \in Nat /\ Len(extensions') \in Nat /\ Len(extensions) <= Len(extensions')
          /\ ExtensionIds \subseteq ExtensionIds'
          /\ \A i \in ExtensionIds :
               /\ extensions'[i].sender = extensions[i].sender
               /\ extensions[i].machineOwners \subseteq extensions'[i].machineOwners
               /\ extensions[i].evmType => extensions'[i].evmType
      BY <1>1, <1>2, SetupFacts DEF Grows, ExtensionIds, SetupInv, SetupTypeOK
    <2>5. \A c : (Has(c)' <=> Has(c)) /\ \A st : Says(c, st)' <=> Says(c, st)
      BY <2>3 DEF Has, Says
    <2>6. RunTyped'
      <3>1. ver.file \in Config /\ ver.file.id \in Int /\ ver.file.id <= Len(extensions)
            /\ ver.counter \in 0 .. Len(extensions) + 1
        BY <2>2 DEF RunTyped, Config
      <3>2. ver.file.id <= Len(extensions') /\ ver.counter \in 0 .. Len(extensions') + 1
        BY <2>4, <3>1
      <3> QED
        BY <2>2, <2>3, <3>2 DEF RunTyped
    <2>7. Positioned'
      BY <2>2, <2>3 DEF Positioned, StepsOf
    <2>8. NotYet' /\ CounterFits'
      BY <2>2, <2>3, <2>4, <2>5 DEF NotYet, CounterFits
    <2>9. StillTrue'
      <3>1. \A c \in Queries : Has(c)' => ver'.report[c] \in {"PASS", "FAIL"}
        BY <2>2, <2>3, <2>5 DEF StillTrue
      <3>2. \A c \in Queries : Says(c, "PASS")' => ver'.file.id \in ExtensionIds'
        BY <2>2, <2>3, <2>4, <2>5 DEF StillTrue
      <3>3. Says("R2", "PASS")' => extensions'[ver'.file.id].sender = ver'.file.sender
        BY <2>2, <2>3, <2>4, <2>5 DEF StillTrue, Queries
      <3>4. Says("R3", "PASS")' => ver'.cmd.key \in extensions'[ver'.file.id].machineOwners
        BY <2>2, <2>3, <2>4, <2>5 DEF StillTrue, Queries
      <3>5. Says("R4", "PASS")' => extensions'[ver'.file.id].evmType
        BY <2>2, <2>3, <2>4, <2>5 DEF StillTrue, Queries
      <3> QED
        BY <3>1, <3>2, <3>3, <3>4, <3>5 DEF StillTrue
    <2>10. FirstIfUnique'
      <3>1. \A id, s : IsFirst(id, s) => IsFirst(id, s)'
        BY <1>1, <1>2, GrowsFirst
      <3>2. IsFirst(ver.file.id, ver.file.sender) => IsFirst(ver.file.id, ver.file.sender)'
        BY <2>3, <3>1 DEF IsFirst, IdsOf, ExtensionIds
      <3> QED
        BY <2>2, <2>3, <2>5, <3>2 DEF FirstIfUnique
    <2>11. KeyResults'
      BY <2>2, <2>3, <2>5 DEF KeyResults
    <2>12. FileResults'
      BY <2>2, <2>3, <2>5 DEF FileResults
    <2> QED
      BY <1>2, <1>3, <2>6, <2>7, <2>8, <2>9, <2>10, <2>11, <2>12 DEF VerifyInv, RunInv
  <1> QED
    BY <1>4, <1>5

LEMMA VerifyAlways == VerifySpec => []VerifyInv
  <1>1. VerifyInit => VerifyInv
    BY SetupStarts DEF VerifyInit, VerifyInv, NoRun, SetupInit, NoConfig
  <1>2. ASSUME VerifyInv, [VerifyNext]_verifyVars PROVE VerifyInv'
    <2>1. CASE VerifyStep
      <3>1. CASE Exit
        <4>1. SetupInv' /\ (config.id # 0 => config.exists)' /\ ver'.pc = "idle"
          <5>1. SetupInv /\ (config.id # 0 => config.exists) /\ UNCHANGED setupVars /\ ver'.pc = "idle"
            BY <1>2, <3>1 DEF VerifyInv, Exit, NoRun
          <5>2. UNCHANGED <<extensions, cachedId, config, op, late, faults>> /\ faults' \in 0 .. MaxFaults
            BY <5>1 DEF setupVars, SetupInv, SetupTypeOK
          <5> QED
            BY <5>1, <5>2, SetupUnchanged
        <4> QED
          BY <4>1 DEF VerifyInv
      <3> QED
        BY <1>2, <2>1, <3>1, StartVerifyStep, ParseStep, DeployGroupStep, CheckR1Step, QueriesStep,
           CheckR7Step, OtherGroupStep
           DEF VerifyStep
    <2>2. CASE SetupStep
      BY <1>2, <2>2, SetupMeanwhile
    <2>3. CASE UNCHANGED verifyVars
      <3>1. /\ SetupInv /\ (config.id # 0 => config.exists) /\ ver' = ver
            /\ UNCHANGED <<extensions, cachedId, config, op, late, faults>> /\ faults' \in 0 .. MaxFaults
        BY <1>2, <2>3 DEF VerifyInv, verifyVars, setupVars, SetupInv, SetupTypeOK
      <3>2. SetupInv'
        BY <3>1, SetupUnchanged
      <3>3. RunInv' <=> RunInv
        BY <3>1 DEF RunInv, RunTyped, Positioned, NotYet, CounterFits, StillTrue, FirstIfUnique,
                    KeyResults, FileResults, Has, Says, ExtensionIds, IsFirst, IdsOf
      <3> QED
        BY <1>2, <3>1, <3>2, <3>3 DEF VerifyInv
    <2> QED
      BY <1>2, <2>1, <2>2, <2>3 DEF VerifyNext
  <1> QED
    BY <1>1, <1>2, PTL DEF VerifySpec

-----------------------------------------------------------------------------
(* The theorems.                                                              *)

(* An exit code 0 of a complete report means that the extension in            *)
(* extension.env can be worked with, whatever registrations, grants, late     *)
(* transactions and failing queries came between verify-deploy's reads.       *)
THEOREM ExitZeroIsReady == VerifySpec => []ExitZeroMeansReady
  <1>1. ASSUME VerifyInv PROVE ExitZeroMeansReady
    <2> SUFFICES ASSUME ver.pc = "exit", ver.quiet, ~HasFailures(Shown),
                        ver.cmd.step = "all", ver.cmd.path, ~ver.cmd.filter
                 PROVE  /\ ver.file = config /\ Complete(config)
                        /\ LET ext == extensions[config.id] IN
                             /\ ext.sender = config.sender /\ ext.evmType
                             /\ ver.cmd.key \in ext.machineOwners \cap ext.projectOwners
      BY DEF ExitZeroMeansReady
    <2>1. /\ RunTyped /\ Positioned /\ StillTrue /\ FileResults /\ KeyTypeLast
          /\ config.id # 0 => config.exists
      BY <1>1 DEF VerifyInv, RunInv, SetupInv
    <2>2. Len(ver.todo) = 0
      BY <2>1, Stage
    <2>3. /\ config.id > 0 /\ config.sender > 0 => ver.file = config /\ \A c \in Queries : Has(c)
          /\ Says("S2", Verdict(config.id > 0, "FAIL")) /\ Says("E1", CheckSender(config))
      <3>1. Len(ver.todo) <= 4 /\ Len(ver.todo) <= 3
        BY <2>2
      <3> QED
        BY <2>1, <2>2, <3>1 DEF FileResults
    <2>4. \A c : Has(c) => ver.report[c] # "FAIL"
      BY DEF HasFailures, Shown, Has
    <2>5. config.id > 0
      BY <2>3, <2>4 DEF Says, Verdict
    <2>6. config.exists /\ config.sender > 0
      <3>1. config.exists
        BY <2>1, <2>5
      <3> QED
        BY <2>3, <2>4, <3>1 DEF Says, Verdict, CheckSender
    <2>7. ver.file = config /\ \A c \in Queries : Says(c, "PASS")
      BY <2>1, <2>3, <2>4, <2>5, <2>6 DEF StillTrue, Says
    <2>8. LET ext == extensions[config.id] IN
            /\ config.id \in ExtensionIds /\ ext.sender = config.sender /\ ext.evmType
            /\ ver.cmd.key \in ext.machineOwners
      BY <2>1, <2>7 DEF StillTrue, Queries
    <2> QED
      BY <2>1, <2>5, <2>6, <2>7, <2>8 DEF KeyTypeLast, Complete
  <1> QED
    BY <1>1, VerifyAlways, PTL

(* A sender reported to match and to be unique is bound, or can only ever be   *)
(* bound, to the extension in the file: ids registered after the counter was   *)
(* read are greater, and setExtensionId takes the first.                      *)
THEOREM UniqueIsBound == VerifySpec => []UniqueMeansBound
  <1>1. ASSUME VerifyInv PROVE UniqueMeansBound
    <2> SUFFICES ASSUME ver.pc = "exit", Passed("R2"), Passed("R7"), ver.answered
                 PROVE  /\ IsFirst(ver.file.id, ver.file.sender)
                        /\ cachedId[ver.file.sender] \in {0, ver.file.id}
      BY DEF UniqueMeansBound
    <2> DEFINE id == ver.file.id
               s == ver.file.sender
    <2>1. StillTrue /\ FirstIfUnique /\ SetupTypeOK /\ BoundToFirst /\ SetupInv
      BY <1>1 DEF VerifyInv, RunInv, SetupInv
    <2>2. Says("R2", "PASS") /\ Says("R7", "PASS")
      BY DEF Passed, Shown, Says, Has
    <2>3. IsFirst(id, s)
      BY <2>1, <2>2 DEF FirstIfUnique
    <2>4. s \in Senders
      BY <2>1, <2>2 DEF StillTrue, SetupTypeOK, Queries
    <2>5. cachedId[s] # 0 => IsFirst(cachedId[s], s)
      BY <2>1, <2>4 DEF BoundToFirst
    <2>6. Len(extensions) \in Nat
      BY <2>1, SetupFacts
    <2>7. ASSUME IsFirst(cachedId[s], s) PROVE cachedId[s] = id
      BY <2>3, <2>6, <2>7 DEF IsFirst, IdsOf, ExtensionIds
    <2> QED
      BY <2>3, <2>5, <2>7
  <1> QED
    BY <1>1, VerifyAlways, PTL

(* V2 and D5 of a complete report warn exactly if the deployment tools will    *)
(* sign with the dev key outside local mode, for every environment and .env.   *)
THEOREM KeyWarningsAreTruthful == VerifySpec => []KeyWarningsTruthful
  <1>1. ASSUME VerifyInv PROVE KeyWarningsTruthful
    <2> DEFINE env == Loaded(ver.cmd.process, ver.cmd.dotenv)
    <2> SUFFICES ASSUME ver.pc = "exit", ver.cmd.step = "all"
                 PROVE  /\ ver.report["V2"] = "WARN" <=> TeeVersionKey(env) = "dev" /\ ~LocalMode(env)
                        /\ ver.report["D5key"] = "WARN" <=> DefaultPrivateKey(env) = "dev" /\ ~LocalMode(env)
      BY DEF KeyWarningsTruthful
    <2>1. RunTyped /\ Positioned /\ KeyResults
      BY <1>1 DEF VerifyInv, RunInv
    <2>2. Len(ver.todo) = 0
      BY <2>1, Stage
    <2>3. Len(ver.todo) <= 5 /\ Len(ver.todo) <= 2
      BY <2>2
    <2>4. /\ ver.report["D5key"] = CheckDeployerKeySource(env)
          /\ ver.report["V2"] = CheckTeeVersionKey(env)
      BY <2>1, <2>3 DEF KeyResults, Says
    <2> HIDE DEF env
    <2> QED
      BY <2>4 DEF CheckDeployerKeySource, CheckTeeVersionKey, Verdict, TeeVersionKey, DefaultPrivateKey
  <1> QED
    BY <1>1, VerifyAlways, PTL

(* While verify-deploy runs the set-up keeps its types and its invariants too. *)
THEOREM SetupStaysSound == VerifySpec => [](SetupTypeOK /\ ConfigIsSetUp /\ BoundToFirst)
  <1>1. VerifyInv => SetupTypeOK /\ ConfigIsSetUp /\ BoundToFirst
    BY DEF VerifyInv, SetupInv
  <1> QED
    BY <1>1, VerifyAlways, PTL

=============================================================================
