------------------------ MODULE MCExtensionFramework ------------------------
(* Two instructions of run-test, a state read, a command that is a second      *)
(* greeting, is invalid or throws, after the handler table, and a mistyped one. *)
EXTENDS ExtensionFramework, TLC

Ask(path, typed, validFor, operation) ==
  [path |-> path, wellFormed |-> TRUE, typed |-> typed, validFor |-> validFor,
   operation |-> operation]

SayHello == <<"GREETING", "SAY_HELLO">>
SayGoodbye == <<"GREETING", "SAY_GOODBYE">>

MCRequest ==
  [hello1 |-> Ask("action", TRUE, {"hello"}, SayHello),
   goodbye1 |-> Ask("action", TRUE, {"goodbye"}, SayGoodbye),
   state1 |-> Ask("state", TRUE, {}, <<"", "">>),
   other1 |-> Ask("action", TRUE, {"hello"}, <<"OTHER", "COMMAND">>),
   mistyped1 |-> Ask("action", FALSE, {"hello"}, SayHello)]

\* The sample's handlers and a default that throws; a default that is pending and
\* one that greets; a default that reports progress and one that expects another
\* payload; the sample without its second handler.
MCTables ==
  {(SayHello :> "hello") @@ (SayGoodbye :> "goodbye") @@ (<<"OTHER", AnyCommand>> :> "boom"),
   (SayHello :> "hello") @@ (<<"GREETING", AnyCommand>> :> "pending")
     @@ (<<"OTHER", AnyCommand>> :> "hello"),
   (SayHello :> "hello") @@ (<<"GREETING", AnyCommand>> :> "progress")
     @@ (<<"OTHER", AnyCommand>> :> "goodbye"),
   (SayHello :> "hello")}
=============================================================================
