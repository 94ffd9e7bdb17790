-------------------------- MODULE MCTeeRegistration --------------------------
(* Command lines that a .cfg cannot write down.                               *)
EXTENDS TeeRegistration

rRap == {"r", "R", "a", "p"}
rap == {"r", "a", "p"}

Command(steps, resumes) == [command : {steps}, resume : resumes]

\* What scripts/post-build.sh runs, and the same with -resume.
OneCommand == Command(rRap, BOOLEAN)
FreshOnly == Command(rRap, {FALSE}) \cup Command(rap, {FALSE})
ResumeOnly == Command(rRap, {TRUE})
SingleSteps == UNION {Command({step}, {FALSE}) : step \in Steps}
AllCommands == FreshOnly \cup OneCommand \cup SingleSteps
=============================================================================
