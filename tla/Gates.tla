------------------------------- MODULE Gates -------------------------------
(***************************************************************************)
(* What the gates of src/src/gates conclude from the commands they run.    *)
(* A command's run (src/src/detection/exec.ts, runTool) is reduced to the  *)
(* three fields the gates read.  An exit of NoExit is the code's null: the *)
(* process was killed, or never started.  A deadline that fires while a    *)
(* child still holds the pipes leaves both timedOut and an exit status.    *)
(***************************************************************************)
EXTENDS Integers, FiniteSets

NoExit == -1

ToolResult == [timedOut : BOOLEAN, spawned : BOOLEAN, exit : {NoExit, 0, 1}]

\* The results runTool can return: a process that never started has no exit
\* status, and is told from a killed one by not having timed out.
ToolResults ==
  {r \in ToolResult : ~r.spawned => (r.exit = NoExit /\ ~r.timedOut)}

VerifyOutcomes == {"survived", "closed", "inconclusive"}

\* verifyOne: exit 0 reproduces the finding, any other status closes it, and a
\* repro that could not be run to completion says nothing.
VerifyOutcome(artifactUsable, r) ==
  IF ~artifactUsable \/ r.timedOut \/ ~r.spawned \/ r.exit = NoExit
  THEN "inconclusive"
  ELSE IF r.exit = 0 THEN "survived" ELSE "closed"

\* runBuild: "not-configured" when there is no build command.
BuildStatus(configured, r) ==
  IF ~configured THEN "not-configured"
  ELSE IF r.timedOut \/ r.exit # 0 THEN "failed" ELSE "ok"

\* runTests: the exit status alone decides, and so a run that exits 0 after its deadline
\* passes, although test-gate.ts:23 has "A run that could not finish is a failure".
TestStatuses == {"pass", "fail"}

TestStatus(r) == IF r.exit = 0 THEN "pass" ELSE "fail"

\* verdict in the test gate: only a suite that passed at baseline can regress.
Regressed(baseline, status) == status # "pass" /\ baseline = "pass"

\* refuzzCrossCheck: what the fuzzers found, less what is still open.
RefuzzNews(found, openIds) == found \ openIds

=============================================================================
