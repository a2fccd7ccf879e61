----------------------------- MODULE FuzzDriver -----------------------------
(***************************************************************************)
(* One harness fuzzed within its budget: drive and emitCrash of            *)
(* src/src/detection/libfuzzer-driver.ts, over ToolRun for every process   *)
(* they start and CrashReport for what it prints.                          *)
(*                                                                         *)
(* The engine is restarted until it finds nothing, the budget is spent, a  *)
(* cap is reached, or two runs in a row bring nothing new.  Each new crash *)
(* is replayed, minimized, and replayed again before its artifact is       *)
(* written to the target.  The clock moves when a tool's result is taken,  *)
(* by any time up to the tool's limit, or by all of it if it was killed.   *)
(***************************************************************************)
EXTENDS ToolRun, CrashReport

CONSTANTS
  Inputs,          \* byte strings a harness can be given
  Bugs,            \* what a harness can crash of
  Behaviour,       \* the bug each input crashes with, or Fine
  Fine,            \* not a bug
  Prints,          \* per engine and bug, what it may print when it crashes
  Failure,         \* per engine and bug, the kind and the stack of that crash
  NoInput,         \* not an input
  Flaky,           \* inputs that may crash with any bug, or not
  TopSeeds,        \* seeds directly in the corpus directory
  NestedSeeds,     \* seeds in directories of the corpus, which engines read too
  MaxRuns,         \* MAX_RUNS
  DryRunsBeforeStop,
  Budget,          \* job.timeBudgetMs, in units of the clock
  MinRun,          \* MIN_RUN_MS
  KillGrace,       \* KILL_GRACE_MS
  ReplayTime,      \* REPLAY_TIMEOUT_MS
  MinimizeTime     \* MINIMIZE_TIMEOUT_MS

ASSUME FuzzAssumption ==
  /\ Fine \notin Bugs /\ NoInput \notin Inputs
  /\ Behaviour \in [Inputs -> Bugs \cup {Fine}]
  /\ DOMAIN Prints = Engines /\ \A e \in Engines : DOMAIN Prints[e] = Bugs
  /\ Flaky \subseteq Inputs
  /\ TopSeeds \subseteq Inputs /\ NestedSeeds \subseteq Inputs \ TopSeeds
  /\ MaxRuns \in Nat \ {0} /\ DryRunsBeforeStop \in Nat \ {0}
  /\ {Budget, KillGrace, ReplayTime, MinimizeTime} \subseteq Nat /\ MinRun \in Nat \ {0}

VARIABLES
  engine,     \* the harness's
  reports,    \* of each bug, as that engine prints it: its signature, and whether
              \* the failure is told plainly
  elapsed,    \* the clock, since the start
  phase,      \* where drive stands
  runIndex,
  dry,        \* runsWithoutNewCrash
  seen,       \* seenSignatures
  findings,   \* signatures with a finding
  status,     \* the DetectorRun's status, once drive is done
  corpus,     \* the seeds the target has, as copied for this harness
  raw,        \* the crashing input at hand, and its report's signature
  signature,
  minimized,  \* what the minimizer wrote, if anything
  store,      \* the crash artifacts in the target: signature to <<min, raw>>
  replayed,   \* history: <<input, signature>> pairs seen to replay
  crashedOn,  \* history: how many runs crashed on each seed
  met         \* history: <<bug, report>> of the runs' crashes

crash_vars == <<raw, signature, minimized>>
drive_vars == <<runIndex, dry, seen, findings, status, corpus>>
history == <<replayed, crashedOn, met>>
vars == <<tool_vars, engine, reports, elapsed, phase, drive_vars, crash_vars, store, history>>

Seeds == TopSeeds \cup NestedSeeds
Crashing == {i \in Inputs : i \in Flaky \/ Behaviour[i] # Fine}

\* What a run's crash can be on: a seed that crashes ends the corpus replay.
CrashInputs ==
  IF \E i \in corpus : i \in Crashing \ Flaky THEN corpus \cap Crashing ELSE Crashing

\* The bugs a run on an input may come upon, and the signatures it is reported with.
BugsOf(i) == IF i \in Flaky THEN Bugs ELSE {Behaviour[i]} \ {Fine}
Reports(i) ==
  UNION {{report.signature : report \in reports[bug]} : bug \in BugsOf(i)}
    \cup (IF i \in Flaky \/ Behaviour[i] = Fine THEN {NoReport} ELSE {})

Init ==
  /\ ToolInit /\ phase = "loop" /\ elapsed = 0
  /\ engine \in Engines
  /\ reports = [bug \in Bugs |->
                  {[signature |-> ParseReport(engine, stderr),
                    plain |-> Tells(engine, stderr, Failure[engine][bug])] :
                      stderr \in Prints[engine][bug]}]
  /\ runIndex = 0 /\ dry = 0 /\ seen = {} /\ findings = {} /\ status = "none"
  /\ corpus \in SUBSET Seeds
  /\ raw = NoInput /\ signature = NoReport /\ minimized = NoInput
  /\ store = [s \in {} |-> <<NoInput, NoInput>>]
  /\ replayed = {} /\ crashedOn = [i \in Seeds |-> 0] /\ met = {}

-----------------------------------------------------------------------------
(* The clock                                                               *)

clock == <<engine, reports, elapsed>>

\* Mutant: every run gets the whole budget.
Limit_Whole ==
  CASE phase = "fuzzing"  -> Budget + KillGrace
    [] phase = "minimize" -> MinimizeTime
    [] OTHER              -> ReplayTime

\* timeoutMs of the tool at hand: a run gets what is left of the budget.
Limit ==
  CASE phase = "fuzzing"  -> Budget - elapsed + KillGrace
    [] phase = "minimize" -> MinimizeTime
    [] OTHER              -> ReplayTime

TakeInTime ==
  /\ TakeResult
  /\ elapsed' \in IF timedOut THEN {elapsed + Limit} ELSE elapsed .. elapsed + Limit
  /\ UNCHANGED <<engine, reports>>

-----------------------------------------------------------------------------
(* The loop                                                                *)

Finish == phase' = "done" /\ status' = "ok" /\ UNCHANGED findings

\* failed(): the run is an error, and what it had found goes with it.
Fail == phase' = "done" /\ status' = "error" /\ findings' = {}

\* Out of scope, or not runnable.
NotRun ==
  /\ phase = "loop" /\ runIndex = 0
  /\ Fail
  /\ UNCHANGED <<tool_vars, clock, runIndex, dry, seen, corpus, crash_vars, store, history>>

TimeLeft == elapsed + MinRun < Budget

LoopEnds ==
  /\ phase = "loop" /\ (~TimeLeft \/ runIndex = MaxRuns)
  /\ Finish
  /\ UNCHANGED <<tool_vars, clock, runIndex, dry, seen, corpus, crash_vars, store, history>>

StartRun ==
  /\ phase = "loop" /\ TimeLeft /\ runIndex < MaxRuns
  /\ StartTool
  /\ phase' = "fuzzing" /\ runIndex' = runIndex + 1
  /\ UNCHANGED <<clock, dry, seen, findings, status, corpus, crash_vars, store, history>>

RunCannotStart ==
  /\ phase = "fuzzing" /\ TakeInTime /\ SpawnError
  /\ Fail
  /\ UNCHANGED <<runIndex, dry, seen, corpus, crash_vars, store, history>>

RunFindsNothing ==
  /\ phase = "fuzzing" /\ TakeInTime /\ ~SpawnError /\ (timedOut \/ ExitZero)
  /\ Finish
  /\ UNCHANGED <<runIndex, dry, seen, corpus, crash_vars, store, history>>

RunCrashed == phase = "fuzzing" /\ TakeInTime /\ ~SpawnError /\ ~timedOut /\ ~ExitZero

\* It left no artifact, or a report nobody can read.
CrashUnreadable ==
  /\ RunCrashed
  /\ Fail
  /\ UNCHANGED <<runIndex, dry, seen, corpus, crash_vars, store, history>>

\* Mutant: the crashing seed stays in the corpus.
DropCorpusUnitMatching_Kept(i) == corpus

\* dropCorpusUnitMatching looks at the files of the directory, not below it.
DropCorpusUnitMatching(i) == corpus \ ({i} \cap TopSeeds)

\* A run crashed on an input, of a bug, and the report could be read.
Crashed(i, bug, report) ==
  /\ RunCrashed /\ i \in CrashInputs /\ report.signature # NoReport
  /\ corpus' = DropCorpusUnitMatching(i)
  /\ crashedOn' = IF i \in corpus THEN [crashedOn EXCEPT ![i] = @ + 1] ELSE crashedOn
  /\ met' = met \cup {<<bug, report>>}

\* Mutant: a known crash is not a dry run.
KnownCrash_Uncounted(i, bug, report) ==
  /\ Crashed(i, bug, report) /\ report.signature \in seen
  /\ phase' = "loop"
  /\ UNCHANGED <<runIndex, dry, seen, findings, status, crash_vars, store, replayed>>

KnownCrash(i, bug, report) ==
  /\ Crashed(i, bug, report) /\ report.signature \in seen
  /\ dry' = dry + 1
  /\ IF dry' >= DryRunsBeforeStop THEN Finish
     ELSE phase' = "loop" /\ UNCHANGED <<status, findings>>
  /\ UNCHANGED <<runIndex, seen, crash_vars, store, replayed>>

NewCrash(i, bug, report) ==
  /\ Crashed(i, bug, report) /\ report.signature \notin seen
  /\ seen' = seen \cup {report.signature} /\ dry' = 0
  /\ raw' = i /\ signature' = report.signature /\ minimized' = NoInput
  /\ phase' = "replay"
  /\ UNCHANGED <<runIndex, findings, status, store, replayed>>

-----------------------------------------------------------------------------
(* emitCrash                                                               *)

\* Each of its three tool runs; one that cannot start or hangs proves nothing.
StartEmitTool ==
  /\ phase \in {"replay", "minimize", "recheck"}
  /\ StartTool
  /\ UNCHANGED <<clock, phase, drive_vars, crash_vars, store, history>>

\* replaysWithSignature, of an input whose replay is over.
Replays(i, reported) ==
  ~timedOut /\ ~ExitZero /\ ~SpawnError /\ reported \in Reports(i) /\ reported = signature

Ship(artifact) ==
  /\ store' = [s \in DOMAIN store \cup {signature} |->
                 IF s = signature THEN <<artifact, raw>> ELSE store[s]]
  /\ findings' = findings \cup {signature}
  /\ phase' = "loop"

RawReplayed(reported) ==
  /\ phase = "replay" /\ TakeInTime
  /\ IF Replays(raw, reported)
     THEN phase' = "minimize" /\ replayed' = replayed \cup {<<raw, signature>>}
     ELSE phase' = "loop" /\ UNCHANGED replayed
  /\ UNCHANGED <<drive_vars, crash_vars, store, crashedOn, met>>

\* Mutant: a crash that cannot be minimized is dropped.
MinimizerWroteNothing_Dropped ==
  /\ phase = "minimize" /\ TakeInTime
  /\ phase' = "loop"
  /\ UNCHANGED <<drive_vars, crash_vars, store, history>>

MinimizerWroteNothing ==
  /\ phase = "minimize" /\ TakeInTime
  /\ Ship(raw)
  /\ UNCHANGED <<runIndex, dry, seen, status, corpus, crash_vars, history>>

MinimizerWrote(i) ==
  /\ phase = "minimize" /\ TakeInTime /\ ~timedOut /\ ~SpawnError
  /\ minimized' = i /\ phase' = "recheck"
  /\ UNCHANGED <<drive_vars, raw, signature, store, history>>

\* Mutant: the minimized input is trusted.
MinimizedReplayed_Trusted(reported) ==
  /\ phase = "recheck" /\ TakeInTime
  /\ Ship(minimized)
  /\ UNCHANGED <<runIndex, dry, seen, status, corpus, crash_vars, history>>

MinimizedReplayed(reported) ==
  /\ phase = "recheck" /\ TakeInTime
  /\ Ship(IF Replays(minimized, reported) THEN minimized ELSE raw)
  /\ replayed' = IF Replays(minimized, reported)
                 THEN replayed \cup {<<minimized, signature>>} ELSE replayed
  /\ UNCHANGED <<runIndex, dry, seen, status, corpus, crash_vars, crashedOn, met>>

-----------------------------------------------------------------------------
Drive ==
  \/ NotRun \/ LoopEnds \/ StartRun
  \/ RunCannotStart \/ RunFindsNothing \/ CrashUnreadable
  \/ \E i \in Inputs : \E bug \in BugsOf(i) : \E report \in reports[bug] :
       KnownCrash(i, bug, report) \/ NewCrash(i, bug, report)
  \/ StartEmitTool
  \/ \E reported \in {signature, NoReport} :
       RawReplayed(reported) \/ MinimizedReplayed(reported)
  \/ MinimizerWroteNothing
  \/ \E i \in Inputs : MinimizerWrote(i)

Waiting == UNCHANGED <<clock, phase, drive_vars, crash_vars, store, history>>
Tools == ToolStep /\ Waiting

Next == Drive \/ Tools

Spec == Init /\ [][Next]_vars

\* Timers and the ends of processes reach the event loop, and drive goes on;
\* a tool may hang, and its helpers too.
FairSpec ==
  Spec /\ WF_vars(Drive) /\ WF_vars(Deadline /\ Waiting) /\ WF_vars(ToolReturns /\ Waiting)

-----------------------------------------------------------------------------
(* Properties                                                              *)

\* An artifact in the target was seen to reproduce the very crash it is filed
\* under: a minimized input that reaches another bug is never shipped.
ShippedReproduces == \A s \in DOMAIN store : <<store[s][1], s>> \in replayed

\* A crash that replayed is reported, however its minimization went, unless the
\* whole run is reported as an error.
NothingProvenIsLost ==
  (phase = "done" /\ status = "ok") =>
    \A pair \in replayed : pair[2] \in findings /\ pair[2] \in DOMAIN store

\* libfuzzer-driver.ts:173, "A crashing seed would abort every later run during
\* corpus replay": no seed of the corpus directory itself ends two runs.  A
\* seed in a directory below it may: only the directory itself is looked through.
NoSeedCrashesTwice == \A i \in TopSeeds : crashedOn[i] <= 1

\* Restarts are paid for by new crashes: after each one, at most
\* DryRunsBeforeStop - 1 runs without news before the next, then one more.
RestartsAreEarned == runIndex <= Cardinality(seen) * DryRunsBeforeStop + 1

\* fuzz.ts:26, "Runs every configured harness within the fuzz budget": what runs
\* over it is the last engine's grace and one crash's replays and minimization,
\* however many crashes there were.
OverrunIsBounded == elapsed <= Budget + KillGrace + 2 * ReplayTime + MinimizeTime

\* What makes a bug that bug: its kind and its top frames.  Two with the same are one
\* here, "two distinct bugs in one function collapse together" (crash-report.ts:22).
WhatCrashed(bug) == SignatureOf(Failure[engine][bug].kind, Failure[engine][bug].stack)

\* crash-report.ts:18, "What makes this crash that crash": two crashes whose reports
\* tell their failure plainly have one signature just when what crashed is the same,
\* whatever stacks, lines and less believed names are printed besides.  A report is
\* not plain if frames come before the failure's stack, as where a harness logs an
\* error it caught: the parsers take the first frames they meet, and such a crash is
\* filed under those.
OneBugOneSignature ==
  \A p, q \in met :
    (p[2].plain /\ q[2].plain) =>
      (p[2].signature = q[2].signature <=> WhatCrashed(p[1]) = WhatCrashed(q[1]))

\* A harness that hangs, forks or crashes for ever is done with in the end.
DriveEnds == <>(phase = "done")

=============================================================================
