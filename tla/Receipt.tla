------------------------------ MODULE Receipt ------------------------------
(***************************************************************************)
(* A round's evidence against the target it is about: the fix turn's edits *)
(* to the worktree, the rebuilt artifact, the repros that are replayed     *)
(* against it, and the git commit that the ledger entry names              *)
(* (src/src/broker/git.ts, src/src/gates, and the second half of a round   *)
(* of runLoop).  Broker has the loop's control; this module has what the   *)
(* loop's verdicts are worth.                                              *)
(*                                                                         *)
(* Each file of the target holds one defect, and the finding bears the     *)
(* file's name.  A version of the target is the set of its fixed files.    *)
(* Repros are faithful: against an artifact that runs they exit 0 exactly  *)
(* when it has the defect.                                                 *)
(***************************************************************************)
EXTENDS Integers, Sequences, FiniteSets, Gates

CONSTANTS
  File,           \* files of the target, and the findings in them
  Ghost,          \* a path that names no file
  NamesEveryEdit, \* a fix report names at least the files that were edited
  IterationCap,   \* config.loop.iterationCap
  MaxRuns         \* bound: processes started on one ledger

ASSUME ReceiptAssumption ==
  /\ Ghost \notin File
  /\ NamesEveryEdit \in BOOLEAN
  /\ IterationCap \in Nat \ {0} /\ MaxRuns \in Nat \ {0}

VARIABLES
  pc,       \* the step about to run, or how the process ended
  runs,     \* processes started so far
  round,    \* the round in progress
  work,     \* fixed files of the worktree
  index,    \* fixed files of git's index
  commits,  \* the versions the broker committed, oldest first
  binary,   \* the built artifact: whether it runs, and what is fixed in it
  configured,  \* config.target.buildCommand is set
  open,     \* findings carried from the last round
  batch,    \* findings of this round
  report,   \* paths the fix report says were changed
  results,  \* verifyResults
  ledger    \* what each entry says was closed, by which commit, and, as history,
            \* whether what its repros were replayed on ran at all

target == <<work, binary, configured>>
git == <<index, commits>>
vars == <<pc, runs, round, target, git, open, batch, report, results, ledger>>

Artifact == [runs : BOOLEAN, fixed : SUBSET File]
Absent == [runs |-> FALSE, fixed |-> {}]
BuiltFrom(tree) == [runs |-> TRUE, fixed |-> tree]

\* The files in which two versions of the target differ.
Differ(a, b) == (a \cup b) \ (a \cap b)

\* The version at HEAD.  Nothing is fixed in the one the run starts from,
\* whatever uncommitted edits the worktree holds.
HeadTree == IF commits = <<>> THEN {} ELSE commits[Len(commits)]

Ended == {"done", "threw", "down"}
Running == pc \notin Ended

\* A target without a build command runs its source, which an edit may break.
Unbuilt(tree) == {BuiltFrom(tree), Absent}

Init ==
  /\ pc = "start" /\ runs = 1 /\ round = 0 /\ configured \in BOOLEAN
  /\ work \in SUBSET File /\ index = {} /\ commits = <<>>
  /\ binary \in IF configured THEN {Absent} ELSE Unbuilt(work)
  /\ open = {} /\ batch = {} /\ report = {} /\ results = [f \in {} |-> f]
  /\ ledger = <<>>

Throw == pc' = "threw"

-----------------------------------------------------------------------------
(* The build and the findings of a round                                   *)

Build(r) == BuildStatus(configured, r)

\* What a build command leaves behind: a finished one the artifact of the
\* worktree, one that failed that, the previous artifact, or none.
Leaves(r) ==
  CASE Build(r) = "not-configured" -> {binary}
    [] Build(r) = "ok" -> {BuiltFrom(work)}
    [] Build(r) = "failed" -> {BuiltFrom(work), binary, Absent}

FirstBuild ==
  /\ pc = "start"
  /\ \E r \in ToolResults :
       /\ binary' \in Leaves(r)
       /\ pc' = IF Build(r) = "failed" THEN "threw" ELSE "detect"
  /\ round' = Len(ledger) + 1
  /\ UNCHANGED <<runs, work, configured, git, open, batch, report, results, ledger>>

\* The carried findings, and what the detectors can find in an artifact.
Detect ==
  /\ pc = "detect"
  /\ \E found \in SUBSET (IF binary.runs THEN File \ binary.fixed ELSE {}) :
       batch' = open \cup found
  /\ pc' = IF batch' = {} THEN "judge" ELSE "fix"
  /\ report' = {} /\ results' = [f \in {} |-> f]
  /\ UNCHANGED <<runs, round, target, git, open, ledger>>

-----------------------------------------------------------------------------
(* The fix turn                                                            *)

Reports(edited) ==
  {named \in SUBSET (File \cup {Ghost}) : NamesEveryEdit => edited \subseteq named}

\* The turn edits files, and with them what an unbuilt target runs.
Edit ==
  /\ work' \in SUBSET File
  /\ binary' \in IF configured THEN {binary} ELSE Unbuilt(work')

Fix ==
  /\ pc = "fix"
  /\ Edit
  /\ report' \in Reports(Differ(work, work'))
  /\ pc' = "build"
  /\ UNCHANGED <<runs, round, configured, git, open, batch, results, ledger>>

\* The turn dies after it has edited some files.
FixThrows ==
  /\ pc = "fix"
  /\ Edit
  /\ Throw
  /\ UNCHANGED <<runs, round, configured, git, open, batch, report, results, ledger>>

-----------------------------------------------------------------------------
(* The gates                                                               *)

\* Mutant: the repros are replayed whatever became of the build.
Rebuild_Unread ==
  /\ pc = "build"
  /\ \E r \in ToolResults : binary' \in Leaves(r)
  /\ pc' = "judge"
  /\ UNCHANGED <<runs, round, work, configured, git, open, batch, report, results,
                 ledger>>

\* A failed rebuild leaves nothing judgeable: every result is inconclusive.
Rebuild ==
  /\ pc = "build"
  /\ \E r \in ToolResults :
       /\ binary' \in Leaves(r)
       /\ IF Build(r) = "failed"
          THEN pc' = "commit" /\ results' = [f \in batch |-> "inconclusive"]
          ELSE pc' = "judge" /\ UNCHANGED results
  /\ UNCHANGED <<runs, round, work, configured, git, open, batch, report, ledger>>

\* How the replay of a finding can end.  Without its artifact, and without a
\* binary to replay it on, a repro exits non-zero for the wrong reason.
Replays(f, artifactUsable) ==
  LET reproduces == artifactUsable /\ binary.runs /\ f \notin binary.fixed
  IN  {r \in ToolResults : r.exit # NoExit => (r.exit = 0 <=> reproduces)}

Outcomes(f) ==
  UNION {{VerifyOutcome(usable, r) : r \in Replays(f, usable)} : usable \in BOOLEAN}

Judge ==
  /\ pc = "judge"
  /\ results' \in {o \in [batch -> VerifyOutcomes] : \A f \in batch : o[f] \in Outcomes(f)}
  /\ pc' = "commit"
  /\ UNCHANGED <<runs, round, target, git, open, batch, report, ledger>>

-----------------------------------------------------------------------------
(* The commit and the entry                                                *)

\* git add of the named paths, one by one.
Stage(named) == (index \ named) \cup (work \cap named)

Staged == Stage(report)

\* git commit takes the whole index, whoever staged it.
Commit ==
  /\ pc = "commit" /\ Ghost \notin report
  /\ index' = Staged
  /\ commits' = Append(commits, Staged)
  /\ pc' = "append"
  /\ UNCHANGED <<runs, round, target, open, batch, report, results, ledger>>

\* The index when some of the named paths have been added.
HalfStaged == {Stage(named) : named \in SUBSET (report \ {Ghost})}

\* git add fails, on a path that is not there for one, after it has staged those
\* that sort before it; or git commit itself fails.
CommitFails ==
  /\ pc = "commit"
  /\ index' \in HalfStaged
  /\ Throw
  /\ UNCHANGED <<runs, round, target, commits, open, batch, report, results, ledger>>

\* Mutant: only a repro seen to survive leaves its finding open.
Closed_NotSurvived == {f \in batch : results[f] # "survived"}

Closed == {f \in batch : results[f] = "closed"}

\* Whether the repros of the round were replayed on something that runs.
Ran == configured \/ binary.runs

LastRound == round = IterationCap

AppendEntry ==
  /\ pc = "append"
  /\ ledger' = Append(ledger, [closed |-> Closed, sha |-> Len(commits), ran |-> Ran])
  /\ open' = batch \ Closed
  /\ IF open' = {} \/ LastRound
     THEN pc' = "done" /\ UNCHANGED round
     ELSE pc' = "detect" /\ round' = round + 1
  /\ UNCHANGED <<runs, target, git, batch, report, results>>

-----------------------------------------------------------------------------
Crash ==
  /\ Running
  /\ pc' = "down"
  /\ index' \in IF pc = "commit" THEN HalfStaged ELSE {index}
  /\ UNCHANGED <<runs, round, target, commits, open, batch, report, results, ledger>>

\* A resumed run: the repository and the ledger are what the last one left.
Resume ==
  /\ ~Running /\ runs < MaxRuns /\ Len(ledger) < IterationCap
  /\ pc' = "start" /\ runs' = runs + 1
  /\ open' = {} /\ batch' = {} /\ report' = {} /\ results' = [f \in {} |-> f]
  /\ UNCHANGED <<round, target, git, ledger>>

Next ==
  \/ FirstBuild \/ Detect
  \/ Fix \/ FixThrows
  \/ Rebuild \/ Judge
  \/ Commit \/ CommitFails
  \/ AppendEntry
  \/ Crash \/ Resume

Spec == Init /\ [][Next]_vars

-----------------------------------------------------------------------------
\* verify.ts and build.ts: a finding is closed only when the source that was built
\* and judged no longer has it.  A broken build, a missing artifact, a killed or
\* late repro never reads as a fix, although each exits like one.  Without a build
\* command nothing tells a source that no longer runs from a fixed one, which
\* installation.md:159 says: "a fix that doesn't compile reads as a pass".
ClosedMeansGone ==
  pc \in {"commit", "append"} /\ Ran =>
    \A f \in DOMAIN results : results[f] = "closed" => f \in work

\* git.ts:60-61: an edit the report does not name "does not reach the commit, so
\* the finding it was meant to close stays open": what an entry says is closed is
\* fixed in the commit the entry names, whatever an earlier run's throw or crash
\* left in the index, if what was judged ran.
ClosuresAreInTheirCommit ==
  \A i \in 1..Len(ledger) :
    ledger[i].ran => ledger[i].closed \subseteq commits[ledger[i].sha]

=============================================================================
