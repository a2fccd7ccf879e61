--------------------------- MODULE ReceiptProofs ---------------------------
(***************************************************************************)
(* Theorems of a round's evidence, for every set of files, every round cap *)
(* and any number of processes.  What an entry claims of the commit it     *)
(* names is proved of agents whose reports name every file they edited.    *)
(***************************************************************************)
EXTENDS Receipt, TLAPS

-----------------------------------------------------------------------------
(* Types, and what the outcome of a gate can mean                          *)

EntryRec == [closed : SUBSET File, sha : Nat, ran : BOOLEAN]

Typed ==
  /\ pc \in {"start", "detect", "fix", "build", "judge", "commit", "append"} \cup Ended
  /\ runs \in Nat /\ round \in Nat
  /\ work \subseteq File /\ index \subseteq File
  /\ commits \in Seq(SUBSET File)
  /\ binary \in Artifact /\ configured \in BOOLEAN
  /\ open \subseteq File /\ batch \subseteq File
  /\ report \subseteq File \cup {Ghost}
  /\ DOMAIN results \subseteq File /\ results \in [DOMAIN results -> VerifyOutcomes]
  /\ ledger \in Seq(EntryRec)

\* What a build leaves is an artifact, a finished one leaves the worktree's, and
\* without a build command everything stays as it was.
LEMMA LeavesArtifact ==
  ASSUME Typed, NEW r \in ToolResults, NEW b \in Leaves(r)
  PROVE  /\ b \in Artifact
         /\ b \in {BuiltFrom(work), binary, Absent}
         /\ Build(r) # "failed" /\ configured => b = BuiltFrom(work)
         /\ ~configured => b = binary /\ Build(r) # "failed"
<1>1. /\ configured => Build(r) \in {"ok", "failed"}
      /\ ~configured => Build(r) = "not-configured"
  BY DEF Build, BuildStatus
<1>2. /\ Build(r) = "not-configured" => b = binary
      /\ Build(r) = "ok" => b = BuiltFrom(work)
      /\ Build(r) = "failed" => b \in {BuiltFrom(work), binary, Absent}
  BY DEF Leaves
<1>3. BuiltFrom(work) \in Artifact /\ Absent \in Artifact /\ binary \in Artifact
  BY DEF Typed, Artifact, Absent, BuiltFrom
<1>4. configured \in BOOLEAN
  BY DEF Typed
<1> QED BY <1>1, <1>2, <1>3, <1>4

\* verify.ts: "closed" is never said of a defect that the artifact still has, if
\* the artifact runs.
LEMMA OutcomeMeans ==
  ASSUME NEW f
  PROVE  /\ Outcomes(f) \subseteq VerifyOutcomes
         /\ "closed" \in Outcomes(f) /\ binary.runs => f \in binary.fixed
<1>1. ASSUME NEW usable \in BOOLEAN, NEW r \in Replays(f, usable)
      PROVE  /\ VerifyOutcome(usable, r) \in VerifyOutcomes
             /\ VerifyOutcome(usable, r) = "closed" =>
                  usable /\ r.exit # NoExit /\ r.exit # 0
  BY <1>1 DEF VerifyOutcome, VerifyOutcomes
<1>2. ASSUME NEW o \in Outcomes(f)
      PROVE  \E usable \in BOOLEAN : \E r \in Replays(f, usable) : o = VerifyOutcome(usable, r)
  BY <1>2 DEF Outcomes
<1>3. ASSUME NEW usable \in BOOLEAN, NEW r \in Replays(f, usable),
             usable, r.exit # NoExit, r.exit # 0
      PROVE  ~(binary.runs /\ f \notin binary.fixed)
  BY <1>3 DEF Replays
<1>4. ASSUME "closed" \in Outcomes(f)
      PROVE  ~(binary.runs /\ f \notin binary.fixed)
  BY <1>1, <1>2, <1>3, <1>4
<1> QED BY <1>1, <1>2, <1>4

\* HEAD is a version of the target.
LEMMA HeadIsVersion ==
  ASSUME Typed
  PROVE  HeadTree \subseteq File
<1>1. CASE commits = <<>>
  BY <1>1 DEF HeadTree
<1>2. CASE commits # <<>>
  <2>1. Len(commits) \in 1..Len(commits)
    BY <1>2 DEF Typed
  <2>2. commits[Len(commits)] \in SUBSET File
    BY <2>1 DEF Typed
  <2> QED BY <1>2, <2>2 DEF HeadTree
<1> QED BY <1>1, <1>2

-----------------------------------------------------------------------------
(* The inductive invariant                                                 *)

\* The artifact that repros are replayed on is the worktree's, unless it is a source
\* that does not run, and what was judged closed is fixed there.
JudgedInv ==
  /\ ~configured => binary \in Unbuilt(work)
  /\ pc = "judge" /\ Ran => binary = BuiltFrom(work) \/ batch = {}
  /\ pc \in {"commit", "append"} =>
       /\ DOMAIN results = batch
       /\ Ran => \A f \in batch : results[f] = "closed" => f \in work

\* Fixes of the worktree that no commit will have: the index is without them
\* and the report of this round does not name them.
Strays == (work \ index) \ report

\* None of them is of a finding the loop knows of, and none can become one:
\* every artifact of this process has them.
StrayInv ==
  /\ pc = "start" => open = {} /\ batch = {} /\ report = {}
  /\ pc = "fix" => report = {}
  /\ pc \in {"append", "detect"} => work \cap report \subseteq index
  /\ pc \in {"detect", "fix", "build", "judge", "commit", "append"} =>
       /\ binary.runs => Strays \subseteq binary.fixed
       /\ batch \cap Strays = {}
       /\ open \cap Strays = {}

\* The index is what the last commit has, once a round has committed, and that
\* commit has the fixes the round is about to claim.
ReceiptInv ==
  /\ pc = "append" =>
       /\ commits # <<>> /\ index = HeadTree
       /\ Ran => \A f \in batch : results[f] = "closed" => f \in index
  /\ \A i \in 1..Len(ledger) : ledger[i].sha \in 1..Len(commits)

-----------------------------------------------------------------------------
(* Every step keeps the types                                              *)

\* What an unbuilt target runs is an artifact.
LEMMA UnbuiltAreArtifacts ==
  ASSUME NEW tree \in SUBSET File
  PROVE  Unbuilt(tree) \subseteq Artifact /\ Absent \in Artifact
BY DEF Unbuilt, BuiltFrom, Absent, Artifact

LEMMA TypedInit == Init => Typed
<1> SUFFICES ASSUME Init PROVE Typed OBVIOUS
<1>1. binary \in Artifact
  BY UnbuiltAreArtifacts DEF Init
<1> QED BY <1>1 DEF Init, Typed, Ended, VerifyOutcomes

\* An edit leaves a version of the target and something that is run.
LEMMA EditTyped ==
  ASSUME Typed, Edit
  PROVE  work' \subseteq File /\ binary' \in Artifact
<1>1. work' \subseteq File
  BY DEF Edit
<1> QED BY <1>1, UnbuiltAreArtifacts DEF Typed, Edit

LEMMA TypedStep ==
  ASSUME Typed, [Next]_vars
  PROVE  Typed'
<1> USE ReceiptAssumption
<1>1. CASE FirstBuild
  <2>1. binary' \in Artifact /\ pc' \in {"threw", "detect"}
    BY <1>1, LeavesArtifact DEF FirstBuild
  <2> QED BY <1>1, <2>1 DEF FirstBuild, Typed, Ended, git
<1>2. CASE Detect
  <2>1. batch' \subseteq File /\ pc' \in {"judge", "fix"}
    BY <1>2 DEF Detect, Typed
  <2> QED BY <1>2, <2>1 DEF Detect, Typed, Ended, git, target, VerifyOutcomes
<1>3. CASE Fix
  <2>1. report' \subseteq File \cup {Ghost}
    BY <1>3 DEF Fix, Reports
  <2>2. work' \subseteq File /\ binary' \in Artifact
    BY <1>3, EditTyped DEF Fix
  <2> QED BY <1>3, <2>1, <2>2 DEF Fix, Typed, Ended, git
<1>4. CASE FixThrows
  <2>1. work' \subseteq File /\ binary' \in Artifact
    BY <1>4, EditTyped DEF FixThrows
  <2> QED BY <1>4, <2>1 DEF FixThrows, Throw, Typed, Ended, git
<1>5. CASE Rebuild
  <2>1. binary' \in Artifact
    BY <1>5, LeavesArtifact DEF Rebuild
  <2>2. \/ pc' = "commit" /\ results' = [f \in batch |-> "inconclusive"]
        \/ pc' = "judge" /\ results' = results
    BY <1>5 DEF Rebuild
  <2> QED BY <1>5, <2>1, <2>2 DEF Rebuild, Typed, Ended, git, VerifyOutcomes
<1>6. CASE Judge
  <2>1. results' \in [batch -> VerifyOutcomes] /\ batch \subseteq File
    BY <1>6 DEF Judge, Typed
  <2> QED BY <1>6, <2>1 DEF Judge, Typed, Ended, git, target
<1>7. CASE Commit
  <2>1. Staged \subseteq File
    BY DEF Staged, Stage, Typed
  <2>2. index' \subseteq File /\ commits' \in Seq(SUBSET File)
    BY <1>7, <2>1 DEF Commit, Typed
  <2> QED BY <1>7, <2>2 DEF Commit, Typed, Ended, target
<1>8. CASE CommitFails
  <2>1. index' \subseteq File
    BY <1>8 DEF CommitFails, HalfStaged, Stage, Typed
  <2> QED BY <1>8, <2>1 DEF CommitFails, Throw, Typed, Ended, target
<1>9. CASE AppendEntry
  <2>1. Closed \subseteq File /\ Len(commits) \in Nat
    BY DEF Closed, Typed
  <2>2. ledger' \in Seq(EntryRec)
    <3>1. [closed |-> Closed, sha |-> Len(commits), ran |-> Ran] \in EntryRec
      BY <2>1 DEF EntryRec, Ran, Typed, Artifact
    <3> QED BY <1>9, <3>1 DEF AppendEntry, Typed
  <2>3. open' \subseteq File
    BY <1>9 DEF AppendEntry, Typed
  <2>4. round' \in Nat /\ pc' \in {"done", "detect"}
    BY <1>9 DEF AppendEntry, Typed
  <2> QED BY <1>9, <2>2, <2>3, <2>4 DEF AppendEntry, Typed, Ended, git, target
<1>10. CASE Crash
  <2>1. index' \subseteq File
    BY <1>10 DEF Crash, HalfStaged, Stage, Typed
  <2> QED BY <1>10, <2>1 DEF Crash, Typed, Ended, target
<1>11. CASE Resume
  BY <1>11 DEF Resume, Typed, Ended, git, target, VerifyOutcomes
<1>12. CASE UNCHANGED vars
  BY <1>12 DEF vars, Typed, Ended, git, target
<1> QED BY <1>1, <1>2, <1>3, <1>4, <1>5, <1>6, <1>7, <1>8, <1>9, <1>10, <1>11, <1>12 DEF Next

\* Every variable keeps to its type.
THEOREM EvidenceTyped == Spec => []Typed
<1> QED BY TypedInit, TypedStep, PTL DEF Spec

-----------------------------------------------------------------------------
(* What is closed is gone                                                  *)

LEMMA JudgedStep ==
  ASSUME Typed, JudgedInv, [Next]_vars
  PROVE  JudgedInv'
<1>0. ASSUME NEW r \in ToolResults, binary' \in Leaves(r), UNCHANGED <<work, configured>>
      PROVE  /\ (~configured => binary \in Unbuilt(work))'
             /\ Build(r) # "failed" /\ Ran' => binary' = BuiltFrom(work')
  BY <1>0, LeavesArtifact DEF JudgedInv, Unbuilt, Ran, Absent, BuiltFrom, Typed
<1>1. CASE Detect
  BY <1>1 DEF Detect, JudgedInv, target, Ran, Unbuilt, BuiltFrom
<1>2. CASE Rebuild
  <2> PICK r \in ToolResults :
           /\ binary' \in Leaves(r)
           /\ IF Build(r) = "failed"
              THEN pc' = "commit" /\ results' = [f \in batch |-> "inconclusive"]
              ELSE pc' = "judge" /\ UNCHANGED results
    BY <1>2 DEF Rebuild
  <2>1. CASE Build(r) = "failed"
    BY <1>0, <1>2, <2>1 DEF Rebuild, JudgedInv
  <2>2. CASE Build(r) # "failed"
    BY <1>0, <1>2, <2>2 DEF Rebuild, JudgedInv, BuiltFrom
  <2> QED BY <2>1, <2>2
<1>3. CASE Judge
  <2>1. /\ DOMAIN results' = batch
        /\ \A f \in batch : results'[f] \in Outcomes(f)
    BY <1>3 DEF Judge
  <2>2. ASSUME NEW f \in batch, results'[f] = "closed", Ran
        PROVE  f \in work
    <3>1. binary = BuiltFrom(work)
      BY <1>3, <2>2 DEF Judge, JudgedInv
    <3>2. binary.runs /\ binary.fixed = work
      BY <3>1 DEF BuiltFrom
    <3> QED BY <2>1, <2>2, <3>2, OutcomeMeans
  <2> QED BY <1>3, <2>1, <2>2 DEF Judge, JudgedInv, target, Ran, Unbuilt, BuiltFrom
<1>4. CASE Commit
  BY <1>4 DEF Commit, JudgedInv, target, Ran, Unbuilt, BuiltFrom
<1>5. CASE UNCHANGED vars
  BY <1>5 DEF vars, JudgedInv, target, Ran, Unbuilt, BuiltFrom
<1>6. CASE FirstBuild
  BY <1>0, <1>6 DEF FirstBuild, JudgedInv
<1>7. CASE Fix \/ FixThrows
  BY <1>7 DEF Fix, FixThrows, Edit, Throw, JudgedInv, Unbuilt, BuiltFrom
<1>8. CASE CommitFails \/ AppendEntry \/ Crash \/ Resume
  <2>1. pc' \in {"start", "detect"} \cup Ended /\ UNCHANGED target
    BY <1>8 DEF CommitFails, AppendEntry, Crash, Resume, Throw, Ended
  <2> QED BY <2>1 DEF JudgedInv, target, Unbuilt, BuiltFrom, Ended
<1> QED BY <1>1, <1>2, <1>3, <1>4, <1>5, <1>6, <1>7, <1>8 DEF Next

\* verify.ts and build.ts: a finding is closed only when the source that was built
\* and judged no longer has it, whatever the reports name, and of a target without a
\* build command while its source still runs.
THEOREM ClosedIsGone == Spec => []ClosedMeansGone
<1>1. Init => JudgedInv
  BY DEF Init, JudgedInv
<1>2. Typed /\ JudgedInv /\ [Next]_vars => JudgedInv'
  BY JudgedStep
<1>3. JudgedInv => ClosedMeansGone
  BY DEF JudgedInv, ClosedMeansGone
<1> QED BY <1>1, <1>2, <1>3, EvidenceTyped, PTL DEF Spec

-----------------------------------------------------------------------------
(* What an entry claims is in the commit it names                          *)

\* A report that names every edited file leaves no new stray behind an edit.
LEMMA EditsAreNamed ==
  ASSUME NamesEveryEdit, Fix, report = {}
  PROVE  Strays' \subseteq Strays
<1>1. Differ(work, work') \subseteq report' /\ index' = index
  BY DEF Fix, Reports, git
<1> QED BY <1>1 DEF Strays, Differ

LEMMA StrayStep ==
  ASSUME NamesEveryEdit, Typed, JudgedInv, StrayInv, [Next]_vars
  PROVE  StrayInv'
<1>1. CASE FirstBuild
  <2>1. pc = "start" /\ index' = index /\ report' = report /\ batch' = batch
        /\ open' = open /\ work' = work
    BY <1>1 DEF FirstBuild, git
  <2>2. pc' = "detect" /\ binary'.runs => binary' = BuiltFrom(work)
    BY <1>1, LeavesArtifact DEF FirstBuild, JudgedInv, Unbuilt, Absent, Typed
  <2>3. pc' = "detect" => open = {} /\ batch = {} /\ report = {}
    BY <1>1 DEF FirstBuild, StrayInv
  <2>4. pc' = "detect" => /\ binary'.runs => Strays' \subseteq binary'.fixed
                          /\ work' \cap report' \subseteq index'
                          /\ open' \cap Strays' = {} /\ batch' \cap Strays' = {}
    BY <2>1, <2>2, <2>3 DEF Strays, BuiltFrom
  <2>5. pc' \in {"detect", "threw"}
    BY <1>1 DEF FirstBuild
  <2> QED BY <2>4, <2>5 DEF StrayInv
<1>2. CASE Detect
  <2>1. Strays' = Strays
    BY <1>2 DEF Detect, Strays, StrayInv, target, git
  <2> QED BY <1>2, <2>1 DEF Detect, StrayInv, target, git
<1>3. CASE Fix
  <2>1. Strays' \subseteq Strays
    BY <1>3, EditsAreNamed DEF Fix, StrayInv
  <2>2. binary' = binary \/ binary' \in Unbuilt(work')
    BY <1>3 DEF Fix, Edit
  <2>3. binary'.runs => Strays' \subseteq binary'.fixed
    BY <1>3, <2>1, <2>2 DEF Fix, StrayInv, Unbuilt, BuiltFrom, Absent, Strays
  <2> QED BY <1>3, <2>1, <2>3 DEF Fix, StrayInv
<1>4. CASE Rebuild
  <2>1. binary' \in {BuiltFrom(work), binary, Absent} /\ Strays' = Strays
    BY <1>4, LeavesArtifact DEF Rebuild, Strays, git
  <2>2. binary'.runs => Strays' \subseteq binary'.fixed
    BY <1>4, <2>1 DEF Rebuild, StrayInv, BuiltFrom, Absent, Strays
  <2> QED BY <1>4, <2>1, <2>2 DEF Rebuild, StrayInv
<1>5. CASE Judge
  BY <1>5 DEF Judge, StrayInv, Strays, target, git
<1>6. CASE Commit
  <2>1. Strays' = Strays /\ work \cap report \subseteq index'
    BY <1>6 DEF Commit, Strays, Staged, Stage, target
  <2> QED BY <1>6, <2>1 DEF Commit, StrayInv, target
<1>7. CASE AppendEntry
  <2>1. Strays' = Strays /\ open' \subseteq batch
    BY <1>7 DEF AppendEntry, Strays, target, git
  <2> QED BY <1>7, <2>1 DEF AppendEntry, StrayInv, target, git
<1>8. CASE UNCHANGED vars
  BY <1>8 DEF vars, StrayInv, Strays, target, git
<1>9. CASE Resume \/ pc' \in Ended
  BY <1>9 DEF StrayInv, Resume, Ended
<1>10. \/ FirstBuild \/ Detect \/ Fix \/ Rebuild \/ Judge \/ Commit \/ AppendEntry
       \/ UNCHANGED vars \/ Resume \/ pc' \in Ended
  BY DEF Next, FixThrows, CommitFails, Crash, Throw, Ended
<1> QED BY <1>1, <1>2, <1>3, <1>4, <1>5, <1>6, <1>7, <1>8, <1>9, <1>10

LEMMA ReceiptStep ==
  ASSUME Typed, JudgedInv, StrayInv, ReceiptInv, [Next]_vars
  PROVE  ReceiptInv'
<1>1. CASE Commit
  <2>1. commits' = Append(commits, Staged) /\ commits \in Seq(SUBSET File)
    BY <1>1 DEF Commit, Typed
  <2>2. Len(commits') = Len(commits) + 1 /\ commits'[Len(commits')] = Staged
    BY <2>1
  <2>3. commits' # <<>> /\ index' = HeadTree'
    BY <1>1, <2>1, <2>2 DEF Commit, HeadTree
  <2>4. Ran => \A f \in batch : results[f] = "closed" => f \in Staged
    BY <1>1 DEF Commit, JudgedInv, StrayInv, Strays, Staged, Stage
  <2>5. \A i \in 1..Len(ledger) : ledger[i].sha \in 1..Len(commits')
    <3>1. Len(commits) \in Nat
      BY <2>1
    <3> QED BY <2>2, <3>1 DEF ReceiptInv
  <2> QED BY <1>1, <2>3, <2>4, <2>5 DEF Commit, ReceiptInv, target, Ran
<1>2. CASE AppendEntry
  <2> DEFINE entry == [closed |-> Closed, sha |-> Len(commits), ran |-> Ran]
  <2>1. ledger' = Append(ledger, entry) /\ ledger \in Seq(EntryRec) /\ commits' = commits
    BY <1>2 DEF AppendEntry, Typed, git
  <2>2. Len(commits) \in 1..Len(commits)
    BY <1>2 DEF AppendEntry, ReceiptInv, Typed
  <2>3. ASSUME NEW i \in 1..Len(ledger')
        PROVE  ledger'[i].sha \in 1..Len(commits')
    <3>1. CASE i \in 1..Len(ledger)
      BY <2>1, <3>1 DEF ReceiptInv
    <3>2. CASE i = Len(ledger) + 1
      BY <2>1, <2>2, <3>2
    <3> QED BY <2>1, <3>1, <3>2
  <2>4. pc' # "append"
    BY <1>2 DEF AppendEntry
  <2> QED BY <2>3, <2>4 DEF ReceiptInv
<1>3. CASE UNCHANGED vars
  BY <1>3 DEF vars, ReceiptInv, HeadTree, git, target, Ran
<1>4. CASE pc' # "append" /\ commits' = commits /\ ledger' = ledger
  BY <1>4 DEF ReceiptInv
<1>5. \/ Commit \/ AppendEntry \/ UNCHANGED vars
      \/ pc' # "append" /\ commits' = commits /\ ledger' = ledger
  BY DEF Next, FirstBuild, Detect, Fix, FixThrows, Rebuild, Judge, CommitFails, Crash,
         Resume, Throw, git
<1> QED BY <1>1, <1>2, <1>3, <1>4, <1>5

LEMMA ClosuresStep ==
  ASSUME Typed, ReceiptInv, ClosuresAreInTheirCommit, [Next]_vars
  PROVE  ClosuresAreInTheirCommit'
<1>1. CASE Commit
  <2>1. \A n \in 1..Len(commits) : commits'[n] = commits[n]
    BY <1>1 DEF Commit, Typed
  <2>2. ledger' = ledger
    BY <1>1 DEF Commit
  <2> QED BY <2>1, <2>2 DEF ClosuresAreInTheirCommit, ReceiptInv
<1>2. CASE AppendEntry
  <2> DEFINE entry == [closed |-> Closed, sha |-> Len(commits), ran |-> Ran]
  <2>1. ledger' = Append(ledger, entry) /\ ledger \in Seq(EntryRec) /\ commits' = commits
    BY <1>2 DEF AppendEntry, Typed, git
  <2>2. Ran => Closed \subseteq commits[Len(commits)]
    BY <1>2 DEF AppendEntry, ReceiptInv, Closed, HeadTree
  <2>3. ASSUME NEW i \in 1..Len(ledger')
        PROVE  ledger'[i].ran => ledger'[i].closed \subseteq commits'[ledger'[i].sha]
    <3>1. CASE i \in 1..Len(ledger)
      BY <2>1, <3>1 DEF ClosuresAreInTheirCommit
    <3>2. CASE i = Len(ledger) + 1
      BY <2>1, <2>2, <3>2
    <3> QED BY <2>1, <3>1, <3>2
  <2> QED BY <2>3 DEF ClosuresAreInTheirCommit
<1>3. CASE UNCHANGED <<commits, ledger>>
  BY <1>3 DEF ClosuresAreInTheirCommit
<1>4. Commit \/ AppendEntry \/ UNCHANGED <<commits, ledger>>
  BY DEF Next, FirstBuild, Detect, Fix, FixThrows, Rebuild, Judge, CommitFails, Crash,
         Resume, vars, git
<1> QED BY <1>1, <1>2, <1>3, <1>4

\* git.ts:60-61: of agents whose reports name every file they edited, what an entry
\* says is closed is fixed in the commit the entry names, if what was judged ran.
THEOREM ClosuresHaveTheirCommit ==
  ASSUME NamesEveryEdit
  PROVE  Spec => []ClosuresAreInTheirCommit
<1>1. Init => StrayInv /\ ReceiptInv /\ JudgedInv /\ ClosuresAreInTheirCommit
  BY DEF Init, StrayInv, ReceiptInv, JudgedInv, ClosuresAreInTheirCommit, Unbuilt, Ended
<1>2. Typed /\ JudgedInv /\ StrayInv /\ [Next]_vars => StrayInv'
  BY StrayStep
<1>3. Typed /\ JudgedInv /\ StrayInv /\ ReceiptInv /\ [Next]_vars => ReceiptInv'
  BY ReceiptStep
<1>4. Typed /\ ReceiptInv /\ ClosuresAreInTheirCommit /\ [Next]_vars
        => ClosuresAreInTheirCommit'
  BY ClosuresStep
<1>5. Typed /\ JudgedInv /\ [Next]_vars => JudgedInv'
  BY JudgedStep
<1> QED BY <1>1, <1>2, <1>3, <1>4, <1>5, EvidenceTyped, PTL DEF Spec

=============================================================================
