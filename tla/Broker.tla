------------------------------- MODULE Broker -------------------------------
(***************************************************************************)
(* The broker's repair loop: runLoop of src/src/broker/state-machine.ts.   *)
(*                                                                         *)
(* A run goes round by round: detect, let an optional hunt add candidates, *)
(* confirm the candidates, analyse the crashes, have a batch fixed,        *)
(* rebuild, re-run every repro, run the target's tests, cross-check the    *)
(* patched build, commit, and append one entry to the ledger.  One action  *)
(* is one phase of the code between two points where an abort, a throw or  *)
(* a crash of the process can be told apart; a loop over findings is one   *)
(* action per finding where an agent turn or a repro is run for each.      *)
(*                                                                         *)
(* Lists of findings are maps from a finding's id to what the loop can     *)
(* change of it; their order, which decides nothing, is left out.  What    *)
(* detectors report, what agents answer and how a repro ends are chosen by *)
(* the environment.                                                        *)
(***************************************************************************)
EXTENDS Integers, Sequences, FiniteSets, Gates

CONSTANTS
  Crashes,           \* ids the fuzzers can report
  Leads,             \* ids the scanners can report
  Hunts,             \* ids a cold hunt can raise
  DetectorSeverity,  \* the severity a detector gives each of its ids
  AgentSeverities,   \* the severities an agent may answer with
  Bar,               \* config.loop.severityBar
  IterationCap,      \* config.loop.iterationCap
  DismissalLife,     \* rounds a carried dismissal is worth (5 in the code)
  ColdHunt,          \* config.supplemental.coldHunt
  Planner,           \* config.supplemental.planner
  Rescan,            \* the detector runner has a rescan
  DryRun,            \* options.dryRun
  Abortable,         \* a caller passed options.signal
  MaxRuns            \* bound: processes started on one ledger

Finding == Crashes \cup Leads \cup Hunts
Severity == 0..4      \* info, low, medium, high, critical

ASSUME BrokerAssumption ==
  /\ Crashes \cap Leads = {} /\ Crashes \cap Hunts = {} /\ Leads \cap Hunts = {}
  /\ DetectorSeverity \in [Crashes \cup Leads -> Severity]
  /\ AgentSeverities \subseteq Severity
  /\ Bar \in Severity
  /\ IterationCap \in Nat \ {0}
  /\ DismissalLife \in Nat \ {0}
  /\ {ColdHunt, Planner, Rescan, DryRun, Abortable} \subseteq BOOLEAN
  /\ MaxRuns \in Nat \ {0}

VARIABLES
  pc,          \* the phase about to run, or how the process ended
  round,       \* the for loop's counter
  aborted,     \* options.signal.aborted
  reason,      \* the termination reason, "none" until finish
  baseline,    \* status of the test run before the first round
  inherited,   \* entries in the ledger when the process started
  runs,        \* processes started so far
  open,        \* findings carried to the next round
  working,     \* this round's findings, within the bar once triage starts
  todo,        \* working findings the confirm loop has yet to reach
  dropped,     \* this round's candidate-verdict events with confirmed: false
  batch,       \* confirmed, then batchFindings once they are analysed
  analyzed,    \* analyzedCrashes
  remembered,  \* the verdicts earlier rounds reached
  results,     \* verifyResults
  tests,       \* status of this round's test gate
  reopened,    \* what the cross-check brings to the next round
  ledger,      \* the ledger file
  commits,     \* rounds of the commits the broker has made, oldest first
  judged,      \* history: last round an agent turn answered about an id
  shown        \* history: ids whose current repro the broker saw reproduce

round_vars == <<working, todo, dropped, batch, results, tests, reopened>>
run_vars == <<open, analyzed, remembered, judged, shown>>
process_vars == <<runs, inherited, baseline, aborted>>
durable == <<ledger, commits>>
vars == <<pc, round, reason, process_vars, run_vars, round_vars, durable>>

-----------------------------------------------------------------------------
(* Findings                                                                *)

FindingRec == [state : {"candidate", "confirmed"}, severity : Severity,
               repro : {"detector", "model", "placeholder"}]

Nothing == [f \in {} |-> f]

With(m, f, v) == [g \in DOMAIN m \cup {f} |-> IF g = f THEN v ELSE m[g]]

Merge(preferred, others) ==
  [f \in DOMAIN preferred \cup DOMAIN others |->
     IF f \in DOMAIN preferred THEN preferred[f] ELSE others[f]]

Only(m, S) == [f \in DOMAIN m \cap S |-> m[f]]

WithinBar(m) == Only(m, {f \in DOMAIN m : m[f].severity >= Bar})

\* A fuzzer's finding arrives confirmed, a scanner's is a candidate.
Reported(ids) ==
  [f \in ids |-> [state |-> IF f \in Crashes THEN "confirmed" ELSE "candidate",
                  severity |-> DetectorSeverity[f], repro |-> "detector"]]

Raised(severityOf) ==
  [f \in DOMAIN severityOf |->
     [state |-> "candidate", severity |-> severityOf[f], repro |-> "placeholder"]]

\* Mutant: only a repro seen to survive keeps its finding open.
Unresolved_SurvivedOnly == {f \in DOMAIN batch : results[f] = "survived"}

Unresolved == {f \in DOMAIN batch : results[f] # "closed"}
Patched == batch # Nothing

NextRound == Len(ledger) + 1

-----------------------------------------------------------------------------
(* Starting, stopping and the points where an abort is noticed             *)

Ended == {"done", "threw", "down"}
Running == pc \notin Ended

ForgetRound ==
  /\ working' = Nothing /\ todo' = {} /\ dropped' = Nothing /\ batch' = Nothing
  /\ results' = Nothing /\ tests' = "none" /\ reopened' = Nothing

ForgetRun ==
  /\ open' = Nothing /\ analyzed' = {} /\ remembered' = Nothing
  /\ judged' = [f \in Finding |-> 0] /\ shown' = {}

Init ==
  /\ pc = "start" /\ round = 0 /\ aborted = FALSE /\ reason = "none"
  /\ baseline = "none" /\ inherited = 0 /\ runs = 1
  /\ open = Nothing /\ analyzed = {} /\ remembered = Nothing
  /\ judged = [f \in Finding |-> 0] /\ shown = {}
  /\ working = Nothing /\ todo = {} /\ dropped = Nothing /\ batch = Nothing
  /\ results = Nothing /\ tests = "none" /\ reopened = Nothing
  /\ ledger = <<>> /\ commits = <<>>

Stop(why) == pc' = "done" /\ reason' = why
Goto(phase) == pc' = phase /\ UNCHANGED reason

\* throwIfAborted, then on to the next phase.
Boundary(phase) == IF aborted THEN Stop("aborted") ELSE Goto(phase)

\* The setup before the loop.  A resumed run takes only the round number from
\* the ledger: the loop that would seed "remembered" runs over this process's
\* own entries, of which there are none yet.
Setup(resume) ==
  /\ pc = "start"
  /\ baseline' \in TestStatuses
  /\ round' = IF resume THEN NextRound ELSE 1
  /\ Goto("top")
  /\ UNCHANGED <<runs, inherited, aborted, run_vars, round_vars, durable>>

\* Not a git repository, or a target that does not build.
SetupFails ==
  /\ pc = "start"
  /\ Goto("threw")
  /\ UNCHANGED <<round, process_vars, run_vars, round_vars, durable>>

CapReached ==
  /\ pc = "top" /\ round > IterationCap
  /\ Stop("iteration-cap")
  /\ UNCHANGED <<round, process_vars, run_vars, round_vars, durable>>

StartRound ==
  /\ pc = "top" /\ round <= IterationCap
  /\ Boundary("detect")
  /\ IF aborted THEN UNCHANGED round_vars ELSE ForgetRound
  /\ UNCHANGED <<round, process_vars, run_vars, durable>>

-----------------------------------------------------------------------------
(* Detection and the optional hunt                                         *)

Detect ==
  /\ pc = "detect"
  /\ \E ids \in SUBSET (Crashes \cup Leads) :
       working' = Merge(open, Reported(ids))
  /\ Boundary("hunt")
  /\ UNCHANGED <<round, process_vars, run_vars, todo, dropped, batch, results,
                 tests, reopened, durable>>

Hunt ==
  /\ pc = "hunt"
  /\ \E ids \in IF ColdHunt THEN SUBSET Hunts ELSE {{}} :
       \E severityOf \in [ids -> AgentSeverities] :
         working' = WithinBar(Merge(working, Raised(severityOf)))
  /\ todo' = DOMAIN working'
  /\ Boundary("triage")
  /\ UNCHANGED <<round, process_vars, run_vars, dropped, batch, results,
                 tests, reopened, durable>>

-----------------------------------------------------------------------------
(* The confirm loop                                                        *)

Remembers(f, verdict) ==
  f \in DOMAIN remembered /\ remembered[f].verdict = verdict

CarriesDismissal(f) ==
  Remembers(f, "dismissed") /\ round - remembered[f].at < DismissalLife

NeedsTurn(f) ==
  /\ working[f].state = "candidate"
  /\ ~CarriesDismissal(f)
  /\ ~Remembers(f, "closed")

Dismissal == [verdict |-> "dismissed", at |-> round, repro |-> "none"]

KeepConfirmed(f) ==
  /\ pc = "triage" /\ f \in todo
  /\ working[f].state = "confirmed"
  /\ todo' = todo \ {f}
  /\ batch' = With(batch, f, working[f])
  /\ UNCHANGED <<pc, reason, round, process_vars, run_vars, working, dropped,
                 results, tests, reopened, durable>>

\* Mutant: carrying a dismissal renews it.
CarryDismissal_Renewing(f) ==
  /\ pc = "triage" /\ f \in todo
  /\ working[f].state = "candidate" /\ CarriesDismissal(f)
  /\ todo' = todo \ {f}
  /\ dropped' = With(dropped, f, "carried")
  /\ remembered' = With(remembered, f, Dismissal)
  /\ UNCHANGED <<pc, reason, round, process_vars, open, analyzed, judged, shown,
                 working, batch, results, tests, reopened, durable>>

\* Mutant: "break" for "continue".
CarryDismissal_Break(f) ==
  /\ pc = "triage" /\ f \in todo
  /\ working[f].state = "candidate" /\ CarriesDismissal(f)
  /\ todo' = {}
  /\ dropped' = With(dropped, f, "carried")
  /\ UNCHANGED <<pc, reason, round, process_vars, run_vars, working, batch,
                 results, tests, reopened, durable>>

\* Mutant: the loop looks at the same finding again.
CarryDismissal_Again(f) ==
  /\ pc = "triage" /\ f \in todo
  /\ working[f].state = "candidate" /\ CarriesDismissal(f)
  /\ dropped' = With(dropped, f, "carried")
  /\ UNCHANGED <<pc, reason, round, process_vars, run_vars, working, todo, batch,
                 results, tests, reopened, durable>>

CarryDismissal(f) ==
  /\ pc = "triage" /\ f \in todo
  /\ working[f].state = "candidate" /\ CarriesDismissal(f)
  /\ todo' = todo \ {f}
  /\ dropped' = With(dropped, f, "carried")
  /\ UNCHANGED <<pc, reason, round, process_vars, run_vars, working, batch,
                 results, tests, reopened, durable>>

\* A remembered closure is settled by its own repro and nothing else.
RecheckClosure(f, outcome) ==
  /\ pc = "triage" /\ f \in todo
  /\ working[f].state = "candidate" /\ Remembers(f, "closed")
  /\ todo' = todo \ {f}
  /\ IF outcome = "survived"
     THEN /\ batch' = With(batch, f,
                           [working[f] EXCEPT !.state = "confirmed",
                                              !.repro = remembered[f].repro])
          /\ UNCHANGED dropped
     ELSE /\ dropped' = With(dropped, f, outcome)
          /\ UNCHANGED batch
  /\ UNCHANGED <<pc, reason, round, process_vars, run_vars, working,
                 results, tests, reopened, durable>>

\* confirmCandidate, the turn answering "dismissed".
DismissCandidate(f) ==
  /\ pc = "triage" /\ f \in todo /\ NeedsTurn(f)
  /\ todo' = todo \ {f}
  /\ dropped' = With(dropped, f, "dismissed")
  /\ remembered' = With(remembered, f, Dismissal)
  /\ judged' = [judged EXCEPT ![f] = round]
  /\ UNCHANGED <<pc, reason, round, process_vars, open, analyzed, shown,
                 working, batch, results, tests, reopened, durable>>

\* Mutant: the turn's word is enough, whatever its repro does.
PromoteCandidate_Unproven(f, severity, outcome) ==
  /\ pc = "triage" /\ f \in todo /\ NeedsTurn(f)
  /\ todo' = todo \ {f}
  /\ judged' = [judged EXCEPT ![f] = round]
  /\ batch' = With(batch, f, [state |-> "confirmed", severity |-> severity,
                              repro |-> "model"])
  /\ shown' = IF outcome = "survived" THEN shown \cup {f} ELSE shown \ {f}
  /\ UNCHANGED <<pc, reason, round, process_vars, open, analyzed, working, dropped,
                 remembered, results, tests, reopened, durable>>

\* confirmCandidate, the turn answering "confirmed" with a repro to run.
PromoteCandidate(f, severity, outcome) ==
  /\ pc = "triage" /\ f \in todo /\ NeedsTurn(f)
  /\ todo' = todo \ {f}
  /\ judged' = [judged EXCEPT ![f] = round]
  /\ IF outcome = "survived"
     THEN /\ batch' = With(batch, f, [state |-> "confirmed", severity |-> severity,
                                      repro |-> "model"])
          /\ shown' = shown \cup {f}
          /\ UNCHANGED <<dropped, remembered>>
     ELSE /\ dropped' = With(dropped, f, "unproven")
          /\ remembered' = With(remembered, f, Dismissal)
          /\ shown' = shown \ {f}
          /\ UNCHANGED batch
  /\ UNCHANGED <<pc, reason, round, process_vars, open, analyzed, working,
                 results, tests, reopened, durable>>

TriageDone ==
  /\ pc = "triage" /\ todo = {}
  /\ Boundary("analyze")
  /\ UNCHANGED <<round, process_vars, run_vars, round_vars, durable>>

-----------------------------------------------------------------------------
(* Analysis and the fix                                                    *)

Unanalyzed == (DOMAIN batch \cap Crashes) \ analyzed

\* analyzeCrash: the turn's severity is recorded whatever becomes of its repro.
Analyze(f, severity, outcome) ==
  /\ pc = "analyze" /\ f \in Unanalyzed
  /\ analyzed' = analyzed \cup {f}
  /\ IF outcome = "survived"
     THEN /\ batch' = [batch EXCEPT ![f].severity = severity, ![f].repro = "model"]
          /\ shown' = shown \cup {f}
     ELSE /\ batch' = [batch EXCEPT ![f].severity = severity]
          /\ UNCHANGED shown
  /\ UNCHANGED <<pc, reason, round, process_vars, open, remembered, judged,
                 working, todo, dropped, results, tests, reopened, durable>>

AnalyzeDone ==
  /\ pc = "analyze" /\ Unanalyzed = {}
  /\ Boundary(IF ~Patched THEN "judge" ELSE IF Planner THEN "plan" ELSE "fix")
  /\ UNCHANGED <<round, process_vars, run_vars, round_vars, durable>>

\* The plan reaches the fix prompt and nothing else.
PlanFix ==
  /\ pc = "plan"
  /\ Goto("fix")
  /\ UNCHANGED <<round, process_vars, run_vars, round_vars, durable>>

Fix ==
  /\ pc = "fix"
  /\ Boundary("judge")
  /\ UNCHANGED <<round, process_vars, run_vars, round_vars, durable>>

-----------------------------------------------------------------------------
(* The gates                                                               *)

\* The rebuild after a fix failed: nothing of the batch can be judged.
RebuildFails ==
  /\ pc = "judge" /\ Patched
  /\ results' = [f \in DOMAIN batch |-> "inconclusive"]
  /\ Boundary("test")
  /\ UNCHANGED <<round, process_vars, run_vars, working, todo, dropped, batch,
                 tests, reopened, durable>>

\* Mutant: no abort check after the repros.
VerifyBatch_Unchecked ==
  /\ pc = "judge"
  /\ results' \in [DOMAIN batch -> VerifyOutcomes]
  /\ Goto("test")
  /\ UNCHANGED <<round, process_vars, run_vars, working, todo, dropped, batch,
                 tests, reopened, durable>>

VerifyBatch ==
  /\ pc = "judge"
  /\ results' \in [DOMAIN batch -> VerifyOutcomes]
  /\ Boundary("test")
  /\ UNCHANGED <<round, process_vars, run_vars, working, todo, dropped, batch,
                 tests, reopened, durable>>

\* From here to the append nothing looks at the abort signal.
TestGate ==
  /\ pc = "test"
  /\ tests' \in TestStatuses
  /\ Goto(IF Patched /\ ~Regressed(baseline, tests') THEN "crosscheck" ELSE "commit")
  /\ UNCHANGED <<round, process_vars, run_vars, working, todo, dropped, batch,
                 results, reopened, durable>>

\* refuzz, whose findings are taken whatever their severity, then rescan.
CrossCheck ==
  /\ pc = "crosscheck"
  /\ \E crashes \in SUBSET Crashes, leads \in IF Rescan THEN SUBSET Leads ELSE {{}} :
       LET fresh == {f \in leads : ~Remembers(f, "dismissed")}
       IN  reopened' = Merge(Reported(RefuzzNews(crashes, Unresolved)),
                             WithinBar(Reported(fresh)))
  /\ Goto("commit")
  /\ UNCHANGED <<round, process_vars, run_vars, working, todo, dropped, batch,
                 results, tests, durable>>

-----------------------------------------------------------------------------
(* The receipt: one commit, one ledger entry, then the decision            *)

\* Mutant: a round remembers everything it worked on as closed.
Closures_WholeBatch ==
  [f \in DOMAIN batch |->
     [verdict |-> "closed", at |-> round, repro |-> batch[f].repro]]

\* Mutant: a closure remembered without its repro.
Closures_NoRepro ==
  [f \in DOMAIN batch \ Unresolved |-> [verdict |-> "closed", at |-> round]]

Closures ==
  [f \in DOMAIN batch \ Unresolved |->
     [verdict |-> "closed", at |-> round, repro |-> batch[f].repro]]

\* Mutant: git refuses an empty commit and the round goes on without one.
Committed_NotEmpty ==
  IF DryRun \/ ~Patched THEN commits ELSE Append(commits, round)

\* commitRound allows an empty commit; a dry run makes none.
Committed == IF DryRun THEN commits ELSE Append(commits, round)

CommitRound ==
  /\ pc = "commit"
  /\ commits' = Committed
  /\ remembered' = Merge(Closures, remembered)
  /\ Goto("append")
  /\ UNCHANGED <<round, process_vars, open, analyzed, judged, shown, round_vars,
                 ledger>>

\* git add or git commit fails: the throw leaves the round without a receipt.
CommitFails ==
  /\ pc = "commit" /\ ~DryRun
  /\ Goto("threw")
  /\ UNCHANGED <<round, process_vars, run_vars, round_vars, durable>>

\* Of the batch, which findings_hash covers, the severities.
Entry ==
  [round |-> round, graded |-> [f \in DOMAIN batch |-> batch[f].severity],
   results |-> results, verdicts |-> remembered, tests |-> tests, sha |-> Len(commits)]

\* Mutant: the writer takes any round.
Appendable_Always == TRUE

\* LedgerWriter.append: a ledger takes the round after its last one only.
Appendable == round = NextRound

StillOpen == Merge(Only(batch, Unresolved), reopened)

\* Mutant: an empty list of open findings ends the run before the tests do.
Decide_CleanFirst(next) ==
  IF next = Nothing THEN Stop("clean") /\ UNCHANGED round
  ELSE IF Regressed(baseline, tests) THEN Stop("test-regression") /\ UNCHANGED round
  ELSE Goto("top") /\ round' = round + 1

\* Mutant: a regression does not halt a run that has work left.
Decide_NoHalt(next) ==
  IF next = Nothing
  THEN /\ Stop(IF Regressed(baseline, tests) THEN "test-regression" ELSE "clean")
       /\ UNCHANGED round
  ELSE Goto("top") /\ round' = round + 1

Decide(next) ==
  IF Regressed(baseline, tests) THEN Stop("test-regression") /\ UNCHANGED round
  ELSE IF next = Nothing THEN Stop("clean") /\ UNCHANGED round
  ELSE Goto("top") /\ round' = round + 1

AppendEntry ==
  /\ pc = "append" /\ Appendable
  /\ ledger' = Append(ledger, Entry)
  /\ open' = StillOpen
  /\ Decide(StillOpen)
  /\ UNCHANGED <<process_vars, analyzed, remembered, judged, shown, round_vars,
                 commits>>

\* Mutant: a refused append is skipped over.
AppendRefused_GoOn ==
  /\ pc = "append" /\ ~Appendable
  /\ Goto("top") /\ round' = round + 1
  /\ UNCHANGED <<process_vars, run_vars, round_vars, durable>>

\* A used ledger, and a run that was not told to resume it.
AppendRefused ==
  /\ pc = "append" /\ ~Appendable
  /\ Goto("threw")
  /\ UNCHANGED <<round, process_vars, run_vars, round_vars, durable>>

-----------------------------------------------------------------------------
(* Agent turns that do not answer, the operator, and the process           *)

TurnDue ==
  \/ pc = "hunt" /\ ColdHunt
  \/ pc = "triage" /\ \E f \in todo : NeedsTurn(f)
  \/ pc = "analyze" /\ Unanalyzed # {}
  \/ pc \in {"plan", "fix"}

\* The turn timed out, broke its protocol, or answered about something else.
TurnFails ==
  /\ TurnDue
  /\ Goto("threw")
  /\ UNCHANGED <<round, process_vars, run_vars, round_vars, durable>>

\* The signal fires while a turn is in flight: the race rejects at once.
AbortDuringTurn ==
  /\ Abortable /\ ~aborted /\ TurnDue
  /\ aborted' = TRUE
  /\ Stop("aborted")
  /\ UNCHANGED <<round, runs, inherited, baseline, run_vars, round_vars, durable>>

\* The signal fires anywhere else: nothing happens until somebody looks.
AbortSignal ==
  /\ Abortable /\ ~aborted /\ Running
  /\ aborted' = TRUE
  /\ UNCHANGED <<pc, reason, round, runs, inherited, baseline, run_vars,
                 round_vars, durable>>

Crash ==
  /\ Running
  /\ Goto("down")
  /\ ForgetRun /\ ForgetRound
  /\ UNCHANGED <<round, process_vars, durable>>

Launch ==
  /\ ~Running /\ runs < MaxRuns
  /\ pc' = "start" /\ reason' = "none" /\ round' = 0 /\ aborted' = FALSE
  /\ runs' = runs + 1
  /\ baseline' = "none" /\ inherited' = Len(ledger)
  /\ ForgetRun /\ ForgetRound
  /\ UNCHANGED durable

-----------------------------------------------------------------------------
Step ==
  \/ \E resume \in BOOLEAN : Setup(resume)
  \/ SetupFails
  \/ CapReached \/ StartRound
  \/ Detect \/ Hunt
  \/ \E f \in Finding :
       \/ KeepConfirmed(f)
       \/ CarryDismissal(f)
       \/ DismissCandidate(f)
       \/ \E outcome \in VerifyOutcomes :
            \/ RecheckClosure(f, outcome)
            \/ \E severity \in AgentSeverities :
                 \/ PromoteCandidate(f, severity, outcome)
                 \/ Analyze(f, severity, outcome)
  \/ TriageDone \/ AnalyzeDone
  \/ PlanFix \/ Fix
  \/ RebuildFails \/ VerifyBatch
  \/ TestGate \/ CrossCheck
  \/ CommitRound \/ CommitFails
  \/ AppendEntry \/ AppendRefused
  \/ TurnFails

Environment == AbortDuringTurn \/ AbortSignal \/ Crash \/ Launch

Next == Step \/ Environment

Spec == Init /\ [][Next]_vars

=============================================================================
