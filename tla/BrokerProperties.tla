-------------------------- MODULE BrokerProperties --------------------------
(***************************************************************************)
(* What the repair loop of Broker promises, and what its documentation     *)
(* says of it.  Each property names the code behaviour it is about.        *)
(***************************************************************************)
EXTENDS Broker

-----------------------------------------------------------------------------
(* Type correctness                                                        *)

Phases == {"start", "top", "detect", "hunt", "triage", "analyze", "plan", "fix",
           "judge", "test", "crosscheck", "commit", "append"}
Reasons == {"clean", "iteration-cap", "test-regression", "aborted"}

\* A map from some of S to T.
IsMap(m, S, T) == DOMAIN m \subseteq S /\ m \in [DOMAIN m -> T]

VerdictRec ==
  [verdict : {"dismissed"}, at : Nat, repro : {"none"}] \cup
  [verdict : {"closed"}, at : Nat, repro : {"detector", "model", "placeholder"}]

IsEntry(e) ==
  /\ e \in [round : Nat, graded : {e.graded}, results : {e.results},
            verdicts : {e.verdicts}, tests : TestStatuses, sha : Nat]
  /\ IsMap(e.graded, Finding, Severity)
  /\ IsMap(e.results, Finding, VerifyOutcomes)
  /\ IsMap(e.verdicts, Finding, VerdictRec)

WhyDropped == {"carried", "dismissed", "unproven", "closed", "inconclusive"}

\* Every variable holds a value of the shape the code gives it: a closure comes
\* with the repro that can be re-run, the confirm loop is about findings of the
\* round, and a round that reaches its receipt has a test result to put in it.
TypeOK ==
  /\ pc \in Phases \cup Ended
  /\ round \in Nat /\ aborted \in BOOLEAN /\ reason \in Reasons \cup {"none"}
  /\ baseline \in TestStatuses \cup {"none"}
  /\ inherited \in Nat /\ runs \in Nat
  /\ \A m \in {open, working, batch, reopened} : IsMap(m, Finding, FindingRec)
  /\ IsMap(dropped, Finding, WhyDropped)
  /\ IsMap(results, Finding, VerifyOutcomes)
  /\ IsMap(remembered, Finding, VerdictRec)
  /\ todo \subseteq Finding /\ analyzed \subseteq Finding /\ shown \subseteq Finding
  /\ judged \in [Finding -> Nat]
  /\ ledger \in Seq({ledger[i] : i \in DOMAIN ledger})
  /\ \A i \in DOMAIN ledger : IsEntry(ledger[i])
  /\ commits \in Seq(Nat)
  /\ tests \in TestStatuses \cup {"none"}
  /\ pc = "triage" => todo \subseteq DOMAIN working
  /\ pc \in {"crosscheck", "commit", "append"} => tests \in TestStatuses

-----------------------------------------------------------------------------
(* Findings are neither lost nor made up                                   *)

\* This process's own entries, the code's "entries".
Own == inherited + 1 .. Len(ledger)

\* Findings this process has put in a batch and not seen closed since.
Unclosed(i) ==
  {f \in DOMAIN ledger[i].results :
     /\ ledger[i].results[f] # "closed"
     /\ \A j \in Own : j > i => f \notin DOMAIN ledger[j].results}

\* Those among them that the round they were last in left within the bar.
Owed ==
  {f \in Finding : \E i \in Own : f \in Unclosed(i) /\ ledger[i].graded[f] >= Bar}

SeenClosed(f) ==
  \E i \in Own : f \in DOMAIN ledger[i].results /\ ledger[i].results[f] = "closed"

AfterTriage == {"analyze", "plan", "fix", "judge", "test", "crosscheck",
                "commit", "append"}

\* A finding whose repro survived or was inconclusive is in the next round's
\* batch, through merge, the severity bar and the confirm loop, until a round
\* closes it or an agent grades it below the bar, and in no other case.
OwedStayInTheLoop == pc \in AfterTriage => Owed \subseteq DOMAIN batch

\* Why a finding of the round may be missing from its batch: an argument, or a
\* repro seen closed in an earlier round whose re-run did not survive.  The loop
\* makes no difference between a re-run that was closed and one that could not be
\* judged, although usage.md:95 has "inconclusive, never a pass".
LeftOut(f) ==
  /\ f \in DOMAIN dropped
  /\ dropped[f] \in {"closed", "inconclusive"} => SeenClosed(f)

\* "clean" is only reached by a round of this process that was attested, did not
\* break the tests, closed everything in its batch, left nothing owed by an
\* earlier one, and left no finding out but for those reasons.
CleanIsEarned ==
  reason = "clean" =>
    /\ Own # {} /\ Owed = {}
    /\ LET last == ledger[Len(ledger)]
       IN  /\ last.round = round
           /\ ~Regressed(baseline, last.tests)
           /\ \A f \in DOMAIN last.results : last.results[f] = "closed"
           /\ \A f \in DOMAIN working : f \in DOMAIN last.results \/ LeftOut(f)

\* Nothing is fixed on a model's word: what is in a batch is a fuzzer's crash or
\* was seen to reproduce by the broker, and a repro a model wrote only ever
\* replaces the detector's once the broker has run it.
BatchIsProven ==
  \A f \in DOMAIN batch :
    /\ batch[f].state = "confirmed" /\ batch[f].repro # "placeholder"
    /\ (f \notin Crashes \/ batch[f].repro = "model") => f \in shown

\* A candidate left out of a round on an earlier argument was argued about by an
\* agent turn fewer than DismissalLife rounds ago, in this very process.
CarriedArgumentsAreFresh ==
  pc \in AfterTriage \cup {"triage"} =>
    \A f \in DOMAIN dropped :
      dropped[f] = "carried" =>
        judged[f] # 0 /\ round - judged[f] < DismissalLife

\* Every finding within the bar gets an answer each round: by the end of the
\* confirm loop it is in the batch or was dropped for a reason, never both.
EveryFindingIsAnswered ==
  pc \in AfterTriage =>
    /\ DOMAIN working = DOMAIN batch \cup DOMAIN dropped
    /\ DOMAIN batch \cap DOMAIN dropped = {}

\* A remembered closure rests on a repro that the broker ran, in the round it
\* names, after a fix, and that came back closed.
ClosuresAreGrounded ==
  \A f \in DOMAIN remembered :
    remembered[f].verdict = "closed" =>
      \/ \E i \in Own : /\ ledger[i].round = remembered[f].at
                        /\ f \in DOMAIN ledger[i].results
                        /\ ledger[i].results[f] = "closed"
      \/ /\ remembered[f].at = round /\ f \in DOMAIN results
         /\ results[f] = "closed"

-----------------------------------------------------------------------------
(* The receipts                                                            *)

\* Entries are numbered 1, 2, 3... whatever crashed or was resumed, and the
\* iteration cap bounds them over all the runs that shared the ledger.
LedgerIsContiguous ==
  /\ \A i \in 1..Len(ledger) : ledger[i].round = i
  /\ Len(ledger) <= IterationCap

\* Each entry names a commit of its own round, and later entries name later
\* commits: a commit is never attested twice.
EntriesAttestTheirCommit ==
  ~DryRun =>
    \A i \in 1..Len(ledger) :
      /\ ledger[i].sha \in 1..Len(commits)
      /\ commits[ledger[i].sha] = ledger[i].round
      /\ \A j \in 1..i-1 : ledger[j].sha < ledger[i].sha

\* A run that stopped by itself made exactly one commit per entry, and one that
\* died made at most one more: the commit whose append it did not reach.
UnattestedCommits == Len(commits) - Len(ledger)

AtMostOneStrayCommitPerRun ==
  ~DryRun => /\ UnattestedCommits \in 0..runs
             /\ pc = "done" => UnattestedCommits <= runs - 1

\* A round that broke a passing suite is the last of its process: no further
\* entry is stacked on top of it.
RegressionHalts ==
  \A i \in Own :
    Regressed(baseline, ledger[i].tests) =>
      i = Len(ledger) /\ (pc = "done" => reason = "test-regression") /\ pc \in Ended

\* An abort signalled before the round's repros are judged leaves no trace of
\* that round: no test run, no commit, no entry.
BeforeTheVerdicts == Phases \ {"test", "crosscheck", "commit", "append"}
EarlyAbortLeavesNoReceipt ==
  [][(aborted /\ pc \in BeforeTheVerdicts) =>
       pc' \in BeforeTheVerdicts \cup Ended /\ UNCHANGED durable]_vars

-----------------------------------------------------------------------------
(* Liveness.  The broker's own steps are fair: every tool has a deadline    *)
(* (runTool) and every turn is raced against one.  Nothing is assumed of    *)
(* the operator, of crashes, or of launching another run.  The one step     *)
(* that is not fair is a turn begun on a signal that had already aborted:   *)
(* the listener is added after the fact, so neither the abort nor the       *)
(* deadline ever rejects it.                                               *)

StrandedTurn == aborted /\ TurnDue

FairSpec == Spec /\ WF_vars(Step /\ ~StrandedTurn)

\* Every run ends: clean, at its cap, regressed, aborted, thrown or crashed.
EveryRunEnds == (pc = "start") ~> (pc \in Ended)

-----------------------------------------------------------------------------
(* What the documentation says and the code does not do                    *)

\* state-machine.ts:287-289: "a model's reading of severity cannot pull a
\* finding out of the loop".
ModelSeverityKeepsFindings ==
  reason = "clean" => \A i \in Own : Unclosed(i) = {}

=============================================================================
