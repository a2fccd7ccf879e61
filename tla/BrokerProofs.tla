---------------------------- MODULE BrokerProofs ----------------------------
(***************************************************************************)
(* Theorems of the repair loop, for every set of findings, every severity  *)
(* bar, cap and dismissal life, and every choice of the optional passes:   *)
(* types, what the receipts attest, that a regression ends a run, that the *)
(* confirm loop answers every finding, that nothing is fixed on a model's  *)
(* word; over several rounds, what is remembered and what is owed, what    *)
(* "clean" means, and that the loop implements RepairLoop.                 *)
(***************************************************************************)
EXTENDS BrokerRefinement, SequenceTheorems, TLAPS

-----------------------------------------------------------------------------
(* Maps, and the type invariant said with sets of them                     *)

Maps(S, T) == UNION {[D -> T] : D \in SUBSET S}

FindingMap == Maps(Finding, FindingRec)
ResultMap == Maps(Finding, VerifyOutcomes)
VerdictMap == Maps(Finding, VerdictRec)
GradeMap == Maps(Finding, Severity)
EntryRec == [round : Nat, graded : GradeMap, results : ResultMap,
             verdicts : VerdictMap, tests : TestStatuses, sha : Nat]

Typed ==
  /\ pc \in Phases \cup Ended
  /\ round \in Nat /\ aborted \in BOOLEAN /\ reason \in Reasons \cup {"none"}
  /\ baseline \in TestStatuses \cup {"none"}
  /\ inherited \in Nat /\ runs \in Nat
  /\ open \in FindingMap /\ working \in FindingMap
  /\ batch \in FindingMap /\ reopened \in FindingMap
  /\ dropped \in Maps(Finding, WhyDropped)
  /\ results \in ResultMap
  /\ remembered \in VerdictMap
  /\ todo \subseteq Finding /\ analyzed \subseteq Finding /\ shown \subseteq Finding
  /\ judged \in [Finding -> Nat]
  /\ ledger \in Seq(EntryRec) /\ commits \in Seq(Nat)
  /\ tests \in TestStatuses \cup {"none"}
  /\ pc = "triage" => todo \subseteq DOMAIN working
  /\ pc \in {"crosscheck", "commit", "append"} => tests \in TestStatuses

\* A map is a function whose domain and values are where they should be.
LEMMA MapDef ==
  ASSUME NEW S, NEW T, NEW m
  PROVE  m \in Maps(S, T) <=> DOMAIN m \subseteq S /\ m \in [DOMAIN m -> T]
BY DEF Maps

\* The empty map is a map of every kind.
LEMMA NothingIsMap ==
  ASSUME NEW S, NEW T
  PROVE  Nothing \in Maps(S, T)
BY DEF Maps, Nothing

\* Setting one value of a map gives a map.
LEMMA WithIsMap ==
  ASSUME NEW S, NEW T, NEW m \in Maps(S, T), NEW f \in S, NEW v \in T
  PROVE  With(m, f, v) \in Maps(S, T)
<1>1. DOMAIN m \subseteq S /\ m \in [DOMAIN m -> T]
  BY MapDef
<1>2. With(m, f, v) \in [DOMAIN m \cup {f} -> T]
  BY <1>1 DEF With
<1>3. DOMAIN With(m, f, v) = DOMAIN m \cup {f}
  BY DEF With
<1> QED BY <1>1, <1>2, <1>3, MapDef

\* merge gives a map.
LEMMA MergeIsMap ==
  ASSUME NEW S, NEW T, NEW m \in Maps(S, T), NEW n \in Maps(S, T)
  PROVE  Merge(m, n) \in Maps(S, T)
<1>1. /\ DOMAIN m \subseteq S /\ m \in [DOMAIN m -> T]
      /\ DOMAIN n \subseteq S /\ n \in [DOMAIN n -> T]
  BY MapDef
<1>2. Merge(m, n) \in [DOMAIN m \cup DOMAIN n -> T]
  BY <1>1 DEF Merge
<1>3. DOMAIN Merge(m, n) = DOMAIN m \cup DOMAIN n
  BY DEF Merge
<1> QED BY <1>1, <1>2, <1>3, MapDef

\* Part of a map is a map.
LEMMA OnlyIsMap ==
  ASSUME NEW S, NEW T, NEW m \in Maps(S, T), NEW D
  PROVE  Only(m, D) \in Maps(S, T)
<1>1. DOMAIN m \subseteq S /\ m \in [DOMAIN m -> T]
  BY MapDef
<1>2. Only(m, D) \in [DOMAIN m \cap D -> T]
  BY <1>1 DEF Only
<1>3. DOMAIN Only(m, D) = DOMAIN m \cap D
  BY DEF Only
<1> QED BY <1>1, <1>2, <1>3, MapDef

\* What detectors report is a map of findings.
LEMMA ReportedIsMap ==
  ASSUME NEW ids \in SUBSET (Crashes \cup Leads)
  PROVE  Reported(ids) \in FindingMap
<1>1. \A f \in ids : DetectorSeverity[f] \in Severity
  BY BrokerAssumption
<1>2. Reported(ids) \in [ids -> FindingRec]
  BY <1>1 DEF Reported, FindingRec
<1>3. DOMAIN Reported(ids) = ids
  BY DEF Reported
<1> QED BY <1>2, <1>3, MapDef DEF FindingMap, Finding

\* What a cold hunt raises is a map of findings.
LEMMA RaisedIsMap ==
  ASSUME NEW ids \in SUBSET Hunts, NEW severityOf \in [ids -> AgentSeverities]
  PROVE  Raised(severityOf) \in FindingMap
<1>1. \A f \in ids : severityOf[f] \in Severity
  BY BrokerAssumption
<1>2. Raised(severityOf) \in [ids -> FindingRec]
  BY <1>1 DEF Raised, FindingRec
<1>3. DOMAIN Raised(severityOf) = ids
  BY DEF Raised
<1> QED BY <1>2, <1>3, MapDef DEF FindingMap, Finding

-----------------------------------------------------------------------------
(* Type correctness                                                        *)

\* What the model checker evaluates follows from what the proofs maintain.
LEMMA TypedIsTypeOK == Typed => TypeOK
<1> SUFFICES ASSUME Typed PROVE TypeOK OBVIOUS
<1>1. \A m \in {open, working, batch, reopened} : IsMap(m, Finding, FindingRec)
  BY MapDef DEF Typed, FindingMap, IsMap
<1>2. /\ IsMap(dropped, Finding, WhyDropped)
      /\ IsMap(results, Finding, VerifyOutcomes)
      /\ IsMap(remembered, Finding, VerdictRec)
  BY MapDef DEF Typed, ResultMap, VerdictMap, IsMap
<1>3. /\ DOMAIN ledger = 1..Len(ledger) /\ Len(ledger) \in Nat
      /\ \A i \in DOMAIN ledger : ledger[i] \in EntryRec
      /\ ledger \in [1..Len(ledger) -> EntryRec]
  BY DEF Typed
<1>4. \A i \in DOMAIN ledger : IsEntry(ledger[i])
  BY <1>3, MapDef DEF EntryRec, GradeMap, ResultMap, VerdictMap, IsEntry, IsMap
<1>5. ledger \in Seq({ledger[i] : i \in DOMAIN ledger})
  <2>1. ledger \in [1..Len(ledger) -> {ledger[i] : i \in DOMAIN ledger}]
    BY <1>3
  <2> QED BY <1>3, <2>1, SeqDef
<1> QED BY <1>1, <1>2, <1>4, <1>5 DEF Typed, TypeOK

LEMMA InitTyped == Init => Typed
<1> SUFFICES ASSUME Init PROVE Typed OBVIOUS
<1>1. /\ Nothing \in FindingMap /\ Nothing \in ResultMap /\ Nothing \in VerdictMap
      /\ Nothing \in Maps(Finding, WhyDropped)
  BY NothingIsMap DEF FindingMap, ResultMap, VerdictMap
<1>2. ledger \in Seq(EntryRec) /\ commits \in Seq(Nat)
  BY DEF Init
<1> QED BY <1>1, <1>2 DEF Init, Typed, Phases, Reasons, TestStatuses

\* No step leaves the type invariant.
LEMMA StepTyped == Typed /\ [Next]_vars => Typed'
<1> SUFFICES ASSUME Typed, [Next]_vars PROVE Typed' OBVIOUS
<1> USE DEF Phases, Ended, Reasons, TestStatuses, WhyDropped, Goto, Stop, Boundary,
            round_vars, run_vars, process_vars, durable
<1>0. Nothing \in FindingMap /\ Nothing \in ResultMap /\ Nothing \in VerdictMap
      /\ Nothing \in Maps(Finding, WhyDropped)
  BY NothingIsMap DEF FindingMap, ResultMap, VerdictMap
<1>1. ASSUME NEW resume \in BOOLEAN, Setup(resume) PROVE Typed'
  BY <1>1 DEF Typed, Setup, NextRound
<1>2. CASE SetupFails
  BY <1>2 DEF Typed, SetupFails
<1>3. CASE CapReached
  BY <1>3 DEF Typed, CapReached
<1>4. CASE StartRound
  BY <1>4, <1>0 DEF Typed, StartRound, ForgetRound
<1>5. CASE Detect
  <2>1. PICK ids \in SUBSET (Crashes \cup Leads) :
          working' = Merge(open, Reported(ids))
    BY <1>5 DEF Detect
  <2>2. working' \in FindingMap
    BY <2>1, ReportedIsMap, MergeIsMap DEF Typed, FindingMap
  <2> QED BY <1>5, <2>2 DEF Typed, Detect
<1>6. CASE Hunt
  <2>0. PICK ids \in SUBSET Hunts : \E severityOf \in [ids -> AgentSeverities] :
          working' = WithinBar(Merge(working, Raised(severityOf)))
    BY <1>6 DEF Hunt
  <2>1. PICK severityOf \in [ids -> AgentSeverities] :
          working' = WithinBar(Merge(working, Raised(severityOf)))
    BY <2>0
  <2>2. working' \in FindingMap
    BY <2>1, RaisedIsMap, MergeIsMap, OnlyIsMap DEF Typed, FindingMap, WithinBar
  <2>3. DOMAIN working' \subseteq Finding
    BY <2>2, MapDef DEF FindingMap
  <2> QED BY <1>6, <2>2, <2>3 DEF Typed, Hunt
<1>7. ASSUME NEW f \in Finding, KeepConfirmed(f) PROVE Typed'
  <2>1. working[f] \in FindingRec
    BY <1>7, MapDef DEF Typed, KeepConfirmed, FindingMap
  <2>2. batch' \in FindingMap
    BY <1>7, <2>1, WithIsMap DEF Typed, KeepConfirmed, FindingMap
  <2> QED BY <1>7, <2>2 DEF Typed, KeepConfirmed
<1>8. ASSUME NEW f \in Finding, CarryDismissal(f) PROVE Typed'
  <2>1. dropped' \in Maps(Finding, WhyDropped)
    BY <1>8, WithIsMap DEF Typed, CarryDismissal
  <2> QED BY <1>8, <2>1 DEF Typed, CarryDismissal
<1>9. ASSUME NEW f \in Finding, NEW outcome \in VerifyOutcomes, RecheckClosure(f, outcome)
      PROVE  Typed'
  <2>1. working[f] \in FindingRec
    BY <1>9, MapDef DEF Typed, RecheckClosure, FindingMap
  <2>2. remembered[f] \in VerdictRec
    BY <1>9, MapDef DEF Typed, RecheckClosure, Remembers, VerdictMap
  <2>3. [working[f] EXCEPT !.state = "confirmed", !.repro = remembered[f].repro]
          \in FindingRec
    BY <1>9, <2>1, <2>2 DEF RecheckClosure, Remembers, VerdictRec, FindingRec
  <2>4. batch' \in FindingMap
    BY <1>9, <2>3, WithIsMap DEF Typed, RecheckClosure, FindingMap
  <2>5. dropped' \in Maps(Finding, WhyDropped)
    BY <1>9, WithIsMap DEF Typed, RecheckClosure, VerifyOutcomes, WhyDropped
  <2> QED BY <1>9, <2>4, <2>5 DEF Typed, RecheckClosure
<1>10. Dismissal \in VerdictRec
  BY DEF Typed, Dismissal, VerdictRec
<1>11. ASSUME NEW f \in Finding, DismissCandidate(f) PROVE Typed'
  <2>1. dropped' \in Maps(Finding, WhyDropped)
    BY <1>11, WithIsMap DEF Typed, DismissCandidate
  <2>2. remembered' \in VerdictMap
    BY <1>11, <1>10, WithIsMap DEF Typed, DismissCandidate, VerdictMap
  <2> QED BY <1>11, <2>1, <2>2 DEF Typed, DismissCandidate
<1>12. ASSUME NEW f \in Finding, NEW severity \in AgentSeverities,
              NEW outcome \in VerifyOutcomes, PromoteCandidate(f, severity, outcome)
       PROVE  Typed'
  <2>1. dropped' \in Maps(Finding, WhyDropped)
    BY <1>12, WithIsMap DEF Typed, PromoteCandidate
  <2>2. remembered' \in VerdictMap
    BY <1>12, <1>10, WithIsMap DEF Typed, PromoteCandidate, VerdictMap
  <2>3. [state |-> "confirmed", severity |-> severity, repro |-> "model"] \in FindingRec
    BY BrokerAssumption DEF FindingRec
  <2>4. batch' \in FindingMap
    BY <1>12, <2>3, WithIsMap DEF Typed, PromoteCandidate, FindingMap
  <2>5. judged' \in [Finding -> Nat] /\ shown' \subseteq Finding
    BY <1>12 DEF Typed, PromoteCandidate
  <2> QED BY <1>12, <2>1, <2>2, <2>4, <2>5 DEF Typed, PromoteCandidate
<1>13. CASE TriageDone
  BY <1>13 DEF Typed, TriageDone
<1>14. ASSUME NEW f \in Finding, NEW severity \in AgentSeverities,
              NEW outcome \in VerifyOutcomes, Analyze(f, severity, outcome)
       PROVE  Typed'
  <2>1. f \in DOMAIN batch /\ batch[f] \in FindingRec
    BY <1>14, MapDef DEF Typed, Analyze, Unanalyzed, FindingMap
  <2>2. /\ [batch[f] EXCEPT !.severity = severity] \in FindingRec
        /\ [batch[f] EXCEPT !.severity = severity, !.repro = "model"] \in FindingRec
    BY <2>1, BrokerAssumption DEF FindingRec
  <2>3. batch \in [DOMAIN batch -> FindingRec] /\ DOMAIN batch \subseteq Finding
    BY MapDef DEF Typed, FindingMap
  <2>4. batch' \in [DOMAIN batch -> FindingRec] /\ DOMAIN batch' = DOMAIN batch
    BY <1>14, <2>2, <2>3 DEF Analyze, FindingRec
  <2>5. batch' \in FindingMap
    BY <2>3, <2>4, MapDef DEF FindingMap
  <2> QED BY <1>14, <2>5 DEF Typed, Analyze
<1>15. CASE AnalyzeDone
  BY <1>15 DEF Typed, AnalyzeDone
<1>16. CASE PlanFix
  BY <1>16 DEF Typed, PlanFix
<1>17. CASE Fix
  BY <1>17 DEF Typed, Fix
<1>18. DOMAIN batch \subseteq Finding
  BY MapDef DEF Typed, FindingMap
<1>19. CASE RebuildFails
  <2>1. results' \in ResultMap
    BY <1>19, <1>18, MapDef DEF RebuildFails, ResultMap, VerifyOutcomes
  <2> QED BY <1>19, <2>1 DEF Typed, RebuildFails
<1>20. CASE VerifyBatch
  <2>1. results' \in ResultMap
    BY <1>20, <1>18, MapDef DEF VerifyBatch, ResultMap
  <2> QED BY <1>20, <2>1 DEF Typed, VerifyBatch
<1>21. CASE TestGate
  BY <1>21 DEF Typed, TestGate
<1>22. CASE CrossCheck
  <2>1. PICK crashes \in SUBSET Crashes, leads \in SUBSET Leads :
          reopened' = Merge(Reported(RefuzzNews(crashes, Unresolved)),
            WithinBar(Reported({f \in leads : ~Remembers(f, "dismissed")})))
    BY <1>22 DEF CrossCheck
  <2>2. /\ Reported(RefuzzNews(crashes, Unresolved)) \in FindingMap
        /\ Reported({f \in leads : ~Remembers(f, "dismissed")}) \in FindingMap
    BY ReportedIsMap DEF RefuzzNews
  <2>3. reopened' \in FindingMap
    BY <2>1, <2>2, OnlyIsMap, MergeIsMap DEF FindingMap, WithinBar
  <2> QED BY <1>22, <2>3 DEF Typed, CrossCheck
<1>23. CASE CommitRound
  <2>1. Closures \in [DOMAIN batch \ Unresolved -> VerdictRec]
    <3>1. \A f \in DOMAIN batch : batch[f] \in FindingRec
      BY MapDef DEF Typed, FindingMap
    <3> QED BY <3>1 DEF Typed, Closures, VerdictRec, FindingRec
  <2>2. Closures \in VerdictMap
    BY <2>1, <1>18, MapDef DEF Closures, VerdictMap
  <2>3. remembered' \in VerdictMap
    BY <1>23, <2>2, MergeIsMap DEF Typed, CommitRound, VerdictMap
  <2>4. commits' \in Seq(Nat)
    BY <1>23 DEF Typed, CommitRound, Committed
  <2> QED BY <1>23, <2>3, <2>4 DEF Typed, CommitRound
<1>24. CASE CommitFails
  BY <1>24 DEF Typed, CommitFails
<1>25. CASE AppendEntry
  <2>0. [f \in DOMAIN batch |-> batch[f].severity] \in GradeMap
    <3>1. \A f \in DOMAIN batch : batch[f] \in FindingRec
      BY MapDef DEF Typed, FindingMap
    <3>2. \A f \in DOMAIN batch : batch[f].severity \in Severity
      BY <3>1 DEF FindingRec
    <3> QED BY <1>18, <3>2, MapDef DEF GradeMap
  <2>1. Entry \in EntryRec
    BY <1>25, <2>0 DEF Typed, AppendEntry, Entry, EntryRec
  <2>2. ledger' \in Seq(EntryRec)
    BY <1>25, <2>1 DEF Typed, AppendEntry
  <2>3. open' \in FindingMap
    BY <1>25, OnlyIsMap, MergeIsMap DEF Typed, AppendEntry, StillOpen, FindingMap
  <2> QED BY <1>25, <2>2, <2>3 DEF Typed, AppendEntry, Decide
<1>26. CASE AppendRefused
  BY <1>26 DEF Typed, AppendRefused
<1>27. CASE TurnFails
  BY <1>27 DEF Typed, TurnFails
<1>28. CASE AbortDuringTurn
  BY <1>28 DEF Typed, AbortDuringTurn
<1>29. CASE AbortSignal
  BY <1>29 DEF Typed, AbortSignal
<1>30. CASE Crash
  BY <1>30, <1>0 DEF Typed, Crash, ForgetRun, ForgetRound
<1>31. CASE Launch
  <2>1. Len(ledger) \in Nat /\ inherited' \in Nat /\ runs' \in Nat
    BY <1>31 DEF Typed, Launch
  <2>2. judged' \in [Finding -> Nat]
    BY <1>31 DEF Launch, ForgetRun
  <2> QED BY <1>31, <1>0, <2>1, <2>2 DEF Typed, Launch, ForgetRun, ForgetRound
<1>32. CASE UNCHANGED vars
  BY <1>32 DEF Typed, vars
<1> QED
  BY <1>1, <1>2, <1>3, <1>4, <1>5, <1>6, <1>7, <1>8, <1>9, <1>11, <1>12, <1>13,
     <1>14, <1>15, <1>16, <1>17, <1>19, <1>20, <1>21, <1>22, <1>23, <1>24, <1>25,
     <1>26, <1>27, <1>28, <1>29, <1>30, <1>31, <1>32 DEF Next, Step, Environment

\* Every state of every run is well typed.
THEOREM TypeCorrect == Spec => []TypeOK
<1> QED BY InitTyped, StepTyped, TypedIsTypeOK, PTL DEF Spec

-----------------------------------------------------------------------------
(* The ledger is contiguous                                                *)

\* What makes LedgerIsContiguous inductive: a round past the loop's test is
\* within the cap, and the writer's own check does the rest.
RoundWithinCap == pc \notin {"start", "top"} \cup Ended => round <= IterationCap

LedgerInv == LedgerIsContiguous /\ RoundWithinCap

LEMMA InitLedgerInv == Init => LedgerInv
BY BrokerAssumption DEF Init, LedgerInv, LedgerIsContiguous, RoundWithinCap

LEMMA StepLedgerInv == Typed /\ LedgerInv /\ [Next]_vars => LedgerInv'
<1> SUFFICES ASSUME Typed, LedgerInv, [Next]_vars PROVE LedgerInv' OBVIOUS
<1> USE DEF Ended, Goto, Stop, Boundary, round_vars, run_vars, process_vars, durable
<1>1. CASE UNCHANGED <<ledger, round>> /\ pc \notin {"start", "top"} \cup Ended
  BY <1>1 DEF LedgerInv, LedgerIsContiguous, RoundWithinCap
<1>2. CASE UNCHANGED ledger /\ pc' \in {"start", "top"} \cup Ended
  BY <1>2 DEF LedgerInv, LedgerIsContiguous, RoundWithinCap
<1>3. CASE StartRound
  BY <1>3 DEF LedgerInv, LedgerIsContiguous, RoundWithinCap, StartRound
<1>4. CASE AppendEntry
  <2>1. /\ ledger' = Append(ledger, Entry) /\ Entry.round = Len(ledger) + 1
        /\ Len(ledger) \in Nat /\ Len(ledger') = Len(ledger) + 1
        /\ \A i \in 1..Len(ledger) : ledger'[i] = ledger[i]
        /\ ledger'[Len(ledger) + 1] = Entry
    BY <1>4 DEF AppendEntry, Appendable, NextRound, Entry, Typed
  <2>2. Len(ledger') <= IterationCap
    BY <1>4, <2>1, BrokerAssumption
       DEF LedgerInv, RoundWithinCap, AppendEntry, Appendable, NextRound, Entry
  <2>3. \A i \in 1..Len(ledger') : ledger'[i].round = i
    BY <2>1 DEF LedgerInv, LedgerIsContiguous
  <2>4. pc' \in {"top", "done"}
    BY <1>4 DEF AppendEntry, Decide
  <2> QED BY <2>2, <2>3, <2>4 DEF LedgerInv, LedgerIsContiguous, RoundWithinCap
<1>5. CASE UNCHANGED vars
  BY <1>5 DEF vars, LedgerInv, LedgerIsContiguous, RoundWithinCap
<1>6. CASE Launch
  BY <1>6, <1>2 DEF Launch
<1>7. CASE AbortSignal
  BY <1>7 DEF AbortSignal, LedgerInv, LedgerIsContiguous, RoundWithinCap
<1>8. CASE Environment
  BY <1>1, <1>2, <1>6, <1>7, <1>8 DEF Environment, AbortDuringTurn, Crash
<1>9. CASE Step
  <2>1. CASE \E resume \in BOOLEAN : Setup(resume)
    BY <2>1, <1>2 DEF Setup
  <2>2. CASE SetupFails \/ CapReached \/ CommitFails \/ AppendRefused \/ TurnFails
    BY <2>2, <1>2 DEF SetupFails, CapReached, CommitFails, AppendRefused, TurnFails
  <2>3. CASE Detect \/ Hunt \/ TriageDone \/ AnalyzeDone
    BY <2>3, <1>1, <1>2 DEF Detect, Hunt, TriageDone, AnalyzeDone
  <2>4. CASE PlanFix \/ Fix \/ RebuildFails \/ VerifyBatch
    BY <2>4, <1>1, <1>2 DEF PlanFix, Fix, RebuildFails, VerifyBatch
  <2>5. CASE TestGate \/ CrossCheck \/ CommitRound
    BY <2>5, <1>1 DEF TestGate, CrossCheck, CommitRound
  <2>6. ASSUME NEW f \in Finding,
               KeepConfirmed(f) \/ CarryDismissal(f) \/ DismissCandidate(f)
        PROVE  LedgerInv'
    BY <2>6, <1>1 DEF KeepConfirmed, CarryDismissal, DismissCandidate
  <2>7. ASSUME NEW f \in Finding, NEW outcome, RecheckClosure(f, outcome)
        PROVE  LedgerInv'
    BY <2>7, <1>1 DEF RecheckClosure
  <2>8. ASSUME NEW f \in Finding, NEW outcome, NEW severity,
               PromoteCandidate(f, severity, outcome) \/ Analyze(f, severity, outcome)
        PROVE  LedgerInv'
    BY <2>8, <1>1 DEF PromoteCandidate, Analyze
  <2> QED BY <1>3, <1>4, <1>9, <2>1, <2>2, <2>3, <2>4, <2>5, <2>6, <2>7, <2>8 DEF Step
<1> QED BY <1>5, <1>8, <1>9 DEF Next

\* The receipts of every run are numbered 1, 2, 3... and bounded by the cap,
\* however many processes, crashes and resumes the ledger has seen.
THEOREM LedgerStaysContiguous == Spec => []LedgerIsContiguous
<1>1. LedgerInv => LedgerIsContiguous
  BY DEF LedgerInv
<1> QED BY <1>1, InitTyped, StepTyped, InitLedgerInv, StepLedgerInv, PTL DEF Spec

-----------------------------------------------------------------------------
(* Commits and entries                                                     *)

\* A commit that waits for its entry is the last one, and no entry names it yet.
AwaitingEntry ==
  pc = "append" =>
    /\ commits # <<>> /\ commits[Len(commits)] = round
    /\ \A i \in 1..Len(ledger) : ledger[i].sha < Len(commits)

CommitInv == ~DryRun => AwaitingEntry /\ EntriesAttestTheirCommit

\* A run has a stray commit of its own only while it has yet to append the
\* entry, or when it died before it could.
StrayInv ==
  ~DryRun =>
    /\ UnattestedCommits \in 0..runs
    /\ pc = "append" => UnattestedCommits >= 1
    /\ pc \notin {"append", "threw", "down"} => UnattestedCommits <= runs - 1

\* Before its first round a process has no entry of its own.
RegressionInv ==
  /\ inherited <= Len(ledger)
  /\ pc = "start" => inherited = Len(ledger)
  /\ RegressionHalts

LEMMA InitReceiptInv == Init => CommitInv /\ StrayInv /\ RegressionInv
<1> SUFFICES ASSUME Init PROVE CommitInv /\ StrayInv /\ RegressionInv OBVIOUS
<1>1. Len(ledger) = 0 /\ Len(commits) = 0 /\ inherited = 0 /\ runs = 1 /\ pc = "start"
  BY DEF Init
<1>2. CommitInv
  BY <1>1 DEF CommitInv, AwaitingEntry, EntriesAttestTheirCommit
<1>3. StrayInv
  BY <1>1 DEF StrayInv, UnattestedCommits
<1>4. RegressionInv
  BY <1>1 DEF RegressionInv, RegressionHalts, Own
<1> QED BY <1>2, <1>3, <1>4

\* Three steps touch the receipts or start a process.  The others are taken by a
\* process on its way, which stays short of its append, or change none of the
\* variables the receipts depend on.
Quiet ==
  /\ UNCHANGED <<ledger, commits, runs, inherited>>
  /\ pc = "start" \/ UNCHANGED baseline
  /\ \/ Running /\ pc' \notin {"append", "start"} /\ (pc = "append" => pc' \in {"threw", "down"})
     \/ UNCHANGED <<pc, round, reason, baseline>>

LEMMA ReceiptFrame ==
  ASSUME [Next]_vars
  PROVE  AppendEntry \/ CommitRound \/ Launch \/ Quiet
<1> USE DEF Ended, Running, Goto, Stop, Boundary, round_vars, run_vars, process_vars,
            durable
<1>1. CASE UNCHANGED vars
  BY <1>1 DEF vars, Quiet
<1>2. CASE Environment
  <2>1. CASE AbortDuringTurn
    BY <2>1 DEF AbortDuringTurn, TurnDue, Quiet
  <2>2. CASE AbortSignal
    BY <2>2 DEF AbortSignal, Quiet
  <2>3. CASE Crash
    BY <2>3 DEF Crash, Quiet
  <2> QED BY <1>2, <2>1, <2>2, <2>3 DEF Environment
<1>3. CASE Step
  <2>1. CASE (\E resume \in BOOLEAN : Setup(resume)) \/ SetupFails \/ CapReached
    BY <2>1 DEF Setup, SetupFails, CapReached, Quiet
  <2>2. CASE StartRound \/ Detect \/ Hunt \/ TriageDone \/ AnalyzeDone
    BY <2>2 DEF StartRound, Detect, Hunt, TriageDone, AnalyzeDone, Quiet
  <2>3. CASE PlanFix \/ Fix \/ RebuildFails \/ VerifyBatch
    BY <2>3 DEF PlanFix, Fix, RebuildFails, VerifyBatch, Quiet
  <2>4. CASE TestGate \/ CrossCheck
    BY <2>4 DEF TestGate, CrossCheck, Quiet
  <2>5. CASE CommitFails \/ AppendRefused
    BY <2>5 DEF CommitFails, AppendRefused, Quiet
  <2>6. CASE TurnFails
    BY <2>6 DEF TurnFails, TurnDue, Quiet
  <2>7. ASSUME NEW f \in Finding,
               KeepConfirmed(f) \/ CarryDismissal(f) \/ DismissCandidate(f)
        PROVE  Quiet
    BY <2>7 DEF KeepConfirmed, CarryDismissal, DismissCandidate, Quiet
  <2>8. ASSUME NEW f \in Finding, NEW outcome, RecheckClosure(f, outcome)
        PROVE  Quiet
    BY <2>8 DEF RecheckClosure, Quiet
  <2>9. ASSUME NEW f \in Finding, NEW outcome, NEW severity,
               PromoteCandidate(f, severity, outcome) \/ Analyze(f, severity, outcome)
        PROVE  Quiet
    BY <2>9 DEF PromoteCandidate, Analyze, Quiet
  <2> QED BY <1>3, <2>1, <2>2, <2>3, <2>4, <2>5, <2>6, <2>7, <2>8, <2>9 DEF Step
<1> QED BY <1>1, <1>2, <1>3 DEF Next

\* What an append does to the ledger.
LEMMA AppendExtends ==
  ASSUME Typed, AppendEntry
  PROVE  /\ Len(ledger) \in Nat /\ Len(ledger') = Len(ledger) + 1
         /\ \A i \in 1..Len(ledger) : ledger'[i] = ledger[i]
         /\ ledger'[Len(ledger) + 1] = Entry
         /\ UNCHANGED <<commits, runs, inherited, baseline, tests>>
         /\ pc = "append" /\ pc' \in {"top", "done"}
BY DEF AppendEntry, Typed, process_vars, round_vars, Decide, Stop, Goto

LEMMA StepCommitInv == Typed /\ CommitInv /\ [Next]_vars => CommitInv'
<1> SUFFICES ASSUME Typed, CommitInv, [Next]_vars, ~DryRun
             PROVE  AwaitingEntry' /\ EntriesAttestTheirCommit'
  BY DEF CommitInv
<1>0. /\ AwaitingEntry /\ EntriesAttestTheirCommit
      /\ ledger \in Seq(EntryRec) /\ commits \in Seq(Nat) /\ round \in Nat
      /\ Len(ledger) \in Nat /\ Len(commits) \in Nat
  BY DEF CommitInv, Typed
<1>1. CASE AppendEntry
  <2>1. Entry.sha = Len(commits) /\ Entry.round = round
    BY DEF Entry
  <2>2. /\ Len(commits) \in 1..Len(commits) /\ commits[Len(commits)] = round
        /\ \A i \in 1..Len(ledger) : ledger[i].sha < Len(commits)
    BY <1>0, <1>1, AppendExtends DEF AwaitingEntry
  <2>3. EntriesAttestTheirCommit'
    <3> SUFFICES ASSUME NEW i \in 1..Len(ledger')
                 PROVE  /\ ledger'[i].sha \in 1..Len(commits)
                        /\ commits[ledger'[i].sha] = ledger'[i].round
                        /\ \A j \in 1..i-1 : ledger'[j].sha < ledger'[i].sha
      BY <1>1, AppendExtends DEF EntriesAttestTheirCommit
    <3>1. CASE i \in 1..Len(ledger)
      <4>1. \A j \in 1..i-1 : j \in 1..Len(ledger) /\ ledger'[j] = ledger[j]
        BY <1>1, <3>1, AppendExtends
      <4>2. ledger'[i] = ledger[i]
        BY <1>1, <3>1, AppendExtends
      <4> QED BY <1>0, <3>1, <4>1, <4>2 DEF EntriesAttestTheirCommit
    <3>2. CASE i = Len(ledger) + 1
      <4>1. \A j \in 1..i-1 : j \in 1..Len(ledger) /\ ledger'[j] = ledger[j]
        BY <1>0, <1>1, <3>2, AppendExtends
      <4>2. ledger'[i] = Entry
        BY <1>1, <3>2, AppendExtends
      <4>3. ledger'[i].sha = Len(commits) /\ ledger'[i].round = round
        BY <2>1, <4>2
      <4>4. \A j \in 1..i-1 : ledger'[j].sha < Len(commits)
        BY <2>2, <4>1
      <4> QED BY <2>2, <4>3, <4>4
    <3> QED BY <1>1, <3>1, <3>2, AppendExtends
  <2> QED BY <1>1, <2>3, AppendExtends DEF AwaitingEntry
<1>2. CASE CommitRound
  <2>1. /\ commits' = Append(commits, round) /\ UNCHANGED <<ledger, round>>
    BY <1>2 DEF CommitRound, Committed
  <2>2. /\ Len(commits') = Len(commits) + 1 /\ commits' # <<>>
        /\ commits'[Len(commits')] = round
        /\ \A i \in 1..Len(commits) : commits'[i] = commits[i]
    BY <1>0, <2>1
  <2>3. \A i \in 1..Len(ledger) : ledger[i].sha \in 1..Len(commits)
    BY <1>0 DEF EntriesAttestTheirCommit
  <2>4. AwaitingEntry'
    BY <1>0, <2>1, <2>2, <2>3 DEF AwaitingEntry
  <2>5. EntriesAttestTheirCommit'
    BY <1>0, <2>1, <2>2, <2>3 DEF EntriesAttestTheirCommit
  <2> QED BY <2>4, <2>5
<1>3. CASE Launch \/ Quiet
  <2>1. UNCHANGED <<ledger, commits>> /\ (pc' # "append" \/ UNCHANGED <<pc, round>>)
    BY <1>3 DEF Launch, Quiet, durable
  <2> QED BY <1>0, <2>1 DEF AwaitingEntry, EntriesAttestTheirCommit
<1> QED BY <1>1, <1>2, <1>3, ReceiptFrame

LEMMA StepStrayInv == Typed /\ StrayInv /\ [Next]_vars => StrayInv'
<1> SUFFICES ASSUME Typed, StrayInv, [Next]_vars, ~DryRun PROVE StrayInv'
  BY DEF StrayInv
<1>0. /\ Len(ledger) \in Nat /\ Len(commits) \in Nat /\ runs \in Nat
      /\ commits \in Seq(Nat) /\ round \in Nat
      /\ UnattestedCommits \in 0..runs
      /\ pc = "append" => UnattestedCommits >= 1
      /\ pc \notin {"append", "threw", "down"} => UnattestedCommits <= runs - 1
  BY DEF StrayInv, Typed
<1>1. CASE AppendEntry
  <2>1. UnattestedCommits' = UnattestedCommits - 1
    BY <1>0, <1>1, AppendExtends DEF UnattestedCommits
  <2> QED BY <1>0, <1>1, <2>1, AppendExtends DEF StrayInv
<1>2. CASE CommitRound
  <2>1. commits' = Append(commits, round) /\ UNCHANGED <<ledger, runs>>
        /\ pc = "commit" /\ pc' = "append"
    BY <1>2 DEF CommitRound, Committed, Goto, process_vars
  <2>2. UnattestedCommits' = UnattestedCommits + 1
    BY <1>0, <2>1 DEF UnattestedCommits
  <2> QED BY <1>0, <2>1, <2>2 DEF StrayInv
<1>3. CASE Launch
  <2>1. UnattestedCommits' = UnattestedCommits /\ runs' = runs + 1 /\ pc' = "start"
    BY <1>3 DEF Launch, UnattestedCommits, durable
  <2> QED BY <1>0, <2>1 DEF StrayInv
<1>4. CASE Quiet
  <2>1. UnattestedCommits' = UnattestedCommits /\ runs' = runs
    BY <1>4 DEF Quiet, UnattestedCommits
  <2>2. \/ pc' # "append" /\ Running /\ (pc = "append" => pc' \in {"threw", "down"})
        \/ pc' = pc
    BY <1>4 DEF Quiet
  <2>3. CASE pc' = pc
    BY <1>0, <2>1, <2>3 DEF StrayInv
  <2>4. CASE pc = "append" /\ pc' \in {"threw", "down"}
    BY <1>0, <2>1, <2>4 DEF StrayInv
  <2>5. CASE pc \notin {"append", "threw", "down"} /\ pc' # "append"
    BY <1>0, <2>1, <2>5 DEF StrayInv
  <2> QED BY <2>2, <2>3, <2>4, <2>5 DEF Running, Ended
<1> QED BY <1>1, <1>2, <1>3, <1>4, ReceiptFrame

LEMMA StepRegressionInv == Typed /\ RegressionInv /\ [Next]_vars => RegressionInv'
<1> SUFFICES ASSUME Typed, RegressionInv, [Next]_vars PROVE RegressionInv' OBVIOUS
<1>0. /\ inherited \in Nat /\ Len(ledger) \in Nat /\ inherited <= Len(ledger)
      /\ pc = "start" => inherited = Len(ledger)
      /\ RegressionHalts
  BY DEF RegressionInv, Typed
<1>1. Running => \A i \in Own : ~Regressed(baseline, ledger[i].tests)
  BY <1>0 DEF RegressionHalts, Running
<1>2. CASE AppendEntry
  <2>1. \A i \in Own' : i = Len(ledger) + 1 \/ (i \in Own /\ ledger'[i] = ledger[i])
    BY <1>0, <1>2, AppendExtends DEF Own
  <2>2. \A i \in Own : ~Regressed(baseline, ledger[i].tests)
    BY <1>1, <1>2, AppendExtends DEF Running, Ended
  <2>3. Regressed(baseline, tests) => pc' = "done" /\ reason' = "test-regression"
    BY <1>2 DEF AppendEntry, Decide, Stop
  <2>4. ledger'[Len(ledger) + 1].tests = tests
    BY <1>2, AppendExtends DEF Entry
  <2>5. RegressionHalts'
    BY <1>2, <2>1, <2>2, <2>3, <2>4, AppendExtends
       DEF RegressionHalts, Ended, Regressed
  <2> QED BY <1>0, <1>2, <2>5, AppendExtends DEF RegressionInv
<1>3. CASE Launch
  <2>1. inherited' = Len(ledger) /\ Len(ledger') = Len(ledger)
    BY <1>3 DEF Launch, durable
  <2>2. Own' = {}
    BY <1>0, <2>1 DEF Own
  <2> QED BY <1>0, <2>1, <2>2 DEF RegressionInv, RegressionHalts
<1>4. CASE CommitRound \/ Quiet
  <2>1. /\ UNCHANGED <<ledger, inherited>>
        /\ \/ Running /\ pc' # "start" /\ (pc = "start" \/ UNCHANGED baseline)
           \/ UNCHANGED <<pc, reason, baseline>>
    BY <1>4 DEF CommitRound, Quiet, Goto, Running, Ended, process_vars
  <2>2. CASE Running /\ pc' # "start" /\ (pc = "start" \/ UNCHANGED baseline)
    <3>1. \A i \in Own' : ~Regressed(baseline', ledger'[i].tests)
      BY <1>0, <1>1, <2>1, <2>2 DEF Own, Regressed
    <3> QED BY <1>0, <2>1, <2>2, <3>1 DEF RegressionInv, RegressionHalts
  <2>3. CASE UNCHANGED <<pc, reason, baseline>>
    BY <1>0, <2>1, <2>3 DEF RegressionInv, RegressionHalts, Own, Regressed
  <2> QED BY <2>1, <2>2, <2>3
<1> QED BY <1>2, <1>3, <1>4, ReceiptFrame

\* Every entry names a commit of its own round, and no two the same one, over
\* any number of processes, crashes and refused appends.
THEOREM EntriesNameTheirCommits == Spec => []EntriesAttestTheirCommit
<1>1. CommitInv => EntriesAttestTheirCommit
  BY DEF CommitInv, EntriesAttestTheirCommit
<1> QED BY <1>1, InitTyped, StepTyped, InitReceiptInv, StepCommitInv, PTL DEF Spec

\* A process leaves at most one commit no entry names, and only if it died
\* between the two.
THEOREM StrayCommitsAreBounded == Spec => []AtMostOneStrayCommitPerRun
<1>1. StrayInv => AtMostOneStrayCommitPerRun
  BY DEF StrayInv, AtMostOneStrayCommitPerRun
<1> QED BY <1>1, InitTyped, StepTyped, InitReceiptInv, StepStrayInv, PTL DEF Spec

\* No run goes on after a round that broke a passing suite.
THEOREM RegressionsHalt == Spec => []RegressionHalts
<1>1. RegressionInv => RegressionHalts
  BY DEF RegressionInv
<1> QED BY <1>1, InitTyped, StepTyped, InitReceiptInv, StepRegressionInv, PTL DEF Spec

-----------------------------------------------------------------------------
(* The confirm loop                                                        *)

\* During the confirm loop a finding waits, is in the batch, or was dropped.
TriageInv ==
  /\ pc \in {"detect", "hunt"} => batch = Nothing /\ dropped = Nothing
  /\ pc = "triage" =>
       /\ DOMAIN working = todo \cup DOMAIN batch \cup DOMAIN dropped
       /\ todo \cap (DOMAIN batch \cup DOMAIN dropped) = {}
       /\ DOMAIN batch \cap DOMAIN dropped = {}
  /\ EveryFindingIsAnswered

LEMMA WithDomain == ASSUME NEW m, NEW f, NEW v PROVE DOMAIN With(m, f, v) = DOMAIN m \cup {f}
BY DEF With

LEMMA NothingDomain == DOMAIN Nothing = {}
BY DEF Nothing

\* The steps of the confirm loop that answer a finding.
Answers(f) ==
  /\ pc = "triage" /\ f \in todo /\ pc' = pc
  /\ UNCHANGED <<working, open, reopened>>
  /\ todo' = todo \ {f}
  /\ \/ DOMAIN batch' = DOMAIN batch \cup {f} /\ UNCHANGED dropped
     \/ DOMAIN dropped' = DOMAIN dropped \cup {f} /\ UNCHANGED batch

LEMMA EachAnswers ==
  ASSUME NEW f \in Finding, NEW outcome, NEW severity,
         \/ KeepConfirmed(f) \/ CarryDismissal(f) \/ DismissCandidate(f)
         \/ RecheckClosure(f, outcome) \/ PromoteCandidate(f, severity, outcome)
  PROVE  Answers(f)
<1> USE DEF Answers, run_vars
<1>1. CASE KeepConfirmed(f)
  BY <1>1, WithDomain DEF KeepConfirmed
<1>2. CASE CarryDismissal(f)
  BY <1>2, WithDomain DEF CarryDismissal
<1>3. CASE DismissCandidate(f)
  BY <1>3, WithDomain DEF DismissCandidate
<1>4. CASE RecheckClosure(f, outcome)
  BY <1>4, WithDomain DEF RecheckClosure
<1>5. CASE PromoteCandidate(f, severity, outcome)
  <2>1. /\ pc = "triage" /\ f \in todo /\ pc' = pc /\ todo' = todo \ {f}
        /\ UNCHANGED <<working, open, reopened>>
    BY <1>5 DEF PromoteCandidate
  <2>2. \/ DOMAIN batch' = DOMAIN batch \cup {f} /\ UNCHANGED dropped
        \/ DOMAIN dropped' = DOMAIN dropped \cup {f} /\ UNCHANGED batch
    <3>1. CASE outcome = "survived"
      <4>1. /\ batch' = With(batch, f, [state |-> "confirmed", severity |-> severity,
                                        repro |-> "model"])
            /\ dropped' = dropped
        BY <1>5, <3>1 DEF PromoteCandidate
      <4> QED BY <4>1, WithDomain
    <3>2. CASE outcome # "survived"
      <4>1. dropped' = With(dropped, f, "unproven") /\ batch' = batch
        BY <1>5, <3>2 DEF PromoteCandidate
      <4> QED BY <4>1, WithDomain
    <3> QED BY <3>1, <3>2
  <2> QED BY <2>1, <2>2
<1> QED BY <1>1, <1>2, <1>3, <1>4, <1>5

\* Outside of the loop and before it, the round's lists stay as they are, but for
\* the fields an analysis sets.
Later == AfterTriage \cup Ended \cup {"start", "top"}

LEMMA StepTriageInv == Typed /\ TriageInv /\ [Next]_vars => TriageInv'
<1> SUFFICES ASSUME Typed, TriageInv, [Next]_vars PROVE TriageInv' OBVIOUS
<1> USE DEF Ended, Goto, Stop, Boundary, round_vars, run_vars, process_vars, durable,
            Later, AfterTriage
<1>1. CASE /\ UNCHANGED <<working, dropped>> /\ DOMAIN batch' = DOMAIN batch
           /\ pc \in Later /\ pc' \in Later
           /\ (pc' \in AfterTriage => pc \in AfterTriage)
  BY <1>1 DEF TriageInv, EveryFindingIsAnswered
<1>2. CASE pc' \in Ended \cup {"start", "top"}
  BY <1>2 DEF TriageInv, EveryFindingIsAnswered
<1>3. CASE StartRound
  BY <1>3, <1>2 DEF StartRound, ForgetRound, TriageInv, EveryFindingIsAnswered
<1>4. CASE Detect
  BY <1>4 DEF Detect, TriageInv, EveryFindingIsAnswered
<1>5. CASE Hunt
  BY <1>5, NothingDomain DEF Hunt, TriageInv, EveryFindingIsAnswered
<1>6. ASSUME NEW f \in Finding, Answers(f) PROVE TriageInv'
  <2>1. /\ DOMAIN working = todo \cup DOMAIN batch \cup DOMAIN dropped
        /\ todo \cap (DOMAIN batch \cup DOMAIN dropped) = {}
        /\ DOMAIN batch \cap DOMAIN dropped = {}
    BY <1>6 DEF Answers, TriageInv
  <2>2. CASE DOMAIN batch' = DOMAIN batch \cup {f} /\ UNCHANGED dropped
    BY <1>6, <2>1, <2>2 DEF Answers, TriageInv, EveryFindingIsAnswered
  <2>3. CASE DOMAIN dropped' = DOMAIN dropped \cup {f} /\ UNCHANGED batch
    BY <1>6, <2>1, <2>3 DEF Answers, TriageInv, EveryFindingIsAnswered
  <2> QED BY <1>6, <2>2, <2>3 DEF Answers
<1>7. CASE TriageDone
  BY <1>7 DEF TriageDone, TriageInv, EveryFindingIsAnswered
<1>8. ASSUME NEW f \in Finding, NEW outcome, NEW severity, Analyze(f, severity, outcome)
      PROVE  TriageInv'
  <2>1. DOMAIN batch' = DOMAIN batch
    BY <1>8 DEF Analyze
  <2> QED BY <1>1, <1>8, <2>1 DEF Analyze
<1>9. CASE AbortSignal \/ UNCHANGED vars
  BY <1>9 DEF AbortSignal, vars, TriageInv, EveryFindingIsAnswered
<1>10. CASE Environment
  BY <1>2, <1>9, <1>10 DEF Environment, AbortDuringTurn, Crash, Launch
<1>11. CASE Step
  <2>1. CASE \/ \E resume \in BOOLEAN : Setup(resume)
             \/ SetupFails \/ CapReached \/ CommitFails \/ AppendRefused \/ TurnFails
             \/ AppendEntry
    BY <1>2, <2>1
       DEF Setup, SetupFails, CapReached, CommitFails, AppendRefused, TurnFails,
           AppendEntry, Decide
  <2>2. CASE AnalyzeDone \/ PlanFix \/ Fix \/ RebuildFails \/ VerifyBatch
    BY <1>1, <1>2, <2>2 DEF AnalyzeDone, PlanFix, Fix, RebuildFails, VerifyBatch
  <2>3. CASE TestGate \/ CrossCheck \/ CommitRound
    BY <1>1, <2>3 DEF TestGate, CrossCheck, CommitRound
  <2>4. ASSUME NEW f \in Finding,
               KeepConfirmed(f) \/ CarryDismissal(f) \/ DismissCandidate(f)
        PROVE  TriageInv'
    BY <1>6, <2>4, EachAnswers
  <2>5. ASSUME NEW f \in Finding, NEW outcome, RecheckClosure(f, outcome)
        PROVE  TriageInv'
    BY <1>6, <2>5, EachAnswers
  <2>6. ASSUME NEW f \in Finding, NEW outcome, NEW severity,
               PromoteCandidate(f, severity, outcome)
        PROVE  TriageInv'
    BY <1>6, <2>6, EachAnswers
  <2> QED BY <1>3, <1>4, <1>5, <1>7, <1>8, <1>11, <2>1, <2>2, <2>3, <2>4, <2>5, <2>6
             DEF Step
<1> QED BY <1>9, <1>10, <1>11 DEF Next

LEMMA InitTriageInv == Init => TriageInv
BY DEF Init, TriageInv, EveryFindingIsAnswered, AfterTriage

\* By the end of the confirm loop every finding within the bar is in the batch or
\* was dropped for a reason, and none is both, whatever the lists it came from.
THEOREM FindingsAreAnswered == Spec => []EveryFindingIsAnswered
<1>1. TriageInv => EveryFindingIsAnswered
  BY DEF TriageInv
<1> QED BY <1>1, InitTyped, StepTyped, InitTriageInv, StepTriageInv, PTL DEF Spec

-----------------------------------------------------------------------------
(* Nothing is fixed on a model's word                                      *)

\* The repro of a record is the detector's for a crash, or one of S reproduced.
ProvenAs(f, record, S) ==
  /\ record.repro # "placeholder"
  /\ (f \notin Crashes \/ record.repro = "model") => f \in S

ProvenMap(m, S) ==
  \A f \in DOMAIN m : m[f].state = "confirmed" => ProvenAs(f, m[f], S)

ProvenClosures(m, S) ==
  \A f \in DOMAIN m : m[f].verdict = "closed" => ProvenAs(f, m[f], S)

\* Confirmed findings stay proven wherever they are carried: an agent is asked
\* about a finding, and may lose its repro, only while no list has it confirmed.
ProofInv ==
  /\ \A f \in DOMAIN batch : batch[f].state = "confirmed"
  /\ ProvenMap(batch, shown) /\ ProvenMap(working, shown)
  /\ ProvenMap(open, shown) /\ ProvenMap(reopened, shown)
  /\ ProvenClosures(remembered, shown)
  /\ pc \in {"detect", "hunt", "triage"} => reopened = Nothing
  /\ pc = "hunt" => \A f \in DOMAIN open : f \in DOMAIN working
  /\ pc \in {"hunt", "triage"} =>
       \A f \in DOMAIN open \cap DOMAIN working : working[f] = open[f]

LEMMA InitProofInv == Init => ProofInv
BY NothingDomain DEF Init, ProofInv, ProvenMap, ProvenClosures

\* What is proven stays so when more repros have been seen, and when one is lost
\* of a finding nobody has confirmed.
LEMMA ProvenMore ==
  ASSUME NEW m, NEW S, NEW T, ProvenMap(m, S), S \subseteq T
  PROVE  ProvenMap(m, T)
BY DEF ProvenMap, ProvenAs

LEMMA ProvenLess ==
  ASSUME NEW m, NEW S, NEW f, ProvenMap(m, S),
         f \in DOMAIN m => m[f].state # "confirmed"
  PROVE  ProvenMap(m, S \ {f})
BY DEF ProvenMap, ProvenAs

LEMMA ClosuresMore ==
  ASSUME NEW m, NEW S, NEW T, ProvenClosures(m, S), S \subseteq T
  PROVE  ProvenClosures(m, T)
BY DEF ProvenClosures, ProvenAs

LEMMA ClosuresLess ==
  ASSUME NEW m, NEW S, NEW f, ProvenClosures(m, S),
         f \in DOMAIN m => m[f].verdict # "closed"
  PROVE  ProvenClosures(m, S \ {f})
BY DEF ProvenClosures, ProvenAs

\* Merging, restricting and adding to maps.
LEMMA ProvenMerge ==
  ASSUME NEW m, NEW n, NEW S, ProvenMap(m, S), ProvenMap(n, S)
  PROVE  ProvenMap(Merge(m, n), S)
BY DEF ProvenMap, Merge

LEMMA ProvenOnly ==
  ASSUME NEW m, NEW D, NEW S, ProvenMap(m, S)
  PROVE  ProvenMap(Only(m, D), S)
BY DEF ProvenMap, Only

LEMMA ProvenWith ==
  ASSUME NEW m, NEW f, NEW r, NEW S, ProvenMap(m, S),
         r.state = "confirmed" => ProvenAs(f, r, S)
  PROVE  ProvenMap(With(m, f, r), S)
BY DEF ProvenMap, With

LEMMA ClosuresWith ==
  ASSUME NEW m, NEW f, NEW S, ProvenClosures(m, S)
  PROVE  ProvenClosures(With(m, f, Dismissal), S)
BY DEF ProvenClosures, With, Dismissal

\* A detector's crash needs no repro of the broker's, its lead is a candidate, and
\* so is what a hunt raises.
LEMMA ProvenReported ==
  ASSUME NEW ids, NEW S
  PROVE  ProvenMap(Reported(ids), S)
BY DEF ProvenMap, ProvenAs, Reported

LEMMA ProvenRaised ==
  ASSUME NEW severityOf, NEW S
  PROVE  ProvenMap(Raised(severityOf), S)
BY DEF ProvenMap, Raised

\* What the confirm loop reads of a proof is the same after a step that leaves the
\* findings alone and does not enter an earlier phase.
LEMMA ProofFrame ==
  ASSUME ProofInv, UNCHANGED <<batch, working, open, reopened, remembered, shown>>,
         pc' = pc \/ pc' \notin {"detect", "hunt", "triage"}
  PROVE  ProofInv'
BY DEF ProofInv, ProvenMap, ProvenClosures, ProvenAs

LEMMA StepProofInv == Typed /\ TriageInv /\ ProofInv /\ [Next]_vars => ProofInv'
<1> SUFFICES ASSUME Typed, TriageInv, ProofInv, [Next]_vars PROVE ProofInv' OBVIOUS
<1> USE DEF Ended, Goto, Stop, Boundary, round_vars, run_vars, process_vars, durable
<1>0. /\ \A f \in DOMAIN batch : batch[f].state = "confirmed"
      /\ ProvenMap(batch, shown) /\ ProvenMap(working, shown)
      /\ ProvenMap(open, shown) /\ ProvenMap(reopened, shown)
      /\ ProvenClosures(remembered, shown)
      /\ pc \in {"detect", "hunt", "triage"} => reopened = Nothing
      /\ pc = "hunt" => \A f \in DOMAIN open : f \in DOMAIN working
      /\ pc \in {"hunt", "triage"} =>
           \A f \in DOMAIN open \cap DOMAIN working : working[f] = open[f]
  BY DEF ProofInv
<1>1. \A S : ProvenMap(Nothing, S) /\ ProvenClosures(Nothing, S)
  BY NothingDomain DEF ProvenMap, ProvenClosures
<1>2. CASE StartRound
  <2>1. CASE aborted
    BY <1>2, <2>1, ProofFrame DEF StartRound
  <2>2. CASE ~aborted
    BY <1>0, <1>1, <1>2, <2>2, NothingDomain DEF StartRound, ForgetRound, ProofInv
  <2> QED BY <2>1, <2>2
<1>3. CASE Detect
  <2>1. PICK ids \in SUBSET (Crashes \cup Leads) :
          working' = Merge(open, Reported(ids))
    BY <1>3 DEF Detect
  <2>2. /\ pc = "detect" /\ pc' \in {"hunt", "done"}
        /\ UNCHANGED <<batch, open, reopened, remembered, shown>>
    BY <1>3 DEF Detect
  <2>3. ProvenMap(working', shown)
    BY <1>0, <2>1, ProvenMerge, ProvenReported
  <2>4. \A f \in DOMAIN open : f \in DOMAIN working' /\ working'[f] = open[f]
    BY <2>1 DEF Merge
  <2> QED BY <1>0, <2>2, <2>3, <2>4 DEF ProofInv
<1>4. CASE Hunt
  <2>1. PICK severityOf : working' = WithinBar(Merge(working, Raised(severityOf)))
    BY <1>4 DEF Hunt
  <2>2. /\ pc = "hunt" /\ pc' \in {"triage", "done"}
        /\ UNCHANGED <<batch, open, reopened, remembered, shown>>
    BY <1>4 DEF Hunt
  <2>3. ProvenMap(working', shown)
    BY <1>0, <2>1, ProvenMerge, ProvenRaised, ProvenOnly DEF WithinBar
  <2>4. \A f \in DOMAIN open \cap DOMAIN working' : working'[f] = open[f]
    BY <1>0, <2>1, <2>2 DEF WithinBar, Only, Merge
  <2> QED BY <1>0, <2>2, <2>3, <2>4 DEF ProofInv
<1>5. ASSUME NEW f \in Finding, KeepConfirmed(f) PROVE ProofInv'
  <2>1. /\ pc = "triage" /\ f \in DOMAIN working /\ working[f].state = "confirmed"
        /\ batch' = With(batch, f, working[f])
        /\ UNCHANGED <<pc, working, open, reopened, remembered, shown>>
    BY <1>5 DEF KeepConfirmed, Typed
  <2>2. ProvenMap(batch', shown)
    BY <1>0, <2>1, ProvenWith DEF ProvenMap
  <2>3. \A g \in DOMAIN batch' : batch'[g].state = "confirmed"
    BY <1>0, <2>1 DEF With
  <2> QED BY <1>0, <2>1, <2>2, <2>3 DEF ProofInv
<1>6. ASSUME NEW f \in Finding, CarryDismissal(f) PROVE ProofInv'
  BY <1>6, ProofFrame DEF CarryDismissal
<1>7. ASSUME NEW f \in Finding, NEW outcome, RecheckClosure(f, outcome) PROVE ProofInv'
  <2>1. CASE outcome = "survived"
    <3> DEFINE again == [working[f] EXCEPT !.state = "confirmed",
                                           !.repro = remembered[f].repro]
    <3>1. /\ pc = "triage" /\ f \in DOMAIN working
          /\ f \in DOMAIN remembered /\ remembered[f].verdict = "closed"
          /\ batch' = With(batch, f, again)
          /\ UNCHANGED <<pc, working, open, reopened, remembered, shown>>
      BY <1>7, <2>1 DEF RecheckClosure, Remembers, Typed
    <3>2. working[f] \in FindingRec
      BY <3>1, MapDef DEF Typed, FindingMap
    <3>3. again.state = "confirmed" /\ again.repro = remembered[f].repro
      BY <3>2 DEF FindingRec
    <3> HIDE DEF again
    <3>4. ProvenAs(f, again, shown)
      BY <1>0, <3>1, <3>3 DEF ProvenClosures, ProvenAs
    <3>5. ProvenMap(batch', shown)
      BY <1>0, <3>1, <3>4, ProvenWith
    <3>6. \A g \in DOMAIN batch' : batch'[g].state = "confirmed"
      BY <1>0, <3>1, <3>3 DEF With
    <3> QED BY <1>0, <3>1, <3>5, <3>6 DEF ProofInv
  <2>2. CASE outcome # "survived"
    BY <1>7, <2>2, ProofFrame DEF RecheckClosure
  <2> QED BY <2>1, <2>2
<1>8. ASSUME NEW f \in Finding, DismissCandidate(f) PROVE ProofInv'
  <2>1. /\ pc = "triage" /\ remembered' = With(remembered, f, Dismissal)
        /\ UNCHANGED <<pc, batch, working, open, reopened, shown>>
    BY <1>8 DEF DismissCandidate
  <2>2. ProvenClosures(remembered', shown)
    BY <1>0, <2>1, ClosuresWith
  <2> QED BY <1>0, <2>1, <2>2 DEF ProofInv
<1>9. ASSUME NEW f \in Finding, NEW outcome, NEW severity,
             PromoteCandidate(f, severity, outcome)
      PROVE  ProofInv'
  <2>1. /\ pc = "triage" /\ f \in todo /\ f \in DOMAIN working
        /\ working[f].state = "candidate"
        /\ ~Remembers(f, "closed")
        /\ UNCHANGED <<pc, working, open, reopened>>
    BY <1>9 DEF PromoteCandidate, NeedsTurn, Typed
  <2>2. CASE outcome = "survived"
    <3> DEFINE proven == [state |-> "confirmed", severity |-> severity,
                          repro |-> "model"]
    <3>1. /\ batch' = With(batch, f, proven) /\ shown' = shown \cup {f}
          /\ UNCHANGED remembered
      BY <1>9, <2>2 DEF PromoteCandidate
    <3>2. ProvenAs(f, proven, shown') /\ proven.state = "confirmed"
      BY <3>1 DEF ProvenAs
    <3> HIDE DEF proven
    <3>3. shown \subseteq shown'
      BY <3>1
    <3>4. ProvenMap(batch', shown')
      BY <1>0, <3>1, <3>2, <3>3, ProvenMore, ProvenWith
    <3>5. /\ ProvenMap(working, shown') /\ ProvenMap(open, shown')
          /\ ProvenMap(reopened, shown') /\ ProvenClosures(remembered, shown')
      BY <1>0, <3>3, ProvenMore, ClosuresMore
    <3>6. \A g \in DOMAIN batch' : batch'[g].state = "confirmed"
      BY <1>0, <3>1, <3>2 DEF With
    <3> QED BY <1>0, <2>1, <3>1, <3>4, <3>5, <3>6 DEF ProofInv
  <2>3. CASE outcome # "survived"
    <3>1. /\ remembered' = With(remembered, f, Dismissal) /\ shown' = shown \ {f}
          /\ UNCHANGED batch
      BY <1>9, <2>3 DEF PromoteCandidate
    <3>2. f \notin DOMAIN batch
      BY <2>1 DEF TriageInv
    <3>3. f \in DOMAIN open => open[f].state # "confirmed"
      BY <1>0, <2>1
    <3>4. ProvenMap(batch, shown') /\ ProvenMap(working, shown') /\ ProvenMap(open, shown')
      BY <1>0, <2>1, <3>1, <3>2, <3>3, ProvenLess
    <3>5. ProvenMap(reopened, shown')
      BY <1>0, <1>1, <2>1
    <3>6. ProvenClosures(remembered, shown')
      BY <1>0, <2>1, <3>1, ClosuresLess DEF Remembers
    <3>7. ProvenClosures(remembered', shown')
      BY <3>1, <3>6, ClosuresWith
    <3> QED BY <1>0, <2>1, <3>1, <3>4, <3>5, <3>7 DEF ProofInv
  <2> QED BY <2>2, <2>3
<1>10. ASSUME NEW f \in Finding, NEW outcome, NEW severity, Analyze(f, severity, outcome)
       PROVE  ProofInv'
  <2>1. /\ pc = "analyze" /\ pc' = pc /\ f \in DOMAIN batch /\ shown \subseteq shown'
        /\ UNCHANGED <<working, open, reopened, remembered>>
    BY <1>10 DEF Analyze, Unanalyzed
  <2>2. batch \in [DOMAIN batch -> FindingRec]
    BY MapDef DEF Typed, FindingMap
  <2>3. /\ DOMAIN batch' = DOMAIN batch
        /\ \A g \in DOMAIN batch \ {f} : batch'[g] = batch[g]
        /\ batch'[f].state = batch[f].state
        /\ \/ batch'[f].repro = batch[f].repro
           \/ batch'[f].repro = "model" /\ f \in shown'
    <3>1. batch[f] \in FindingRec
      BY <2>1, <2>2
    <3>2. CASE outcome = "survived"
      <4>1. /\ batch' = [batch EXCEPT ![f].severity = severity, ![f].repro = "model"]
            /\ shown' = shown \cup {f}
        BY <1>10, <3>2 DEF Analyze
      <4> QED BY <2>1, <3>1, <4>1 DEF FindingRec
    <3>3. CASE outcome # "survived"
      <4>1. batch' = [batch EXCEPT ![f].severity = severity]
        BY <1>10, <3>3 DEF Analyze
      <4> QED BY <2>1, <3>1, <4>1 DEF FindingRec
    <3> QED BY <3>2, <3>3
  <2>4. \A g \in DOMAIN batch' : batch'[g].state = "confirmed"
    BY <1>0, <2>1, <2>3
  <2>5. ProvenMap(batch, shown')
    BY <1>0, <2>1, ProvenMore
  <2>6. ProvenMap(batch', shown')
    BY <1>0, <2>1, <2>3, <2>5 DEF ProvenMap, ProvenAs
  <2>7. /\ ProvenMap(working, shown') /\ ProvenMap(open, shown')
        /\ ProvenMap(reopened, shown') /\ ProvenClosures(remembered, shown')
    BY <1>0, <2>1, ProvenMore, ClosuresMore
  <2> QED BY <2>1, <2>4, <2>6, <2>7 DEF ProofInv
<1>11. CASE CrossCheck
  <2>1. PICK crashes, leads :
          reopened' = Merge(Reported(RefuzzNews(crashes, Unresolved)),
                            WithinBar(Reported(leads)))
    BY <1>11 DEF CrossCheck
  <2>2. ProvenMap(reopened', shown)
    BY <2>1, ProvenReported, ProvenOnly, ProvenMerge DEF WithinBar
  <2>3. pc' = "commit" /\ UNCHANGED <<batch, working, open, remembered, shown>>
    BY <1>11 DEF CrossCheck
  <2> QED BY <1>0, <2>2, <2>3 DEF ProofInv
<1>12. CASE CommitRound
  <2>1. /\ remembered' = Merge(Closures, remembered) /\ pc' = "append"
        /\ UNCHANGED <<batch, working, open, reopened, shown>>
    BY <1>12 DEF CommitRound
  <2>2. ProvenClosures(Closures, shown)
    BY <1>0 DEF Closures, ProvenClosures, ProvenMap, ProvenAs
  <2>3. ProvenClosures(remembered', shown)
    BY <1>0, <2>1, <2>2 DEF ProvenClosures, Merge
  <2> QED BY <1>0, <2>1, <2>3 DEF ProofInv
<1>13. CASE AppendEntry
  <2>1. /\ open' = Merge(Only(batch, Unresolved), reopened) /\ pc' \in {"top", "done"}
        /\ UNCHANGED <<batch, working, reopened, remembered, shown>>
    BY <1>13 DEF AppendEntry, StillOpen, Decide
  <2>2. ProvenMap(open', shown)
    BY <1>0, <2>1, ProvenOnly, ProvenMerge
  <2> QED BY <1>0, <2>1, <2>2 DEF ProofInv
<1>14. CASE Crash \/ Launch
  <2>1. /\ batch' = Nothing /\ working' = Nothing /\ open' = Nothing
        /\ reopened' = Nothing /\ remembered' = Nothing /\ pc' \in {"down", "start"}
    BY <1>14 DEF Crash, Launch, ForgetRound, ForgetRun
  <2> QED BY <1>1, <2>1, NothingDomain DEF ProofInv
<1>15. CASE AbortDuringTurn \/ AbortSignal \/ UNCHANGED vars
  BY <1>15, ProofFrame DEF AbortDuringTurn, AbortSignal, vars
<1>16. CASE Step
  <2>1. CASE \/ \E resume \in BOOLEAN : Setup(resume)
             \/ SetupFails \/ CapReached \/ CommitFails \/ AppendRefused \/ TurnFails
    BY <2>1, ProofFrame
       DEF Setup, SetupFails, CapReached, CommitFails, AppendRefused, TurnFails
  <2>2. CASE TriageDone \/ AnalyzeDone \/ PlanFix \/ Fix
    BY <2>2, ProofFrame DEF TriageDone, AnalyzeDone, PlanFix, Fix
  <2>3. CASE RebuildFails \/ VerifyBatch \/ TestGate
    BY <2>3, ProofFrame DEF RebuildFails, VerifyBatch, TestGate
  <2> QED
    BY <1>2, <1>3, <1>4, <1>5, <1>6, <1>7, <1>8, <1>9, <1>10, <1>11, <1>12, <1>13,
       <1>16, <2>1, <2>2, <2>3 DEF Step
<1> QED BY <1>14, <1>15, <1>16 DEF Next, Environment

\* Nothing is fixed on a model's word: what enters a batch is a detector's crash or
\* was seen to reproduce by the broker, through every list that carries it.
THEOREM BatchesAreProven == Spec => []BatchIsProven
<1>1. ProofInv => BatchIsProven
  BY DEF ProofInv, ProvenMap, ProvenAs, BatchIsProven
<1> QED
  BY <1>1, InitTyped, StepTyped, InitTriageInv, StepTriageInv, InitProofInv,
     StepProofInv, PTL DEF Spec

-----------------------------------------------------------------------------
(* An abort before the verdicts                                            *)

\* An abort signalled before the round's repros are judged leaves no trace of that
\* round: every way on from there looks at the signal, whatever phase it came in.
THEOREM EarlyAbortsLeaveNoReceipt == Spec => EarlyAbortLeavesNoReceipt
<1> DEFINE Traceless == (aborted /\ pc \in BeforeTheVerdicts) =>
                          pc' \in BeforeTheVerdicts \cup Ended /\ UNCHANGED durable
<1>1. [Next]_vars => [Traceless]_vars
  <2> SUFFICES ASSUME Next, aborted, pc \in BeforeTheVerdicts
               PROVE  pc' \in BeforeTheVerdicts \cup Ended /\ UNCHANGED durable
    OBVIOUS
  <2> USE DEF BeforeTheVerdicts, Phases, Ended, Goto, Stop, Boundary, durable
  <2>1. CASE Environment
    BY <2>1 DEF Environment, AbortDuringTurn, AbortSignal, Crash, Launch, Running
  <2>2. CASE \/ \E resume \in BOOLEAN : Setup(resume)
             \/ SetupFails \/ CapReached \/ StartRound \/ Detect \/ Hunt
    BY <2>2 DEF Setup, SetupFails, CapReached, StartRound, Detect, Hunt
  <2>3. CASE TriageDone \/ AnalyzeDone \/ PlanFix \/ Fix \/ RebuildFails \/ VerifyBatch
    BY <2>3 DEF TriageDone, AnalyzeDone, PlanFix, Fix, RebuildFails, VerifyBatch
  <2>4. CASE TestGate \/ CrossCheck \/ CommitRound \/ AppendEntry
    BY <2>4 DEF TestGate, CrossCheck, CommitRound, AppendEntry
  <2>5. CASE CommitFails \/ AppendRefused \/ TurnFails
    BY <2>5 DEF CommitFails, AppendRefused, TurnFails
  <2>6. ASSUME NEW f \in Finding, NEW outcome, NEW severity,
               \/ KeepConfirmed(f) \/ CarryDismissal(f) \/ DismissCandidate(f)
               \/ RecheckClosure(f, outcome) \/ PromoteCandidate(f, severity, outcome)
               \/ Analyze(f, severity, outcome)
        PROVE  pc' \in BeforeTheVerdicts \cup Ended /\ UNCHANGED durable
    BY <2>6 DEF KeepConfirmed, CarryDismissal, DismissCandidate, RecheckClosure,
                PromoteCandidate, Analyze
  <2>7. CASE Step
    BY <2>2, <2>3, <2>4, <2>5, <2>6, <2>7 DEF Step
  <2> QED BY <2>1, <2>7 DEF Next
<1> QED BY <1>1, PTL DEF Spec, EarlyAbortLeavesNoReceipt

-----------------------------------------------------------------------------
(* Carried arguments                                                       *)

\* A remembered dismissal is no younger than the last turn about its finding, and
\* no turn is of a round to come.
ArgumentInv ==
  /\ pc \notin {"start"} \cup Ended => round >= 1
  /\ pc = "start" => round = 0
  /\ \A f \in Finding : judged[f] <= round
  /\ \A f \in DOMAIN remembered :
       remembered[f].verdict = "dismissed" => remembered[f].at \in 1..judged[f]
  /\ CarriedArgumentsAreFresh

LEMMA InitArgumentInv == Init => ArgumentInv
BY NothingDomain DEF Init, ArgumentInv, CarriedArgumentsAreFresh, AfterTriage

\* A step that leaves the arguments alone and enters no confirm loop.
LEMMA ArgumentFrame ==
  ASSUME ArgumentInv, UNCHANGED <<round, remembered, judged, dropped>>,
         pc' # "start" \/ pc = "start",
         \/ pc' = pc
         \/ pc' \in Ended
         \/ pc \in AfterTriage \cup {"triage"}
         \/ pc \notin {"start"} \cup Ended /\ pc' \notin AfterTriage \cup {"triage"}
  PROVE  ArgumentInv'
BY DEF ArgumentInv, CarriedArgumentsAreFresh, AfterTriage, Ended

LEMMA StepArgumentInv == Typed /\ TriageInv /\ ArgumentInv /\ [Next]_vars => ArgumentInv'
<1> SUFFICES ASSUME Typed, TriageInv, ArgumentInv, [Next]_vars PROVE ArgumentInv' OBVIOUS
<1> USE DEF Ended, Goto, Stop, Boundary, AfterTriage, round_vars, run_vars, process_vars,
            durable
<1>0. /\ pc \notin {"start"} \cup Ended => round >= 1
      /\ pc = "start" => round = 0
      /\ \A f \in Finding : judged[f] <= round
      /\ \A f \in DOMAIN remembered :
           remembered[f].verdict = "dismissed" => remembered[f].at \in 1..judged[f]
      /\ CarriedArgumentsAreFresh
      /\ round \in Nat /\ judged \in [Finding -> Nat] /\ DismissalLife \in Nat \ {0}
      /\ Len(ledger) \in Nat
  BY BrokerAssumption DEF ArgumentInv, Typed
<1>1. CASE \E resume \in BOOLEAN : Setup(resume)
  <2>1. /\ round' \in Nat /\ round' >= 1 /\ pc' = "top" /\ UNCHANGED <<remembered, judged>>
        /\ round = 0
    BY <1>0, <1>1 DEF Setup, NextRound
  <2> QED BY <1>0, <2>1 DEF ArgumentInv, CarriedArgumentsAreFresh
<1>2. CASE StartRound
  <2>1. pc = "top" /\ pc' \in {"detect", "done"} /\ UNCHANGED <<round, remembered, judged>>
    BY <1>2 DEF StartRound
  <2> QED BY <1>0, <2>1 DEF ArgumentInv, CarriedArgumentsAreFresh
<1>3. CASE Hunt
  <2>1. /\ dropped = Nothing /\ round >= 1 /\ pc' \in {"triage", "done"}
        /\ UNCHANGED <<round, remembered, judged, dropped>>
    BY <1>0, <1>3 DEF Hunt, TriageInv
  <2> QED BY <1>0, <2>1, NothingDomain DEF ArgumentInv, CarriedArgumentsAreFresh
<1>4. ASSUME NEW f \in Finding, CarryDismissal(f) PROVE ArgumentInv'
  <2>1. /\ pc = "triage" /\ UNCHANGED <<pc, round, remembered, judged>>
        /\ dropped' = With(dropped, f, "carried")
        /\ f \in DOMAIN remembered /\ remembered[f].verdict = "dismissed"
        /\ round - remembered[f].at < DismissalLife
    BY <1>4 DEF CarryDismissal, CarriesDismissal, Remembers
  <2>2. judged[f] # 0 /\ round - judged[f] < DismissalLife
    BY <1>0, <2>1
  <2> QED BY <1>0, <2>1, <2>2 DEF ArgumentInv, CarriedArgumentsAreFresh, With
<1>5. ASSUME NEW f \in Finding, NEW outcome \in VerifyOutcomes, RecheckClosure(f, outcome)
      PROVE  ArgumentInv'
  <2>1. /\ pc = "triage" /\ UNCHANGED <<pc, round, remembered, judged>>
        /\ UNCHANGED dropped \/ dropped' = With(dropped, f, outcome)
    BY <1>5 DEF RecheckClosure
  <2> QED BY <1>0, <2>1 DEF ArgumentInv, CarriedArgumentsAreFresh, With, VerifyOutcomes
\* An agent turn about f: the one step that makes arguments.
<1>6. ASSUME NEW f \in Finding, NEW why \in {"dismissed", "unproven"},
             pc = "triage", UNCHANGED <<pc, round>>,
             judged' = [judged EXCEPT ![f] = round],
             remembered' = remembered \/ remembered' = With(remembered, f, Dismissal),
             dropped' = dropped \/ dropped' = With(dropped, f, why)
      PROVE  ArgumentInv'
  <2>1. /\ round >= 1 /\ judged'[f] = round
        /\ \A g \in Finding \ {f} : judged'[g] = judged[g]
    BY <1>0, <1>6
  <2>2. /\ DOMAIN remembered \subseteq Finding /\ DOMAIN dropped \subseteq Finding
        /\ DOMAIN remembered' \subseteq Finding /\ DOMAIN dropped' \subseteq Finding
    BY <1>6, MapDef DEF Typed, VerdictMap, With
  <2>3. ASSUME NEW g \in DOMAIN remembered', remembered'[g].verdict = "dismissed"
        PROVE  remembered'[g].at \in 1..judged'[g]
    <3>1. CASE g = f
      <4>1. CASE remembered' = remembered
        BY <1>0, <2>1, <2>3, <3>1, <4>1
      <4>2. CASE remembered' = With(remembered, f, Dismissal)
        BY <1>0, <2>1, <3>1, <4>2 DEF With, Dismissal
      <4> QED BY <1>6, <4>1, <4>2
    <3>2. CASE g # f
      BY <1>0, <1>6, <2>1, <2>2, <2>3, <3>2 DEF With
    <3> QED BY <3>1, <3>2
  <2>4. ASSUME NEW g \in DOMAIN dropped', dropped'[g] = "carried"
        PROVE  judged'[g] # 0 /\ round - judged'[g] < DismissalLife
    <3>1. CASE g = f
      BY <1>0, <2>1, <3>1
    <3>2. CASE g # f
      <4>1. g \in DOMAIN dropped /\ dropped[g] = "carried"
        BY <1>6, <2>4, <3>2 DEF With
      <4> QED BY <1>0, <1>6, <2>1, <2>2, <3>2, <4>1 DEF CarriedArgumentsAreFresh
    <3> QED BY <3>1, <3>2
  <2>5. \A g \in Finding : judged'[g] <= round
    BY <1>0, <2>1
  <2> QED BY <1>0, <1>6, <2>3, <2>4, <2>5 DEF ArgumentInv, CarriedArgumentsAreFresh
<1>7. ASSUME NEW f \in Finding, DismissCandidate(f) PROVE ArgumentInv'
  BY <1>6, <1>7 DEF DismissCandidate
<1>8. ASSUME NEW f \in Finding, NEW outcome, NEW severity,
             PromoteCandidate(f, severity, outcome)
      PROVE  ArgumentInv'
  <2>1. /\ pc = "triage" /\ UNCHANGED <<pc, round>>
        /\ judged' = [judged EXCEPT ![f] = round]
    BY <1>8 DEF PromoteCandidate
  <2>2. /\ remembered' = remembered \/ remembered' = With(remembered, f, Dismissal)
        /\ dropped' = dropped \/ dropped' = With(dropped, f, "unproven")
    BY <1>8 DEF PromoteCandidate
  <2> QED BY <1>6, <2>1, <2>2
<1>9. CASE CommitRound
  <2>1. /\ pc = "commit" /\ pc' = "append" /\ UNCHANGED <<round, judged, dropped>>
        /\ remembered' = Merge(Closures, remembered)
    BY <1>9 DEF CommitRound
  <2>2. \A f \in DOMAIN remembered' :
          remembered'[f].verdict = "dismissed" => remembered'[f].at \in 1..judged'[f]
    BY <1>0, <2>1 DEF Merge, Closures
  <2> QED BY <1>0, <2>1, <2>2 DEF ArgumentInv, CarriedArgumentsAreFresh
<1>10. CASE AppendEntry
  <2>1. /\ pc = "append" /\ pc' \in {"top", "done"} /\ UNCHANGED <<remembered, judged>>
        /\ round' \in {round, round + 1}
    BY <1>10 DEF AppendEntry, Decide
  <2> QED BY <1>0, <2>1 DEF ArgumentInv, CarriedArgumentsAreFresh
<1>11. CASE Crash \/ Launch
  <2>1. /\ remembered' = Nothing /\ judged' = [f \in Finding |-> 0]
        /\ \/ pc' = "down" /\ round' = round
           \/ pc' = "start" /\ round' = 0
    BY <1>11 DEF Crash, Launch, ForgetRun
  <2> QED BY <1>0, <2>1, NothingDomain DEF ArgumentInv, CarriedArgumentsAreFresh
<1>12. CASE AbortDuringTurn \/ AbortSignal \/ UNCHANGED vars
  BY <1>12, ArgumentFrame DEF AbortDuringTurn, AbortSignal, vars
<1>13. CASE Step
  <2>1. CASE SetupFails \/ CapReached \/ CommitFails \/ AppendRefused \/ TurnFails
    BY <2>1, ArgumentFrame DEF SetupFails, CapReached, CommitFails, AppendRefused, TurnFails
  <2>2. CASE Detect \/ TriageDone \/ AnalyzeDone \/ PlanFix \/ Fix
    BY <2>2, ArgumentFrame DEF Detect, TriageDone, AnalyzeDone, PlanFix, Fix
  <2>3. CASE RebuildFails \/ VerifyBatch \/ TestGate \/ CrossCheck
    BY <2>3, ArgumentFrame DEF RebuildFails, VerifyBatch, TestGate, CrossCheck
  <2>4. ASSUME NEW f \in Finding, KeepConfirmed(f) PROVE ArgumentInv'
    BY <2>4, ArgumentFrame DEF KeepConfirmed
  <2>5. ASSUME NEW f \in Finding, NEW outcome, NEW severity, Analyze(f, severity, outcome)
        PROVE  ArgumentInv'
    BY <2>5, ArgumentFrame DEF Analyze
  <2> QED BY <1>1, <1>2, <1>3, <1>4, <1>5, <1>7, <1>8, <1>9, <1>10, <1>13,
             <2>1, <2>2, <2>3, <2>4, <2>5 DEF Step
<1> QED BY <1>11, <1>12, <1>13 DEF Next, Environment

\* A finding is left out of a round on an earlier argument only if an agent turn of
\* this very process made one fewer than DismissalLife rounds ago.
THEOREM CarriedArgumentsStayFresh == Spec => []CarriedArgumentsAreFresh
<1>1. ArgumentInv => CarriedArgumentsAreFresh
  BY DEF ArgumentInv
<1> QED
  BY <1>1, InitTyped, StepTyped, InitTriageInv, StepTriageInv, InitArgumentInv,
     StepArgumentInv, PTL DEF Spec

-----------------------------------------------------------------------------
(* Remembered closures                                                     *)

\* An own entry says so.
Attests(i, f, at) ==
  /\ i \in Own /\ ledger[i].round = at
  /\ f \in DOMAIN ledger[i].results /\ ledger[i].results[f] = "closed"

AllAttested ==
  \A f \in DOMAIN remembered :
    remembered[f].verdict = "closed" => \E i \in Own : Attests(i, f, remembered[f].at)

\* A closure waits for its entry between the commit and the append alone, and a
\* round that goes on from its verdicts has one for everything in its batch.
ClosureInv ==
  /\ pc \notin {"append"} \cup Ended => AllAttested
  /\ pc \in {"test", "crosscheck", "commit", "append"} => DOMAIN results = DOMAIN batch
  /\ ClosuresAreGrounded

LEMMA InitClosureInv == Init => ClosureInv
BY NothingDomain DEF Init, ClosureInv, AllAttested, ClosuresAreGrounded

\* A step on the way to the commit adds no closure, and may take some away.
LEMMA ClosureFrame ==
  ASSUME ClosureInv, pc \notin {"append"} \cup Ended, pc' # "append",
         UNCHANGED <<ledger, inherited>>,
         \A f \in DOMAIN remembered' :
           remembered'[f].verdict = "closed" =>
             f \in DOMAIN remembered /\ remembered'[f] = remembered[f],
         pc' \in {"test", "crosscheck", "commit"} => DOMAIN results' = DOMAIN batch'
  PROVE  ClosureInv'
<1>1. AllAttested /\ Own' = Own
  BY DEF ClosureInv, Own
<1>2. AllAttested'
  BY <1>1 DEF AllAttested, Attests
<1>3. ClosuresAreGrounded'
  BY <1>2 DEF AllAttested, ClosuresAreGrounded, Attests
<1> QED BY <1>2, <1>3 DEF ClosureInv

LEMMA StepClosureInv ==
  Typed /\ RegressionInv /\ ClosureInv /\ [Next]_vars => ClosureInv'
<1> SUFFICES ASSUME Typed, RegressionInv, ClosureInv, [Next]_vars PROVE ClosureInv'
  OBVIOUS
<1> USE DEF Ended, Goto, Stop, Boundary, round_vars, run_vars, process_vars, durable
<1>0. /\ inherited \in Nat /\ Len(ledger) \in Nat /\ inherited <= Len(ledger)
      /\ ClosuresAreGrounded
      /\ pc \in {"test", "crosscheck", "commit", "append"} => DOMAIN results = DOMAIN batch
  BY DEF RegressionInv, ClosureInv, Typed
<1>1. CASE CommitRound
  <2>1. /\ pc = "commit" /\ pc' = "append" /\ remembered' = Merge(Closures, remembered)
        /\ UNCHANGED <<round, batch, results, ledger, inherited>>
    BY <1>1 DEF CommitRound
  <2>2. ClosuresAreGrounded'
    <3> SUFFICES ASSUME NEW f \in DOMAIN remembered', remembered'[f].verdict = "closed"
                 PROVE  \/ \E i \in Own : Attests(i, f, remembered'[f].at)
                        \/ /\ remembered'[f].at = round /\ f \in DOMAIN results
                           /\ results[f] = "closed"
      BY <2>1 DEF ClosuresAreGrounded, Attests, Own
    <3>1. CASE f \in DOMAIN Closures
      <4>1. remembered'[f] = Closures[f] /\ f \in DOMAIN batch /\ results[f] = "closed"
        BY <2>1, <3>1 DEF Merge, Closures, Unresolved
      <4> QED BY <1>0, <2>1, <3>1, <4>1 DEF Closures
    <3>2. CASE f \notin DOMAIN Closures
      <4>1. f \in DOMAIN remembered /\ remembered'[f] = remembered[f]
        BY <2>1, <3>2 DEF Merge
      <4> QED BY <2>1, <4>1 DEF ClosureInv, AllAttested
    <3> QED BY <3>1, <3>2
  <2> QED BY <1>0, <2>1, <2>2 DEF ClosureInv
<1>2. CASE AppendEntry
  <2>1. /\ pc = "append" /\ pc' \in {"top", "done"} /\ remembered' = remembered
        /\ Own' = inherited + 1 .. Len(ledger) + 1
        /\ ledger'[Len(ledger) + 1].round = round
        /\ ledger'[Len(ledger) + 1].results = results
    BY <1>2, AppendExtends DEF AppendEntry, Own, Entry
  <2>2. ASSUME NEW f \in DOMAIN remembered, remembered[f].verdict = "closed"
        PROVE  \E i \in Own' : Attests(i, f, remembered[f].at)'
    <3>1. CASE \E i \in Own : Attests(i, f, remembered[f].at)
      <4>1. PICK i \in Own : Attests(i, f, remembered[f].at)
        BY <3>1
      <4>2. i \in Own' /\ ledger'[i] = ledger[i]
        BY <1>0, <1>2, <2>1, AppendExtends DEF Own
      <4> QED BY <2>1, <4>1, <4>2 DEF Attests
    <3>2. CASE remembered[f].at = round /\ f \in DOMAIN results /\ results[f] = "closed"
      <4>1. Len(ledger) + 1 \in Own'
        BY <1>0, <2>1
      <4> QED BY <2>1, <3>2, <4>1 DEF Attests
    <3> QED BY <1>0, <2>2, <3>1, <3>2 DEF ClosuresAreGrounded, Attests
  <2>3. AllAttested'
    BY <2>1, <2>2 DEF AllAttested
  <2> QED BY <2>1, <2>3 DEF ClosureInv, AllAttested, ClosuresAreGrounded, Attests
<1>3. CASE Crash \/ Launch
  <2>1. remembered' = Nothing /\ pc' \in {"down", "start"}
    BY <1>3 DEF Crash, Launch, ForgetRun
  <2> QED BY <2>1, NothingDomain DEF ClosureInv, AllAttested, ClosuresAreGrounded
\* The process stops where it is, or the signal fires.
<1>4. CASE /\ UNCHANGED <<round, ledger, inherited, remembered, results, batch>>
           /\ pc' = pc \/ pc' \in Ended
  BY <1>4 DEF ClosureInv, AllAttested, ClosuresAreGrounded, Attests, Own
<1>5. CASE AbortDuringTurn \/ AbortSignal \/ UNCHANGED vars
  BY <1>4, <1>5 DEF AbortDuringTurn, AbortSignal, vars
<1>6. CASE Step
  <2>1. CASE SetupFails \/ CapReached \/ CommitFails \/ AppendRefused \/ TurnFails
    BY <2>1, <1>4 DEF SetupFails, CapReached, CommitFails, AppendRefused, TurnFails
  <2>2. CASE (\E resume \in BOOLEAN : Setup(resume)) \/ StartRound \/ Detect \/ Hunt
    BY <2>2, ClosureFrame DEF Setup, StartRound, Detect, Hunt
  <2>3. CASE TriageDone \/ AnalyzeDone \/ PlanFix \/ Fix
    BY <2>3, ClosureFrame DEF TriageDone, AnalyzeDone, PlanFix, Fix
  <2>4. CASE RebuildFails \/ VerifyBatch
    BY <2>4, ClosureFrame DEF RebuildFails, VerifyBatch
  <2>5. CASE TestGate \/ CrossCheck
    BY <1>0, <2>5, ClosureFrame DEF TestGate, CrossCheck
  <2>6. ASSUME NEW f \in Finding, KeepConfirmed(f) \/ CarryDismissal(f)
        PROVE  ClosureInv'
    BY <2>6, ClosureFrame DEF KeepConfirmed, CarryDismissal
  <2>7. ASSUME NEW f \in Finding, DismissCandidate(f) PROVE ClosureInv'
    BY <2>7, ClosureFrame DEF DismissCandidate, With, Dismissal
  <2>8. ASSUME NEW f \in Finding, NEW outcome, RecheckClosure(f, outcome)
        PROVE  ClosureInv'
    BY <2>8, ClosureFrame DEF RecheckClosure
  <2>9. ASSUME NEW f \in Finding, NEW outcome, NEW severity,
               PromoteCandidate(f, severity, outcome)
        PROVE  ClosureInv'
    <3>1. /\ pc = "triage" /\ pc' = pc /\ UNCHANGED <<ledger, inherited>>
          /\ remembered' = remembered \/ remembered' = With(remembered, f, Dismissal)
      BY <2>9 DEF PromoteCandidate
    <3> QED BY <3>1, ClosureFrame DEF With, Dismissal
  <2>10. ASSUME NEW f \in Finding, NEW outcome, NEW severity, Analyze(f, severity, outcome)
         PROVE  ClosureInv'
    BY <2>10, ClosureFrame DEF Analyze
  <2> QED BY <1>1, <1>2, <1>6, <2>1, <2>2, <2>3, <2>4, <2>5, <2>6, <2>7, <2>8, <2>9, <2>10
          DEF Step
<1> QED BY <1>3, <1>5, <1>6 DEF Next, Environment

\* A remembered closure is what a verdict of this process said, and from the append
\* on its own entry: no dismissal, failed rebuild or refused append makes one.
THEOREM ClosuresStayGrounded == Spec => []ClosuresAreGrounded
<1>1. ClosureInv => ClosuresAreGrounded
  BY DEF ClosureInv
<1>2. Init => RegressionInv
  BY InitReceiptInv
<1> QED
  BY <1>1, <1>2, InitTyped, StepTyped, StepRegressionInv, InitClosureInv, StepClosureInv,
     PTL DEF Spec

-----------------------------------------------------------------------------
(* What is owed                                                            *)

\* A finding that the severity bar and the confirm loop let through.
GoesThrough(f, m) == f \in DOMAIN m /\ m[f].state = "confirmed" /\ m[f].severity >= Bar

AllWithinBar(m) == \A f \in DOMAIN m : m[f].severity >= Bar

\* Only an agent's word puts a severity below the bar.
InLoop(severity) == severity >= Bar \/ severity \in AgentSeverities
AllInLoop(m) == \A f \in DOMAIN m : InLoop(m[f].severity)

\* What the round being received leaves to the next one.
Outstanding == {f \in Unresolved : batch[f].severity >= Bar}

\* What is owed is what the last entry left, and on its way through the lists.
OwedInv ==
  /\ Owed = LastOwed
  /\ pc \in {"top", "detect"} => \A f \in Owed : GoesThrough(f, open)
  /\ pc \in {"hunt", "triage"} => \A f \in Owed : GoesThrough(f, working)
  /\ pc = "triage" => Owed \subseteq todo \cup DOMAIN batch /\ AllWithinBar(working)
  /\ pc \in {"triage"} \cup AfterTriage => AllInLoop(batch)
  /\ OwedStayInTheLoop

\* A process with no entry of its own owes nothing, and what is owed changes with
\* the entries alone.
LEMMA NothingOwedYet ==
  ASSUME Typed, inherited = Len(ledger)
  PROVE  Own = {} /\ Owed = {} /\ LastOwed = {} /\ LastResults = Nothing
<1>1. Own = {}
  BY DEF Own, Typed
<1> QED BY <1>1, NothingDomain DEF Owed, LastOwed, LastResults

LEMMA OwedFrame ==
  ASSUME UNCHANGED <<ledger, inherited>>
  PROVE  /\ Own' = Own /\ Owed' = Owed /\ LastOwed' = LastOwed
         /\ LastResults' = LastResults
BY DEF Own, Owed, Unclosed, LastOwed, LastResults, LastGraded

\* After an append what is owed is what the new entry left: the round took up all
\* that was owed before.
LEMMA OwedAfterAppend ==
  ASSUME Typed, RegressionInv, ClosureInv, OwedInv, AppendEntry
  PROVE  /\ Own' # {} /\ LastResults' = results
         /\ Owed' = Outstanding /\ LastOwed' = Outstanding
<1>1. /\ inherited \in Nat /\ Len(ledger) \in Nat /\ inherited <= Len(ledger)
      /\ inherited' = inherited /\ Len(ledger') = Len(ledger) + 1
      /\ \A i \in 1..Len(ledger) : ledger'[i] = ledger[i]
      /\ ledger'[Len(ledger) + 1].results = results
      /\ DOMAIN ledger'[Len(ledger) + 1].graded = DOMAIN batch
      /\ \A f \in DOMAIN batch : ledger'[Len(ledger) + 1].graded[f] = batch[f].severity
  BY AppendExtends DEF Typed, RegressionInv, Entry
<1>2. /\ Owed \subseteq DOMAIN batch /\ DOMAIN results = DOMAIN batch
      /\ DOMAIN results \subseteq Finding
  BY AppendExtends, MapDef
     DEF OwedInv, OwedStayInTheLoop, AfterTriage, ClosureInv, Typed, ResultMap
<1>3. /\ \A i : i \in Own' <=> i \in Own \/ i = Len(ledger) + 1
      /\ \A i \in Own : i \in 1..Len(ledger)
  BY <1>1 DEF Own
<1>4. LastResults' = results /\ LastGraded' = ledger'[Len(ledger) + 1].graded
  BY <1>1, <1>3 DEF LastResults, LastGraded
<1>5. LastOwed' = Outstanding
  BY <1>1, <1>2, <1>4 DEF LastOwed, Unresolved, Outstanding
<1>6. ASSUME NEW f \in Owed' PROVE f \in Outstanding
  <2>1. PICK i \in Own' :
          /\ f \in DOMAIN ledger'[i].results /\ ledger'[i].results[f] # "closed"
          /\ \A j \in Own' : j > i => f \notin DOMAIN ledger'[j].results
          /\ ledger'[i].graded[f] >= Bar
    BY <1>6 DEF Owed, Unclosed
  <2>2. CASE i = Len(ledger) + 1
    BY <1>1, <1>2, <2>1, <2>2 DEF Unresolved, Outstanding
  <2>3. CASE i \in Own
    <3>1. f \notin DOMAIN results
      BY <1>1, <1>3, <2>1, <2>3
    <3>2. \A j \in Own : j > i => f \notin DOMAIN ledger[j].results
      BY <1>1, <1>3, <2>1
    <3>3. f \in Finding /\ ledger'[i] = ledger[i]
      BY <1>1, <1>3, <1>6, <2>3 DEF Owed
    <3>4. f \in Owed
      BY <2>1, <2>3, <3>2, <3>3 DEF Owed, Unclosed
    <3> QED BY <1>2, <3>1, <3>4
  <2> QED BY <1>3, <2>2, <2>3
<1>7. ASSUME NEW f \in Outstanding PROVE f \in Owed'
  <2>1. f \in DOMAIN results /\ results[f] # "closed" /\ f \in Finding /\ f \in DOMAIN batch
    BY <1>2, <1>7 DEF Unresolved, Outstanding
  <2>2. PICK last : last = Len(ledger) + 1
    OBVIOUS
  <2>3. last \in Own' /\ \A j \in Own' : ~(j > last)
    BY <1>1, <1>3, <2>2
  <2>4. f \in Unclosed(last)'
    BY <1>1, <2>1, <2>2, <2>3 DEF Unclosed
  <2>5. ledger'[last].graded[f] >= Bar
    BY <1>1, <1>7, <2>1, <2>2 DEF Outstanding
  <2> QED BY <2>1, <2>3, <2>4, <2>5 DEF Owed
<1> QED BY <1>3, <1>4, <1>5, <1>6, <1>7

LEMMA InitOwedInv == Init => OwedInv
<1> SUFFICES ASSUME Init PROVE OwedInv OBVIOUS
<1>1. Typed /\ inherited = Len(ledger) /\ pc = "start"
  BY InitTyped DEF Init
<1> QED BY <1>1, NothingOwedYet DEF OwedInv, OwedStayInTheLoop, AfterTriage

\* From the verdicts to the append, and at an end.
LEMMA OwedKept ==
  ASSUME OwedInv, UNCHANGED <<ledger, inherited, batch>>,
         pc' \in Ended \/ {pc, pc'} \subseteq AfterTriage
  PROVE  OwedInv'
BY OwedFrame DEF OwedInv, OwedStayInTheLoop, AfterTriage, Ended, AllInLoop

\* A step of the confirm loop about f.  Only a candidate may be dropped, and nothing
\* owed comes back as one.
LEMMA OwedAnswered ==
  ASSUME OwedInv, NEW f, pc = "triage", UNCHANGED <<pc, ledger, inherited, working>>,
         todo' = todo \ {f},
         \/ working[f].state # "confirmed" /\ batch' = batch
         \/ \E r : batch' = With(batch, f, r) /\ InLoop(r.severity)
  PROVE  OwedInv'
<1>0. /\ Owed' = Owed /\ LastOwed' = LastOwed /\ Owed = LastOwed
      /\ \A g \in Owed : GoesThrough(g, working)
      /\ Owed \subseteq todo \cup DOMAIN batch
      /\ AllWithinBar(working) /\ AllInLoop(batch)
  BY OwedFrame DEF OwedInv
<1>1. Owed \subseteq todo' \cup DOMAIN batch' /\ AllInLoop(batch')
  <2>1. CASE working[f].state # "confirmed" /\ batch' = batch
    BY <1>0, <2>1 DEF GoesThrough
  <2>2. CASE \E r : batch' = With(batch, f, r) /\ InLoop(r.severity)
    BY <1>0, <2>2 DEF With, AllInLoop
  <2> QED BY <2>1, <2>2
<1>2. AllWithinBar(working)' /\ AllInLoop(batch)'
  BY <1>0, <1>1 DEF AllWithinBar, AllInLoop
<1> QED BY <1>0, <1>1, <1>2 DEF OwedInv, OwedStayInTheLoop, AfterTriage, GoesThrough

LEMMA StepOwedInv ==
  Typed /\ RegressionInv /\ TriageInv /\ ProofInv /\ ClosureInv /\ OwedInv /\ [Next]_vars
    => OwedInv'
<1> SUFFICES ASSUME Typed, RegressionInv, TriageInv, ProofInv, ClosureInv, OwedInv, [Next]_vars
             PROVE  OwedInv'
  OBVIOUS
<1> USE DEF Ended, Goto, Stop, Boundary, round_vars, run_vars, process_vars, durable
<1>0. /\ Owed = LastOwed
      /\ pc \in {"top", "detect"} => \A f \in Owed : GoesThrough(f, open)
      /\ pc \in {"hunt", "triage"} => \A f \in Owed : GoesThrough(f, working)
      /\ pc = "triage" => Owed \subseteq todo \cup DOMAIN batch /\ AllWithinBar(working)
      /\ pc \in {"triage"} \cup AfterTriage => AllInLoop(batch)
      /\ pc \in AfterTriage => Owed \subseteq DOMAIN batch
  BY DEF OwedInv, OwedStayInTheLoop
<1> USE DEF AfterTriage
<1>1. CASE \E resume \in BOOLEAN : Setup(resume)
  <2>1. /\ inherited = Len(ledger) /\ pc' = "top" /\ UNCHANGED <<ledger, inherited>>
    BY <1>1 DEF Setup, RegressionInv
  <2> QED BY <2>1, NothingOwedYet, OwedFrame DEF OwedInv, OwedStayInTheLoop
<1>2. CASE StartRound
  <2>1. /\ pc = "top" /\ pc' \in {"detect", "done"} /\ UNCHANGED <<ledger, inherited, open>>
    BY <1>2 DEF StartRound
  <2> QED BY <1>0, <2>1, OwedFrame DEF OwedInv, OwedStayInTheLoop, GoesThrough
<1>3. CASE Detect
  <2>1. /\ pc = "detect" /\ pc' \in {"hunt", "done"} /\ UNCHANGED <<ledger, inherited>>
        /\ \E ids : working' = Merge(open, Reported(ids))
    BY <1>3 DEF Detect
  <2>2. \A f \in Owed : GoesThrough(f, working')
    BY <1>0, <2>1 DEF Merge, GoesThrough
  <2> QED BY <1>0, <2>1, <2>2, OwedFrame DEF OwedInv, OwedStayInTheLoop, GoesThrough
<1>4. CASE Hunt
  <2>1. /\ pc = "hunt" /\ pc' \in {"triage", "done"} /\ UNCHANGED <<ledger, inherited, batch>>
        /\ \E raised : working' = WithinBar(Merge(working, raised))
        /\ todo' = DOMAIN working'
    BY <1>4 DEF Hunt
  <2>2. batch' = Nothing
    BY <2>1 DEF TriageInv
  <2>3. (\A f \in Owed : GoesThrough(f, working')) /\ AllWithinBar(working')
    BY <1>0, <2>1 DEF WithinBar, Only, Merge, GoesThrough, AllWithinBar
  <2>4. AllInLoop(batch')
    BY <2>2, NothingDomain DEF AllInLoop
  <2> QED BY <1>0, <2>1, <2>3, <2>4, OwedFrame
          DEF OwedInv, OwedStayInTheLoop, GoesThrough, AllWithinBar, AllInLoop
<1>5. ASSUME NEW f \in Finding, KeepConfirmed(f) PROVE OwedInv'
  <2>1. f \in DOMAIN working /\ working[f].severity >= Bar
    BY <1>0, <1>5 DEF KeepConfirmed, Typed, AllWithinBar
  <2> QED BY <1>5, <2>1, OwedAnswered DEF KeepConfirmed, InLoop
<1>6. ASSUME NEW f \in Finding, CarryDismissal(f) \/ DismissCandidate(f) PROVE OwedInv'
  BY <1>6, OwedAnswered DEF CarryDismissal, DismissCandidate, NeedsTurn
<1>7. ASSUME NEW f \in Finding, NEW outcome, RecheckClosure(f, outcome) PROVE OwedInv'
  <2> DEFINE again == [working[f] EXCEPT !.state = "confirmed",
                                         !.repro = remembered[f].repro]
  <2>1. f \in DOMAIN working /\ working[f] \in FindingRec /\ working[f].severity >= Bar
    BY <1>0, <1>7, MapDef DEF RecheckClosure, Typed, FindingMap, AllWithinBar
  <2>2. InLoop(again.severity)
    BY <2>1 DEF FindingRec, InLoop
  <2>3. /\ pc = "triage" /\ UNCHANGED <<pc, ledger, inherited, working>>
        /\ todo' = todo \ {f} /\ working[f].state # "confirmed"
        /\ batch' = batch \/ batch' = With(batch, f, again)
    BY <1>7 DEF RecheckClosure
  <2> HIDE DEF again
  <2> QED BY <2>2, <2>3, OwedAnswered
<1>8. ASSUME NEW f \in Finding, NEW outcome, NEW severity \in AgentSeverities,
             PromoteCandidate(f, severity, outcome)
      PROVE  OwedInv'
  <2> DEFINE proven == [state |-> "confirmed", severity |-> severity, repro |-> "model"]
  <2>1. InLoop(proven.severity)
    BY DEF InLoop
  <2>2. /\ pc = "triage" /\ UNCHANGED <<pc, ledger, inherited, working>>
        /\ todo' = todo \ {f} /\ working[f].state # "confirmed"
        /\ batch' = batch \/ batch' = With(batch, f, proven)
    BY <1>8 DEF PromoteCandidate, NeedsTurn
  <2> HIDE DEF proven
  <2> QED BY <2>1, <2>2, OwedAnswered
<1>9. CASE TriageDone
  <2>1. /\ pc = "triage" /\ pc' \in {"analyze", "done"} /\ todo = {}
        /\ UNCHANGED <<ledger, inherited, batch>>
    BY <1>9 DEF TriageDone
  <2> QED BY <1>0, <2>1, OwedFrame DEF OwedInv, OwedStayInTheLoop, AllInLoop
<1>10. ASSUME NEW f \in Finding, NEW outcome, NEW severity \in AgentSeverities,
              Analyze(f, severity, outcome)
       PROVE  OwedInv'
  <2>1. /\ pc = "analyze" /\ UNCHANGED <<pc, ledger, inherited>> /\ f \in DOMAIN batch
        /\ batch \in [DOMAIN batch -> FindingRec]
    BY <1>10, MapDef DEF Analyze, Unanalyzed, Typed, FindingMap
  <2>2. \/ batch' = [batch EXCEPT ![f].severity = severity, ![f].repro = "model"]
        \/ batch' = [batch EXCEPT ![f].severity = severity]
    BY <1>10 DEF Analyze
  <2>3. /\ DOMAIN batch' = DOMAIN batch /\ batch'[f].severity = severity
        /\ \A g \in DOMAIN batch \ {f} : batch'[g] = batch[g]
    BY <2>1, <2>2 DEF FindingRec
  <2>4. AllInLoop(batch')
    BY <1>0, <2>1, <2>3 DEF AllInLoop, InLoop
  <2> QED BY <1>0, <2>1, <2>3, <2>4, OwedFrame DEF OwedInv, OwedStayInTheLoop, AllInLoop
<1>11. CASE AppendEntry
  <2>1. /\ pc = "append" /\ pc' \in {"top", "done"} /\ open' = Merge(Only(batch, Unresolved), reopened)
    BY <1>11 DEF AppendEntry, StillOpen, Decide
  <2>2. \A f \in Outstanding : GoesThrough(f, open')
    BY <1>0, <2>1 DEF Outstanding, Unresolved, Merge, Only, GoesThrough, ProofInv
  <2> QED BY <1>11, <2>1, <2>2, OwedAfterAppend DEF OwedInv, OwedStayInTheLoop, GoesThrough
<1>12. CASE Launch
  <2>1. Typed' /\ inherited' = Len(ledger') /\ pc' = "start"
    BY <1>12, StepTyped DEF Launch
  <2>2. Owed' = {} /\ LastOwed' = {}
    <3>1. Own' = {}
      BY <2>1 DEF Own, Typed
    <3> QED BY <3>1, NothingDomain DEF Owed, LastOwed, LastResults
  <2> QED BY <2>1, <2>2 DEF OwedInv, OwedStayInTheLoop
<1>13. CASE AbortDuringTurn \/ Crash
  <2>1. pc' \in Ended /\ UNCHANGED <<ledger, inherited>>
    BY <1>13 DEF AbortDuringTurn, Crash
  <2> QED BY <1>0, <2>1, OwedFrame DEF OwedInv, OwedStayInTheLoop
<1>14. CASE AbortSignal \/ UNCHANGED vars
  <2>1. UNCHANGED <<pc, ledger, inherited, open, working, todo, batch>>
    BY <1>14 DEF AbortSignal, vars
  <2> QED BY <1>0, <2>1, OwedFrame
          DEF OwedInv, OwedStayInTheLoop, GoesThrough, AllWithinBar, AllInLoop
<1>15. CASE Step
  <2>1. CASE SetupFails \/ CapReached \/ CommitFails \/ AppendRefused \/ TurnFails
    BY <2>1, OwedKept DEF SetupFails, CapReached, CommitFails, AppendRefused, TurnFails
  <2>2. CASE AnalyzeDone \/ PlanFix \/ Fix \/ RebuildFails \/ VerifyBatch
    BY <2>2, OwedKept DEF AnalyzeDone, PlanFix, Fix, RebuildFails, VerifyBatch
  <2>3. CASE TestGate \/ CrossCheck \/ CommitRound
    BY <2>3, OwedKept DEF TestGate, CrossCheck, CommitRound
  <2> QED BY <1>1, <1>2, <1>3, <1>4, <1>5, <1>6, <1>7, <1>8, <1>9, <1>10, <1>11, <1>15,
             <2>1, <2>2, <2>3 DEF Step
<1> QED BY <1>12, <1>13, <1>14, <1>15 DEF Next, Environment

-----------------------------------------------------------------------------
(* What is left out of a round                                             *)

\* A finding is dropped on the re-run of its repro only when it is remembered as
\* closed, and by then an own entry says so.
LeftOutInv ==
  pc \in {"triage"} \cup AfterTriage => \A f \in DOMAIN dropped : LeftOut(f)

LEMMA InitLeftOutInv == Init => LeftOutInv
BY DEF Init, LeftOutInv, AfterTriage

\* A finding is dropped for another reason, or after an own entry closed it.
LEMMA LeftOutFrame ==
  ASSUME Typed, UNCHANGED inherited,
         LeftOutInv \/ dropped = Nothing,
         pc \in {"hunt", "triage"} \cup AfterTriage \/ pc' \notin {"triage"} \cup AfterTriage,
         pc = "hunt" => dropped = Nothing,
         ledger' = ledger,
         \/ dropped' = dropped
         \/ \E f, why : /\ dropped' = With(dropped, f, why)
                        /\ why \in {"closed", "inconclusive"} => SeenClosed(f)
  PROVE  LeftOutInv'
<1>1. \A f : SeenClosed(f)' <=> SeenClosed(f)
  BY DEF SeenClosed, Own
<1>2. CASE pc' \notin {"triage"} \cup AfterTriage
  BY <1>2 DEF LeftOutInv, AfterTriage
<1>3. CASE pc \in {"hunt", "triage"} \cup AfterTriage
  <2>1. \A f \in DOMAIN dropped : LeftOut(f)
    BY <1>3, NothingDomain DEF LeftOutInv
  <2>2. CASE dropped' = dropped
    BY <1>1, <2>1, <2>2 DEF LeftOutInv, LeftOut
  <2>3. ASSUME NEW f, NEW why, dropped' = With(dropped, f, why),
               why \in {"closed", "inconclusive"} => SeenClosed(f)
        PROVE  LeftOutInv'
    BY <1>1, <2>1, <2>3 DEF LeftOutInv, LeftOut, With
  <2> QED BY <2>2, <2>3
<1> QED BY <1>2, <1>3

LEMMA StepLeftOutInv ==
  Typed /\ TriageInv /\ ClosureInv /\ LeftOutInv /\ [Next]_vars => LeftOutInv'
<1> SUFFICES ASSUME Typed, TriageInv, ClosureInv, LeftOutInv, [Next]_vars PROVE LeftOutInv'
  OBVIOUS
<1> USE DEF Ended, AfterTriage, Goto, Stop, Boundary, round_vars, run_vars, process_vars,
            durable
<1>1. CASE pc' \in Ended \cup {"start", "top", "detect", "hunt"}
  BY <1>1 DEF LeftOutInv
<1>2. ASSUME NEW f \in Finding, NEW outcome, RecheckClosure(f, outcome) PROVE LeftOutInv'
  <2>1. pc = "triage" /\ pc' = pc /\ UNCHANGED <<ledger, inherited>> /\ Remembers(f, "closed")
        /\ (dropped' = dropped \/ dropped' = With(dropped, f, outcome))
    BY <1>2 DEF RecheckClosure
  <2>2. SeenClosed(f)
    BY <2>1 DEF ClosureInv, AllAttested, Attests, Remembers, SeenClosed
  <2> QED BY <2>1, <2>2, LeftOutFrame
<1>3. ASSUME NEW f \in Finding, NEW outcome, NEW severity,
             \/ KeepConfirmed(f) \/ CarryDismissal(f) \/ DismissCandidate(f)
             \/ PromoteCandidate(f, severity, outcome) \/ Analyze(f, severity, outcome)
      PROVE  LeftOutInv'
  <2>1. /\ pc \in {"triage", "analyze"} /\ UNCHANGED <<ledger, inherited>>
        /\ \/ dropped' = dropped
           \/ \E why \in {"carried", "dismissed", "unproven"} : dropped' = With(dropped, f, why)
    BY <1>3 DEF KeepConfirmed, CarryDismissal, DismissCandidate, PromoteCandidate, Analyze
  <2> QED BY <2>1, LeftOutFrame
<1>4. CASE AbortSignal \/ UNCHANGED vars
  <2>1. UNCHANGED <<pc, ledger, inherited, dropped>>
    BY <1>4 DEF AbortSignal, vars
  <2>2. CASE pc \in {"triage"} \cup AfterTriage
    BY <2>1, <2>2, LeftOutFrame
  <2>3. CASE pc \notin {"triage"} \cup AfterTriage
    BY <2>1, <2>3 DEF LeftOutInv
  <2> QED BY <2>2, <2>3
<1>5. CASE Hunt
  <2>1. pc = "hunt" /\ dropped = Nothing /\ UNCHANGED <<ledger, inherited, dropped>>
    BY <1>5 DEF Hunt, TriageInv
  <2> QED BY <2>1, LeftOutFrame
<1>6. CASE TriageDone \/ AnalyzeDone \/ PlanFix \/ Fix
  <2>1. pc \in {"triage"} \cup AfterTriage /\ UNCHANGED <<ledger, inherited, dropped>>
    BY <1>6 DEF TriageDone, AnalyzeDone, PlanFix, Fix
  <2> QED BY <2>1, LeftOutFrame
<1>7. CASE RebuildFails \/ VerifyBatch \/ TestGate \/ CrossCheck \/ CommitRound
  <2>1. pc \in AfterTriage /\ UNCHANGED <<ledger, inherited, dropped>>
    BY <1>7 DEF RebuildFails, VerifyBatch, TestGate, CrossCheck, CommitRound
  <2> QED BY <2>1, LeftOutFrame
<1>8. CASE Step
  <2>1. CASE \E resume \in BOOLEAN : Setup(resume)
    BY <1>1, <2>1 DEF Setup
  <2>2. CASE SetupFails \/ CapReached \/ StartRound \/ Detect
    BY <1>1, <2>2 DEF SetupFails, CapReached, StartRound, Detect
  <2>3. CASE CommitFails \/ AppendEntry \/ AppendRefused \/ TurnFails
    BY <1>1, <2>3 DEF CommitFails, AppendEntry, AppendRefused, TurnFails, Decide
  <2> QED BY <1>2, <1>3, <1>5, <1>6, <1>7, <1>8, <2>1, <2>2, <2>3 DEF Step
<1>9. CASE AbortDuringTurn \/ Crash \/ Launch
  BY <1>1, <1>9 DEF AbortDuringTurn, Crash, Launch
<1> QED BY <1>4, <1>8, <1>9 DEF Next, Environment

-----------------------------------------------------------------------------
(* What ends a run                                                         *)

\* Only a run that ended by itself has a reason.
CleanInv ==
  /\ reason \notin {"none"} => pc = "done"
  /\ CleanIsEarned

\* A step appends an entry, starts a process, ends one for a reason that is not a
\* verdict, goes on without one, or leaves what "clean" is about alone.
LEMMA ReasonFrame ==
  ASSUME CleanInv, [Next]_vars
  PROVE  \/ AppendEntry \/ Launch
         \/ /\ Running /\ UNCHANGED <<ledger, inherited>> /\ reason = "none"
            /\ \/ reason' = "none" /\ pc' # "done"
               \/ reason' \in {"iteration-cap", "aborted"} /\ pc' = "done"
         \/ /\ ~Running
            /\ UNCHANGED <<pc, reason, round, baseline, ledger, inherited, working, dropped>>
<1> DEFINE Goes == /\ Running /\ UNCHANGED <<ledger, inherited>> /\ reason = "none"
                   /\ \/ reason' = "none" /\ pc' # "done"
                      \/ reason' \in {"iteration-cap", "aborted"} /\ pc' = "done"
<1> USE DEF CleanInv, Running, Ended, Goto, Stop, Boundary, round_vars, run_vars,
            process_vars, durable
<1>1. CASE UNCHANGED vars
  BY <1>1 DEF vars
<1>2. CASE Environment
  BY <1>2 DEF Environment, AbortDuringTurn, AbortSignal, Crash, TurnDue
<1>3. CASE Step
  <2>1. CASE (\E resume \in BOOLEAN : Setup(resume)) \/ SetupFails \/ CapReached
    BY <2>1 DEF Setup, SetupFails, CapReached
  <2>2. CASE StartRound \/ Detect \/ Hunt \/ TriageDone \/ AnalyzeDone
    BY <2>2 DEF StartRound, Detect, Hunt, TriageDone, AnalyzeDone
  <2>3. CASE PlanFix \/ Fix \/ RebuildFails \/ VerifyBatch
    BY <2>3 DEF PlanFix, Fix, RebuildFails, VerifyBatch
  <2>4. CASE TestGate \/ CrossCheck \/ CommitRound
    BY <2>4 DEF TestGate, CrossCheck, CommitRound
  <2>5. CASE CommitFails \/ AppendRefused \/ TurnFails
    BY <2>5 DEF CommitFails, AppendRefused, TurnFails, TurnDue
  <2>6. ASSUME NEW f \in Finding, NEW outcome, NEW severity,
               \/ KeepConfirmed(f) \/ CarryDismissal(f) \/ DismissCandidate(f)
               \/ RecheckClosure(f, outcome) \/ PromoteCandidate(f, severity, outcome)
               \/ Analyze(f, severity, outcome)
        PROVE  Goes
    BY <2>6 DEF KeepConfirmed, CarryDismissal, DismissCandidate, RecheckClosure,
                PromoteCandidate, Analyze
  <2> QED BY <1>3, <2>1, <2>2, <2>3, <2>4, <2>5, <2>6 DEF Step
<1> QED BY <1>1, <1>2, <1>3 DEF Next

\* What an append decides.
LEMMA AppendDecides ==
  ASSUME Typed, ClosureInv, CleanInv, AppendEntry
  PROVE  /\ reason = "none" /\ DOMAIN results = DOMAIN batch /\ round = Len(ledger) + 1
         /\ \/ pc' = "top" /\ reason' = "none"
            \/ pc' = "done" /\ reason' = "test-regression"
            \/ /\ pc' = "done" /\ reason' = "clean" /\ round' = round
               /\ ~Regressed(baseline, tests) /\ Unresolved = {}
<1>1. /\ pc = "append" /\ reason = "none" /\ DOMAIN results = DOMAIN batch
      /\ round = Len(ledger) + 1
  BY DEF AppendEntry, CleanInv, ClosureInv, Appendable, NextRound
<1>2. StillOpen = Nothing => Unresolved = {}
  <2>1. DOMAIN StillOpen = DOMAIN Only(batch, Unresolved) \cup DOMAIN reopened
    BY DEF StillOpen, Merge
  <2>2. DOMAIN Only(batch, Unresolved) = Unresolved
    BY DEF Only, Unresolved
  <2> QED BY <2>1, <2>2, NothingDomain
<1> QED BY <1>1, <1>2 DEF AppendEntry, Decide, Stop, Goto

LEMMA InitCleanInv == Init => CleanInv
BY DEF Init, CleanInv, CleanIsEarned

LEMMA StepCleanInv ==
  /\ Typed /\ RegressionInv /\ TriageInv /\ ClosureInv /\ OwedInv /\ LeftOutInv /\ CleanInv
  /\ [Next]_vars
  => CleanInv'
<1> SUFFICES ASSUME Typed, RegressionInv, TriageInv, ClosureInv, OwedInv, LeftOutInv, CleanInv,
                    [Next]_vars
             PROVE  CleanInv'
  OBVIOUS
<1>1. CASE AppendEntry
  <2>1. CASE reason' # "clean"
    BY <1>1, <2>1, AppendDecides DEF CleanInv, CleanIsEarned
  <2>2. CASE reason' = "clean"
    <3>1. /\ pc' = "done" /\ Unresolved = {} /\ ~Regressed(baseline, tests)
          /\ round' = round /\ baseline' = baseline
          /\ Own' # {} /\ Owed' = {}
      BY <1>1, <2>2, AppendDecides, AppendExtends, OwedAfterAppend DEF Outstanding
    <3>2. ledger'[Len(ledger')] = Entry
      BY <1>1, AppendExtends
    <3>3. \A f \in DOMAIN results : results[f] = "closed"
      BY <1>1, <3>1, AppendDecides DEF Unresolved
    <3>4. ASSUME NEW f \in DOMAIN working, f \notin DOMAIN results PROVE LeftOut(f)'
      <4>1. f \in DOMAIN dropped /\ LeftOut(f)
        BY <1>1, <3>4, AppendDecides DEF AppendEntry, TriageInv, EveryFindingIsAnswered,
           LeftOutInv, AfterTriage
      <4>2. SeenClosed(f) => SeenClosed(f)'
        <5>1. \A i \in Own : i \in Own' /\ ledger'[i] = ledger[i]
          BY <1>1, AppendExtends DEF Own, RegressionInv, Typed
        <5> QED BY <5>1 DEF SeenClosed
      <4> QED BY <1>1, <4>1, <4>2 DEF LeftOut, AppendEntry, round_vars
    <3>5. UNCHANGED working
      BY <1>1 DEF AppendEntry, round_vars
    <3> QED BY <3>1, <3>2, <3>3, <3>4, <3>5 DEF CleanInv, CleanIsEarned, Entry, Regressed
  <2> QED BY <2>1, <2>2
<1>2. CASE Launch
  BY <1>2 DEF Launch, CleanInv, CleanIsEarned
<1>3. CASE reason' \in {"none", "iteration-cap", "aborted"} /\ (reason' # "none" => pc' = "done")
  BY <1>3 DEF CleanInv, CleanIsEarned
<1>4. CASE UNCHANGED <<pc, reason, round, baseline, ledger, inherited, working, dropped>>
  <2>1. \A f : LeftOut(f)' <=> LeftOut(f)
    BY <1>4 DEF LeftOut, SeenClosed, Own
  <2> QED BY <1>4, <2>1, OwedFrame DEF CleanInv, CleanIsEarned, Regressed
<1> QED BY <1>1, <1>2, <1>3, <1>4, ReasonFrame

\* The inductive invariant of the loop.
LoopInv ==
  /\ Typed /\ LedgerInv /\ RegressionInv /\ TriageInv
  /\ ProofInv /\ ClosureInv /\ OwedInv /\ LeftOutInv /\ CleanInv

LEMMA LoopInvariant == (Init => LoopInv) /\ (LoopInv /\ [Next]_vars => LoopInv')
<1>1. Init => LoopInv
  BY InitTyped, InitLedgerInv, InitReceiptInv, InitTriageInv, InitProofInv, InitClosureInv,
     InitOwedInv, InitLeftOutInv, InitCleanInv DEF LoopInv
<1>2. LoopInv /\ [Next]_vars => LoopInv'
  BY StepTyped, StepLedgerInv, StepRegressionInv, StepTriageInv, StepProofInv,
     StepClosureInv, StepOwedInv, StepLeftOutInv, StepCleanInv DEF LoopInv
<1> QED BY <1>1, <1>2

\* A finding whose repro survived or was inconclusive is in the next round's batch
\* and in every later one of the run until one closes it or an agent grades it below
\* the bar: a carried finding is confirmed, and only candidates are dropped.
THEOREM OwedFindingsStay == Spec => []OwedStayInTheLoop
<1>1. LoopInv => OwedStayInTheLoop
  BY DEF LoopInv, OwedInv
<1> QED BY <1>1, LoopInvariant, PTL DEF Spec

\* A run that ends clean ended in a round of its own that was attested, broke no
\* test, closed all it took up, left nothing owed by any round before, and left a
\* finding out on an argument or on the re-run of a repro that an own entry records
\* as closed, which need not have been closed again.
THEOREM CleanRunsEarnedIt == Spec => []CleanIsEarned
<1>1. LoopInv => CleanIsEarned
  BY DEF LoopInv, CleanInv
<1> QED BY <1>1, LoopInvariant, PTL DEF Spec

-----------------------------------------------------------------------------
(* The loop implements RepairLoop                                          *)

LEMMA InitImplements == Init => Abstract!Init
<1> SUFFICES ASSUME Init PROVE Abstract!Init OBVIOUS
<1>1. Typed /\ inherited = Len(ledger) /\ Len(ledger) = 0 /\ Running
  BY InitTyped DEF Init, Running, Ended
<1> QED BY <1>1, NothingOwedYet, NothingDomain DEF Abstract!Init, LastOwed, PhaseOf

\* An append attests a round: it is within the cap, takes up all that was owed, and
\* calls itself clean only if it settled all of it.
LEMMA AppendImplements ==
  ASSUME LoopInv, AppendEntry
  PROVE  Abstract!Next
<1> USE DEF LoopInv
<1> DEFINE settled == {f \in DOMAIN results : results[f] = "closed"}
           minor == {f \in Unresolved : ~(batch[f].severity >= Bar)}
<1>1. /\ pc = "append" /\ Len(ledger) \in Nat /\ Len(ledger') = Len(ledger) + 1
      /\ Len(ledger) < IterationCap
  BY AppendExtends, AppendDecides, BrokerAssumption
     DEF LedgerInv, RoundWithinCap, Ended, Typed
<1>2. /\ LastResults' = results /\ DOMAIN results = DOMAIN batch
      /\ DOMAIN results \in SUBSET Finding
  BY OwedAfterAppend, AppendDecides, MapDef DEF Typed, ResultMap
<1>3. LastOwed \subseteq DOMAIN results
  BY <1>1, <1>2 DEF OwedInv, OwedStayInTheLoop, AfterTriage
<1>4. PhaseOf = "running"
  BY <1>1 DEF PhaseOf, Running, Ended
<1>5. PICK next \in {"running", "clean", "regressed"} :
        PhaseOf' = next /\ (next = "clean" => settled = DOMAIN results)
  BY <1>2, AppendDecides DEF PhaseOf, Running, Ended, Unresolved
<1>6. LastOwed' = DOMAIN results \ (settled \cup minor)
  BY <1>2, OwedAfterAppend DEF Outstanding, Unresolved
<1>7. minor # {} => \E severity \in AgentSeverities : severity < Bar
  <2>1. \A f \in DOMAIN batch : batch[f] \in FindingRec
    BY MapDef DEF Typed, FindingMap
  <2>2. \A f \in DOMAIN batch : batch[f].severity \in Severity /\ InLoop(batch[f].severity)
    BY <1>1, <2>1 DEF OwedInv, AfterTriage, AllInLoop, FindingRec
  <2> QED BY <2>2, BrokerAssumption DEF Unresolved, InLoop, Severity
<1>8. settled \in SUBSET DOMAIN results /\ minor \in SUBSET DOMAIN results
  BY <1>2 DEF Unresolved
<1>9. Abstract!Attest(DOMAIN results, settled, minor, next)
  BY <1>1, <1>2, <1>3, <1>4, <1>5, <1>6, <1>7, <1>8 DEF Abstract!Attest
<1> QED BY <1>2, <1>5, <1>8, <1>9 DEF Abstract!Next

LEMMA StepImplements == LoopInv /\ [Next]_vars => [Abstract!Next]_(Abstract!vars)
<1> SUFFICES ASSUME LoopInv, [Next]_vars PROVE [Abstract!Next]_(Abstract!vars) OBVIOUS
<1>1. CASE AppendEntry
  BY <1>1, AppendImplements
<1>2. CASE Launch
  <2>1. /\ UNCHANGED ledger /\ inherited' = Len(ledger) /\ ~Running /\ Running'
    BY <1>2 DEF Launch, Running, Ended, durable
  <2>2. LastResults' = Nothing /\ LastOwed' = {}
    BY <2>1, NothingDomain DEF LastResults, LastOwed, Own, LoopInv, Typed
  <2>3. Abstract!Launch
    BY <2>1, <2>2, NothingDomain DEF Abstract!Launch, PhaseOf
  <2> QED BY <2>3 DEF Abstract!Next
<1>3. CASE /\ Running /\ UNCHANGED <<ledger, inherited>> /\ reason = "none"
           /\ \/ reason' = "none" /\ pc' # "done"
              \/ reason' \in {"iteration-cap", "aborted"} /\ pc' = "done"
  <2>1. PhaseOf = "running" /\ PhaseOf' \in {"running", "stopped"}
    BY <1>3 DEF PhaseOf, Running, Ended
  <2>2. UNCHANGED <<Len(ledger), LastResults, LastOwed>>
    BY <1>3, OwedFrame
  <2> QED BY <2>1, <2>2 DEF Abstract!Next, Abstract!Stop, Abstract!vars
<1>4. CASE ~Running /\ UNCHANGED <<pc, reason, round, baseline, ledger, inherited, working, dropped>>
  BY <1>4, OwedFrame DEF PhaseOf, Running, Abstract!vars
<1> QED BY <1>1, <1>2, <1>3, <1>4, ReasonFrame DEF LoopInv

\* Every run of any number of processes on one ledger is one of the abstract loop:
\* rounds that take up all that is owed, write off only what agents may grade below
\* the bar, are "clean" only when all they took up is settled, and none after the end.
THEOREM RepairLoopIsImplemented == Spec => ImplementsRepairLoop
<1> QED
  BY InitImplements, StepImplements, LoopInvariant, PTL
     DEF Spec, ImplementsRepairLoop, Abstract!Spec

=============================================================================
