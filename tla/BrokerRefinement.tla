-------------------------- MODULE BrokerRefinement --------------------------
(***************************************************************************)
(* Broker implements RepairLoop: the ledger is the abstract round count,   *)
(* this process's last entry is the round taken up last.                   *)
(***************************************************************************)
EXTENDS BrokerProperties

LastResults == IF Own = {} THEN Nothing ELSE ledger[Len(ledger)].results
LastGraded == IF Own = {} THEN Nothing ELSE ledger[Len(ledger)].graded
LastOwed ==
  {f \in DOMAIN LastResults : LastResults[f] # "closed" /\ LastGraded[f] >= Bar}

PhaseOf ==
  IF Running THEN "running"
  ELSE IF reason = "clean" THEN "clean"
  ELSE IF reason = "test-regression" THEN "regressed"
  ELSE "stopped"

Abstract == INSTANCE RepairLoop WITH
  Cap <- IterationCap,
  Lenient <- \E severity \in AgentSeverities : severity < Bar,
  rounds <- Len(ledger),
  taken <- DOMAIN LastResults,
  owed <- LastOwed,
  phase <- PhaseOf

\* Every step of runLoop is a step of the abstract loop or leaves it alone: one
\* entry per round, nothing owed is skipped by the next round, nothing written off
\* but what an agent grades below the bar, "clean" only when everything taken up
\* was settled, and no round after the run has ended.
ImplementsRepairLoop == Abstract!Spec
=============================================================================
