CONSTANTS
  c1 = c1
  l1 = l1
  l2 = l2
  h1 = h1
  Crashes = {}
  Leads = {}
  Hunts = {h1}
  DetectorSeverity <- MCDetectorSeverity
  AgentSeverities = {1, 3}
  Bar = 2
  IterationCap = 3
  DismissalLife = 2
  ColdHunt = TRUE
  Planner = TRUE
  Rescan = FALSE
  DryRun = FALSE
  Abortable = TRUE
  MaxRuns = 3
SPECIFICATION Spec
CHECK_DEADLOCK FALSE
INVARIANTS
  LedgerIsContiguous
  EntriesAttestTheirCommit
  AtMostOneStrayCommitPerRun
  RegressionHalts
PROPERTIES
  EarlyAbortLeavesNoReceipt
  ImplementsRepairLoop
