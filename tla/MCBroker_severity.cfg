CONSTANTS
  c1 = c1
  l1 = l1
  l2 = l2
  h1 = h1
  Crashes = {c1}
  Leads = {}
  Hunts = {}
  DetectorSeverity <- MCDetectorSeverity
  AgentSeverities = {1, 3}
  Bar = 2
  IterationCap = 3
  DismissalLife = 2
  ColdHunt = FALSE
  Planner = FALSE
  Rescan = FALSE
  DryRun = FALSE
  Abortable = FALSE
  MaxRuns = 1
SPECIFICATION Spec
CHECK_DEADLOCK FALSE
INVARIANTS
  ModelSeverityKeepsFindings
