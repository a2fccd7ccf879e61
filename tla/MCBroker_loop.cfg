CONSTANTS
  c1 = c1
  l1 = l1
  l2 = l2
  h1 = h1
  Crashes = {c1}
  Leads = {l1, l2}
  Hunts = {}
  DetectorSeverity <- MCDetectorSeverity
  AgentSeverities = {3}
  Bar = 2
  IterationCap = 3
  DismissalLife = 2
  ColdHunt = FALSE
  Planner = FALSE
  Rescan = TRUE
  DryRun = FALSE
  Abortable = FALSE
  MaxRuns = 1
SPECIFICATION FairSpec
CHECK_DEADLOCK FALSE
INVARIANTS
  TypeOK
  OwedStayInTheLoop
  CleanIsEarned
  BatchIsProven
  CarriedArgumentsAreFresh
  EveryFindingIsAnswered
  ClosuresAreGrounded
PROPERTIES
  EveryRunEnds
