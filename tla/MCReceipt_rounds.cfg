CONSTANTS
  f1 = f1
  f2 = f2
  File = {f1, f2}
  Ghost = ghost
  NamesEveryEdit = TRUE
  IterationCap = 3
  MaxRuns = 2
SPECIFICATION Spec
CHECK_DEADLOCK FALSE
SYMMETRY FilesAlike
INVARIANTS
  ClosedMeansGone
  ClosuresAreInTheirCommit
