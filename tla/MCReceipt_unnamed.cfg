CONSTANTS
  f1 = f1
  f2 = f2
  File = {f1, f2}
  Ghost = ghost
  NamesEveryEdit = FALSE
  IterationCap = 1
  MaxRuns = 1
SPECIFICATION Spec
CHECK_DEADLOCK FALSE
SYMMETRY FilesAlike
INVARIANTS
  ClosuresAreInTheirCommit
