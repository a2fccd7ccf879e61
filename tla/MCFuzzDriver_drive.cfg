SPECIFICATION FairSpec
CONSTANTS
  Inputs = {"seed a", "nested b", "flaky", "good"}
  Bugs = {"a", "b"}
  Prints <- MCPrints
  Failure <- MCFailure
  Budget = 3
  MinRun = 1
  KillGrace = 1
  ReplayTime = 1
  MinimizeTime = 1
  Fine = "fine"
  NoInput = "none"
  Behaviour <- MCBehaviour
  Flaky = {"flaky"}
  TopSeeds = {"seed a"}
  NestedSeeds = {"nested b"}
  MaxRuns = 4
  DryRunsBeforeStop = 2
INVARIANTS
  ShippedReproduces
  NothingProvenIsLost
  NoSeedCrashesTwice
  RestartsAreEarned
  OverrunIsBounded
  OneBugOneSignature
PROPERTY
  DriveEnds
CHECK_DEADLOCK FALSE
