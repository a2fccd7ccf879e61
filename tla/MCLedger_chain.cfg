SPECIFICATION CliSpec
CONSTANTS
  Data = {"clean", "open", "test-regression"}
  MaxRounds = 3
  IterationCap = 3
  MaxLaunches = 2
  TornWrites = {"part", "unterminated"}
INVARIANTS
  UndamagedVerifies
  AcknowledgedStay
  DamageIsLocated
  ExitZeroIsEarned
  LogFollowsLedger
PROPERTY
  ImplementsAttestedLog
CHECK_DEADLOCK FALSE
