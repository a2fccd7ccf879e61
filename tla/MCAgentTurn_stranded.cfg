SPECIFICATION FairSpec
CONSTANTS
  MaxTurns = 2
  MaxUpdates = 2
PROPERTY
  AbortTakesEffect
CHECK_DEADLOCK FALSE
