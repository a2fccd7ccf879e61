SPECIFICATION FairSpec
CONSTANTS
  MaxTurns = 3
  MaxUpdates = 3
INVARIANTS
  SettledMeansGone
  AnswersAreComplete
PROPERTY
  HeardTurnsSettle
CHECK_DEADLOCK FALSE
