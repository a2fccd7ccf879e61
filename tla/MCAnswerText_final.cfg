SPECIFICATION Spec
CONSTANT
  MaxLength = 6
INVARIANT
  NoEarlierAnswer
CHECK_DEADLOCK FALSE
