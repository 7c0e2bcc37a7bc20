SPECIFICATION Spec
CONSTANTS
  DefaultMaxAge = 1
  MaxAges = {2}
  MaxClock = 2
  MaxWritten = 1
INVARIANTS
  TypeOK
  ForwardsWanted
  AnswersArrive
CHECK_DEADLOCK FALSE
