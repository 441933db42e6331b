SPECIFICATION ReadingSpec
CONSTANTS
  Messages = {1, 2, 3, 4}
  Limits = {1, 2}
  MaxTime = 1
  Requests = 3
  Window = 4
  MaxCount = 7
CHECK_DEADLOCK FALSE
INVARIANTS
  BurstBounded
  RefusedOnlyBusy
  NothingMissed
  PagesFit
PROPERTIES
  WindowEnds
  ReadingEnds
