SPECIFICATION LoginSpec
CONSTANTS
  MaxAttempts = 3
  Window = 3
  Horizon = 8
INVARIANTS
  TwiceTheLimit
  CounterCounts
PROPERTIES
  LockedOutEnds
CHECK_DEADLOCK FALSE
