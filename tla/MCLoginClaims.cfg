SPECIFICATION LoginSpec
CONSTANTS
  MaxAttempts = 3
  Window = 3
  Horizon = 8
\* One claim at a time.
PROPERTY LaterIsAllowed
\* INVARIANT RollingWindow
CHECK_DEADLOCK FALSE
