SPECIFICATION FairSpec
CONSTANTS
  Runs = {"c1", "c2", "c3"}
  LastFile = 2
  Locking = {1}
  MaxFaults = 1
INVARIANTS
  MigrationInv
PROPERTIES
  ReleasesKept
  AllServe
CHECK_DEADLOCK FALSE
