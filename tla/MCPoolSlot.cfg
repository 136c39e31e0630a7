SPECIFICATION FairSpec
CONSTANTS
  Requests = {"r1", "r2"}
  Nobody = "nobody"
  NoTable = "none"
  Altered = {"likes"}
  MaxConn = 2
  MaxLease = 2
  MaxRestarts = 1
INVARIANTS
  AlwaysReturned
