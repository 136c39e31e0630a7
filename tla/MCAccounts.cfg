SPECIFICATION TryingSpec
CONSTANTS
  Emails = {e}
  Ids = {i, j}
  Free = Free
  Anonymous = Anonymous
  CodeLife = 2
  ProofLife = 3
  AccessLife = 1
  RefreshLife = 2
  Window = 2
  MaxAttempts = 2
  MaxForgets = 1
INVARIANTS
  AccountsInv
  VouchedFresh
PROPERTIES
  OwnerGetsIn
