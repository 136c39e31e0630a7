SPECIFICATION PagingSpec
CONSTANTS
  PageSize = 2
  MaxMessages = 5
INVARIANTS
  EndIsBeginning
CHECK_DEADLOCK FALSE
