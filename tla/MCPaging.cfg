SPECIFICATION PagingSpec
CONSTANTS
  PageSize = 2
  MaxMessages = 5
INVARIANTS
  PagingInv
PROPERTIES
  ScrollEnds
CHECK_DEADLOCK FALSE
