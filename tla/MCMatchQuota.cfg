SPECIFICATION FairSpec
CONSTANTS
  a = a
  b = b
  c = c
  r1 = r1
  r2 = r2
  Users = {a, b, c}
  Requests = {r1, r2}
  Tastes <- OneSided
  QueueLimit = 1
  DailyLikeLimit = 1
  PageSize = 0
  LobbyPairs <- NoEdges
  Blockers = {}
  Leavers = {}
  MaxChats = 0
  MayFail = FALSE
INVARIANTS
  QueueBounded
  LikeQuota
PROPERTIES
  SwipeSettles
