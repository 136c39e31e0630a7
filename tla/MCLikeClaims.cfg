SPECIFICATION Spec
CONSTANTS
  a = a
  b = b
  c = c
  r1 = r1
  r2 = r2
  Users = {a, b, c}
  Requests = {r1}
  Tastes <- AnyTaste
  QueueLimit = 2
  DailyLikeLimit = 1
  PageSize = 1
  LobbyPairs <- NoEdges
  Blockers = {c}
  Leavers = {}
  MaxChats = 0
  MayFail = FALSE
\* One claim at a time.
INVARIANT LikeRecorded
\* INVARIANT RightSwipesPerDay
