SPECIFICATION Spec
CONSTANTS
  a = a
  b = b
  c = c
  r1 = r1
  r2 = r2
  Users = {a, b}
  Requests = {r1}
  Tastes <- AnyTaste
  QueueLimit = 2
  DailyLikeLimit = 1
  PageSize = 1
  LobbyPairs <- NoEdges
  Blockers = {a}
  Leavers = {}
  MaxChats = 2
  MayFail = FALSE
\* One claim at a time.
INVARIANT PendingAwaitsResponse
\* INVARIANT BadgeClearedByViewing
\* INVARIANT AnsweredNotOffered
\* INVARIANT BlockedNotOffered
\* INVARIANT OneChatPerPair
