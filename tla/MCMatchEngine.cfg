SPECIFICATION Spec
CONSTANTS
  a = a
  b = b
  c = c
  r1 = r1
  r2 = r2
  Users = {a, b}
  Requests = {r1, r2}
  Tastes <- FickleTaste
  QueueLimit = 2
  DailyLikeLimit = 1
  PageSize = 1
  LobbyPairs <- AllEdges
  Blockers = {a}
  Leavers = {a}
  MaxChats = 1
  MayFail = TRUE
SYMMETRY RequestSymmetry
INVARIANTS
  IInv
  MutualLikeConnects
PROPERTIES
  LikesPersist
  KeepsPromise

