SPECIFICATION ChatSpec
CONSTANTS
  x = x
  y = y
  x1 = x1
  x2 = x2
  y1 = y1
  m1 = m1
  m2 = m2
  n1 = n1
  NoSocket = NoSocket
  NoMessage = NoMessage
  Users = {x, y}
  Readers = {y}
  Peer <- Pair
  MayFail = FALSE
  Sockets = {x1, y1}
  Owner <- OneEach
  OpenLimit = 2
  Messages = {m1, m2, n1}
  Sender <- Authors
\* One claim at a time.
INVARIANT LastMessageIsLast
\* INVARIANT MissedIsCounted
\* INVARIANT ClearedIsReturned
\* INVARIANT BadgeNotStale
CHECK_DEADLOCK FALSE
