SPECIFICATION ChatSpec
CONSTANTS
  x = x
  y = y
  x1 = x1
  x2 = x2
  y1 = y1
  m1 = m1
  m2 = m2
  n1 = n1
  NoSocket = NoSocket
  NoMessage = NoMessage
  Users = {x, y}
  Readers = {}
  Peer <- Pair
  MayFail = TRUE
  Sockets = {x1, x2, y1}
  Owner <- ReopenedByX
  OpenLimit = 2
  Messages = {m1, m2}
  Sender <- OnlyX
PROPERTIES
  InFlightShows
INVARIANTS
  SenderOrderKept
CHECK_DEADLOCK FALSE
