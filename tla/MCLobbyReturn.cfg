SPECIFICATION LobbyLiveSpec
CONSTANTS
  a = a
  b = b
  c = c
  a1 = a1
  a2 = a2
  b1 = b1
  c1 = c1
  NoSocket = NoSocket
  Nothing = Nothing
  Unmatched = Unmatched
  Users = {a, b}
  Seekers = {a, b}
  Sockets = {a1, a2, b1}
  Owner <- ReopenedByA
  Fits = {{a, b}}
  Outside = {{a, b}}
INVARIANTS
  RegistryAccurate
PROPERTIES
  GoneIsForgotten
  EventEnds
