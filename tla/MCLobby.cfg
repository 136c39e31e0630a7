SPECIFICATION LobbySpec
CONSTANTS
  a = a
  b = b
  c = c
  a1 = a1
  a2 = a2
  b1 = b1
  c1 = c1
  NoSocket = NoSocket
  Nothing = Nothing
  Unmatched = Unmatched
  Users = {a, b, c}
  Seekers = {a, b, c}
  Sockets = {a1, b1, c1}
  Owner <- OneEach
  Fits = {{a, b}, {a, c}}
  Outside = {{a, b}}
INVARIANTS
  LobbyInv
  BothTold
PROPERTIES
  ToldOnce
