SPECIFICATION RegistrySpec
CONSTANTS
  a = a
  b = b
  a1 = a1
  a2 = a2
  a3 = a3
  b1 = b1
  b2 = b2
  NoSocket = NoSocket
  Users = {a, b}
  Sockets = {a1, a2, a3, b1, b2}
  Owner <- ThreeAndTwo
INVARIANTS
  ServedIsRegistered
