SPECIFICATION PairingSpec
CONSTANTS
  Present = {a, b, c, d}
INVARIANTS
  IsMatching
  IsMaximal
CHECK_DEADLOCK FALSE
