SPECIFICATION Spec
CONSTANTS
  Capacity = 2
  Laps = 2
  Pool = 2
  MaxBlocks = 3
  Items <- MCItems
  Nothing = Nothing
INVARIANTS
  EncodeGated
