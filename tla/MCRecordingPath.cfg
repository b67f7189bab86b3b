SPECIFICATION PathSpec
CONSTANTS
  Capacity = 2
  Laps = 2
  Pool = 2
  MaxBlocks = 6
  Nothing = Nothing
  Items <- MCItems
INVARIANTS
  NoSlotRace
  QueueIsFifo
  IntactUntilLapped
  NeverStale
PROPERTIES
  IsFifo
  InOrder
  Drained
