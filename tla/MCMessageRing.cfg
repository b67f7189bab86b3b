SPECIFICATION FairSpec
CONSTANTS
  Size = 8
  Laps = 2
  Header = 2
  Messages <- MCMessages
  Nothing = Nothing
  Garbled = Garbled
INVARIANTS
  NoByteRace
PROPERTIES
  IsChannel
  Arrives
