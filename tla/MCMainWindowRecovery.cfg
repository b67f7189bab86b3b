SPECIFICATION WinFairSpec
CONSTANTS
  NStages = 2
  MaxPackets = 1
  MaxDepth = 3
PROPERTIES
  RecoveryRestarts
