SPECIFICATION FairSpec
CONSTANTS
  NStages = 3
  MaxPackets = 1
PROPERTIES
  CaptureLossLeavesRunning
