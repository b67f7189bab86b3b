SPECIFICATION WinFairSpec
CONSTANTS
  NStages = 3
  MaxPackets = 2
  MaxDepth = 3
INVARIANTS
  TypeOK
  StartFindsNoThread
  OffIsReleased
  DestroyedAlone
  Supervised
PROPERTIES
  OffOnlyOnRequest
  StopReturns
  RenderLossLeavesRunning
  NoRecordingAcrossSessions
  ErrorTurnsPowerOff
  RunningTurnsPowerOn
