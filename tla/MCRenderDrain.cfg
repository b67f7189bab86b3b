SPECIFICATION Spec
CONSTANTS
  CaptureBuf = 2
  RenderBuf = 4
  Channels = 2
  RingSize = 32
  DspMax = 3
  Window = 2
  MaxFrames = 20
INVARIANTS
  RoomForWrite
  WholeFrames
  Gapless
CHECK_DEADLOCK FALSE
