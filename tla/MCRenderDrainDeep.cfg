SPECIFICATION Spec
CONSTANTS
  CaptureBuf = 1
  RenderBuf = 4
  Channels = 2
  RingSize = 32
  DspMax = 2
  Window = 2
  MaxFrames = 12
PROPERTIES
  DiscardSheds
CHECK_DEADLOCK FALSE
