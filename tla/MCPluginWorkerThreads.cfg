SPECIFICATION FairSpec
CONSTANTS
  Callers = {"audio", "thread"}
  RingSize = 2
INVARIANTS
  RequestRingAlive
