SPECIFICATION Spec
CONSTANTS
  N = 2
  MaxEdits = 3
  MaxPaths = 3
  Oversized = {2}
INVARIANTS
  WholeChain
  WholeMessage
  WaitsAtMailboxOnly
PROPERTIES
  PathArrives
  PluginHeard
  EditGetsIn
