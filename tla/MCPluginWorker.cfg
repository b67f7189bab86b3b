SPECIFICATION FairSpec
CONSTANTS
  Callers = {"audio", "thread"}
  RingSize = 2
INVARIANTS
  PluginAlive
PROPERTIES
  EditReturns
  RequestServed
