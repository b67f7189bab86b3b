SPECIFICATION Spec
CONSTANTS
  N = 2
  None = None
  Plugins = {reverb, cabinet, meter}
  Missing = {gone}
  NoUri = NoUri
  WithParams = {reverb, cabinet}
  WithPath = {cabinet}
INVARIANTS
  SlotTells
  PanelFits
  BypassAgrees
  ImportRestores
CHECK_DEADLOCK FALSE
