\* Rack, activation, crashes, isolation and restart; plugins without parameters.
SPECIFICATION Spec
CONSTANTS
  p = p  q = q  s1 = s1  s2 = s2  s3 = s3  s4 = s4
  None = None
  Plugins = {p, q}
  Params = {}
  Values = {0}
  DefaultValue = 0
  Settings = {0}
  InitSettings = 0
  SlotIds = {s1, s2, s3, s4}
  MaxSlots = 3
  ScanResults <- AllFound
  Sessions <- EmptySession
  Presets = {}
  Isolation = {TRUE, FALSE}
  Unloads = {"clean", "crashed", "heapCorrupted"}
SYMMETRY RackSymmetry
INVARIANTS OnePluginAtATime
PROPERTIES  ActiveSlotReported SelectionFollowsRemoval
