\* Liveness of the loop: one slot, both kinds of activation, presets.
SPECIFICATION Spec
CONSTANTS
  p = p  q = q  s1 = s1  s2 = s2  s3 = s3  s4 = s4
  None = None
  Plugins = {p}
  Params = {7}
  Values = {0, 1}
  DefaultValue = 0
  Settings = {0}
  InitSettings = 0
  SlotIds = {s1, s2}
  MaxSlots = 1
  ScanResults <- OneFound
  Sessions <- EmptySession
  Presets <- OnePreset
  Isolation = {TRUE, FALSE}
  Unloads = {"clean", "crashed"}
PROPERTIES CrashedPluginStopped
