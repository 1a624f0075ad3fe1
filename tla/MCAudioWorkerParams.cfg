\* Parameters, staging, saved states and sessions; one plugin, two slots.
SPECIFICATION Spec
CONSTANTS
  p = p  q = q  s1 = s1  s2 = s2  s3 = s3  s4 = s4
  None = None
  Plugins = {p}
  Params = {7}
  Values = {0, 1}
  DefaultValue = 0
  Settings = {0}
  InitSettings = 0
  SlotIds = {s1, s2, s3}
  MaxSlots = 2
  ScanResults <- OneFound
  Sessions <- SavedSession
  Presets = {}
  Isolation = {FALSE}
  Unloads = {"clean"}
SYMMETRY SlotSymmetry
INVARIANTS TypeOK ShadowRackCurrent
PROPERTIES StagedChangesReachThePlugin
