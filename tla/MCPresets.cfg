\* Two plugins, two names, two messages each way.
SPECIFICATION Spec
CONSTANTS
  s = s  t = t
  Hosts = {"process", "workers"}
  Slots = {s, t}
  Names = {1, 2}
  sanitize_filename <- OneFileEach
  None = None
  Torn = Torn
  MaxQueue = 2
SYMMETRY SlotSymmetry
INVARIANTS ListIsOwn ListComplete NameIsOfInstance
CHECK_DEADLOCK FALSE
