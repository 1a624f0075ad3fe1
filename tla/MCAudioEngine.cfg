\* Two parameters and two keys, lists of one queue, two points, two events.
SPECIFICATION Spec
CONSTANTS
  p1 = p1  p2 = p2  k1 = k1  k2 = k2
  Params = {p1, p2}
  Values = {0, 1}
  Default = 0
  Keys = {k1, k2}
  Setups <- NotesOrParams
  MaxQueues = 1
  MaxPoints = 2
  MaxEvents = 2
  MaxBuffered = 3
  MaxBlock = 2
  MaxFrames = 3
  MaxPending = 3
SYMMETRY Symmetry
INVARIANTS HalvesAgree NoNoteHangs NothingStalePlayed
CHECK_DEADLOCK FALSE
