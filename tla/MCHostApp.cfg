\* Two plugins in a rack of three, a history of two entries.
SPECIFICATION Spec
CONSTANTS
  p = p  q = q
  Plugins = {p, q}
  Values = {0, 1}
  Default = 0
  Edits = {1}
  Tempos = {120, 130}
  None = None
  MaxRack = 3
  MaxInputs = 5
  MaxDepth = 2
SYMMETRY PluginSymmetry
INVARIANTS UndoLeadsBack RedoLeadsForth
CHECK_DEADLOCK FALSE
