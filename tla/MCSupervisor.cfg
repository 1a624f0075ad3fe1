\* One edit, activations and three crashes of any of the processes.
SPECIFICATION Spec
CONSTANTS
  e1 = e1
  Edits = {e1}
  MaxRestarts = 2
  MaxCrashes = 3
INVARIANTS TypeOK SeenEditsSurvive ShadowLagsByUpdates
PROPERTIES KeepsRack GuiCatchesUp CloseEndsAll SupervisorLossNoticed
CHECK_DEADLOCK FALSE
