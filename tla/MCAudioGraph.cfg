\* Input, Output and up to three more nodes.
SPECIFICATION Spec
CONSTANTS
  MaxId = 4
  MaxEdges = 4
  Kinds = {"Mix"}
  NoOrder = NoOrder
INVARIANTS Acyclic DeviceGetsTheGraph
PROPERTIES InsertKeepsChain
CHECK_DEADLOCK FALSE
