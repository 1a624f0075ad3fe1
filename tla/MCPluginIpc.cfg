\* Two changes of two parameters, one queue of one point, and one state request.
SPECIFICATION Spec
CONSTANTS
  Params = {p, q}
  MaxQueues = 1
  MaxPoints = 1
  MaxChanges = 2
  MaxRequests = 1
INVARIANTS ChangesInOrder SharedMemoryIsOwn
PROPERTIES ImplementsService NoOrphan SpawnEnds CrashNoticed
CHECK_DEADLOCK FALSE
