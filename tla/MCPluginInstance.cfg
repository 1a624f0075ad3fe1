\* Two bundles, each open at most twice.  Linux checks setFrame as macOS does and
\* shows the window as Windows does.
SPECIFICATION Spec
CONSTANTS
  p = p  q = q
  None = None
  Bundles = {p, q}
  Platforms = {"macos", "windows"}
  MaxHandles = 2
INVARIANTS CodeMapped HostObjectsOutlive NothingLeaks
PROPERTIES LeakIsTainted FollowsLifecycle DeactivationEnds
CHECK_DEADLOCK FALSE
