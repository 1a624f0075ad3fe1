\* Two processes, a default directory, two more, one of them under two names.
SPECIFICATION FilesSpec
CONSTANTS
  p = p  q = q
  std = std  d = d  e = e  link = link
  Procs = {p, q}
  Dirs = {std, d, e}
  Defaults = {std}
  Broken = {e}
  Aliases = {link}
  canonical <- Canonical
  Nothing = Nothing
  Unparsable = Unparsable
SYMMETRY ProcSymmetry
INVARIANTS ScanPathsKept
PROPERTIES UnreadableConfigKept
CHECK_DEADLOCK FALSE
