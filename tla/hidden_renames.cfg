SPECIFICATION Spec
CONSTANTS
  Files = {f1, f2}
  Names = {n1, n2}
  Zones = {z1}
  MaxAlt = 0
  MaxItemId = 1
  NoFile = NoFile
  NoPath = NoPath
  NoJob = NoJob
  NoDrag = NoDrag
  ConcurrentUser = FALSE
  MayCrash = TRUE
SYMMETRY Symmetric
INVARIANTS RecoverableUnlessExposed
PROPERTIES KeepsCustody
\* The desktop may stay empty for ever: no handler has anything to do.
CHECK_DEADLOCK FALSE
