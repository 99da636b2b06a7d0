SPECIFICATION Spec
CONSTANTS
  Files = {f1, f2}
  Names = {n1}
  Zones = {z1, z2}
  MaxAlt = 0
  MaxItemId = 1
  NoFile = NoFile
  NoPath = NoPath
  NoJob = NoJob
  NoDrag = NoDrag
  ConcurrentUser = TRUE
  MayCrash = TRUE
SYMMETRY Symmetric
INVARIANTS TypeOK RecoverableUnlessExposed
\* The desktop may stay empty for ever: no handler has anything to do.
CHECK_DEADLOCK FALSE
