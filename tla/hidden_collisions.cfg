SPECIFICATION Spec
CONSTANTS
  Files = {f1, f2}
  Names = {n1}
  Zones = {z1}
  MaxAlt = 1
  MaxItemId = 2
  NoFile = NoFile
  NoPath = NoPath
  NoJob = NoJob
  NoDrag = NoDrag
  ConcurrentUser = FALSE
  MayCrash = TRUE
SYMMETRY Symmetric
INVARIANTS JobHoldsFile RecoverableUnlessExposed
PROPERTIES KeepsCustody
\* The desktop may stay empty for ever: no handler has anything to do.
CHECK_DEADLOCK FALSE
