SPECIFICATION Spec
CONSTANTS
    v1 = v1
    v2 = v2
    Versions = {v1, v2}
    None = None
    Slots = {1, 2}
    Bounds <- MCBounds
INVARIANTS TypeOK OneAnswerPerOperation StagedIsPending SkippedNotOffered OneScheduler
PROPERTIES OperationsEnd ChecksGoOn DisabledStops
\* The installer is launched and the process ends.
CHECK_DEADLOCK FALSE
