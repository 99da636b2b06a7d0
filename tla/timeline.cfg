SPECIFICATION Spec
CONSTANTS
    Layouts = {l1, l2}
    Scopes = {s1, s2}
    Window = 1
    NoCursor = NoCursor
    Settings <- BothSettings
    MaxTime = 2
INVARIANTS TypeOK ShownIsOnDisk RedoTakesBackUndo HeadIsLatest
PROPERTY PinnedStay
SYMMETRY Symmetry
CHECK_DEADLOCK FALSE
