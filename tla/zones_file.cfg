SPECIFICATION Spec
CONSTANTS
    Layouts = {Empty, layout1, layout2}
    Empty = Empty
    TooBig = {}
    NoLayout = NoLayout
    Faults = {"read", "heal restore", "heal write"}
INVARIANT CleanMeansSaved
PROPERTIES SavedLayoutComesBack StartupKeepsLayout
