SPECIFICATION FoldersSpec
CONSTANTS
    Paths = {1, 2}
    NotifyCapacity = 1
    MaxPending = 2
    ChannelCapacity = 1
    NoKind = NoKind
    Zones = {z1, z2}
    Folders = {"outer", "inner"}
    NoZone = NoZone
    NoFolder = "none"
    FolderOf <- FolderOfFile
    Inside <- Nested
    Layouts <- SavedLayouts
    MaxChanges = 2
INVARIANT ShowsOwnFolder
PROPERTY MirrorsFolder
CHECK_DEADLOCK FALSE
