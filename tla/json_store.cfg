SPECIFICATION MCSpec
CONSTANTS
    Values = {v1, v2, v3}
    NoValue = NoValue
    FaultSets = {{"replace", "move"}, {"quarantine", "move"}}
    Passphrases = {k1, k2}
    Settings = {s1}
    NoKey = NoKey
    Blank = Blank
    MaxRetained = 1
INVARIANTS CleanVaultIsFile UnlockIsAsked
PROPERTIES ImplementsRegister LockedFileKept
