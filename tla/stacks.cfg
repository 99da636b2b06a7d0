SPECIFICATION MCSpec
CONSTANTS
    MaxId = 4
    NoZone = 0
    Scopes <- MCScopes
INVARIANTS StacksAreFlat EveryZoneIsShown TreesStayTogether CheckpointKeepsStacks ShownOnce
