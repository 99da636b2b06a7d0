SPECIFICATION MCSpec
CONSTANTS
    r1 = r1
    r2 = r2
    Ids <- RuleIds
    Saved <- SavedOnes
    NoRule = NoRule
    Period = 1
    Capacity = 2
    MaxFailures = 1
    MaxSaves = 1
    MaxHeld = 1
    Paths = {1, 2}
    NotifyCapacity = 2
    MaxPending = 1
    ChannelCapacity = 1
    NoKind = NoKind
    Budget = 4
INVARIANT EventsTypeOK
PROPERTIES OncePerInterval DueRulesRun PresenceFollowsDesktop
CHECK_DEADLOCK FALSE
