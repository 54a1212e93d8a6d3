SPECIFICATION FairSpec
CONSTANTS
    Sub = {s1, s2}
    Lifecycles = {"idle"}
    U64Max = 2
    ReplayCapacity = 1
    SubscriberCapacity = 1
    MaxIncarnations = 1
    OutboundCapacity = 2
    WireCapacity = 1
    MaxDisconnects = 1
    MaxCommands = 2
    Body <- MCBody
    SpawnBody <- MCSpawnBody
    RestoreBody <- MCRestoreBody
    Change <- MCChange
    ApplyChange <- apply_change
INVARIANTS
    QuietMeansCurrent
PROPERTIES
    Converges
CHECK_DEADLOCK FALSE
