SPECIFICATION Spec
CONSTANTS
    Sub = {s1, s2}
    Lifecycles = {"idle", "running"}
    U64Max = 2
    ReplayCapacity = 1
    SubscriberCapacity = 1
    MaxIncarnations = 2
    OutboundCapacity = 3
    WireCapacity = 1
    MaxDisconnects = 1
    MaxCommands = 1
    Body <- MCBody
    SpawnBody <- MCSpawnBody
    RestoreBody <- MCRestoreBody
    Change <- MCChange
    ApplyChange <- apply_change
INVARIANTS
    NoSilentDivergence
SYMMETRY MCSymmetry
CHECK_DEADLOCK FALSE
