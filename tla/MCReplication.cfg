SPECIFICATION Spec
CONSTANTS
    Sub = {s1, s2}
    Lifecycles = {"idle", "running"}
    U64Max = 2
    ReplayCapacity = 1
    SubscriberCapacity = 1
    MaxIncarnations = 2
    OutboundCapacity = 1
    WireCapacity = 1
    MaxDisconnects = 1
    MaxCommands = 0
    Body <- MCBody
    SpawnBody <- MCSpawnBody
    RestoreBody <- MCRestoreBody
    Change <- MCChange
    ApplyChange <- apply_change
INVARIANTS
    TypeOK
    ReplicaFaithful
SYMMETRY MCSymmetry
CHECK_DEADLOCK FALSE
