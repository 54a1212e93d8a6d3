SPECIFICATION ActorSpec
CONSTANTS
    Sub = {s1}
    RunIds = {r1, r2}
    Run <- MCRuns
    Body <- MCBody
    SpawnBody <- MCSpawnBody
    Change <- MCChange
    ApplyChange <- apply_change
    U64Max = 4
    ReplayCapacity = 2
    SubscriberCapacity = 1
    MaxIncarnations = 2
INVARIANTS
    ActorTypeOK
    ReplayWindow
    StreamComplete
    StartIsExact
    RunsWellFormed
SYMMETRY MCSymmetry
CHECK_DEADLOCK FALSE
