SPECIFICATION FairSpec
CONSTANTS
    Command = {a, b}
    Message = {m}
    Stopper = {s}
    ActorCapacity = 1
    StdinCapacity = 1
    MaxCalls = 3
    StdoutCapacity = 1
    MaxFrames = 2
INVARIANTS
    TypeOK
    EveryFrameRouted
    AcceptedResponsesDrained
    NoAbandonedCommand
PROPERTIES
    EveryCallReturns
CHECK_DEADLOCK FALSE
