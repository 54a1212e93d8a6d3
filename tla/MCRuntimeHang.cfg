SPECIFICATION HangSpec
CONSTANTS
    Command = {a, b}
    Message = {}
    Stopper = {s}
    ActorCapacity = 1
    StdinCapacity = 1
    MaxCalls = 3
    StdoutCapacity = 1
    MaxFrames = 0
PROPERTIES
    ShutdownReturns
CHECK_DEADLOCK FALSE
