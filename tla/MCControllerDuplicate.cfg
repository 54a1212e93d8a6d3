\* Two connections that may launch and stop one agent: a launch during a stop.
SPECIFICATION Spec
CONSTANTS
    Connection = {desk, phone}
    Scopes <- LaunchAndStop
    EventCapacity = 1
    MaxProcess = 2
    MaxInputs = 3
INVARIANT OneProcess
CHECK_DEADLOCK FALSE
