\* Two connections that may ask for everything on one agent: relaunches, a launch
\* during a stop, a shutdown and a restart of the daemon.
SPECIFICATION FairSpec
CONSTANTS
    Connection = {desk, phone}
    Scopes <- EveryOperation
    EventCapacity = 1
    MaxProcess = 2
    MaxInputs = 3
INVARIANT TypeOK
INVARIANT OneServed
INVARIANT NoGhostWork
PROPERTY ExitReported
CHECK_DEADLOCK FALSE
