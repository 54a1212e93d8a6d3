SPECIFICATION FairSpec
CONSTANTS
    Request = {"prompt", "conflict", "list", "steer"}
    Operation = {"op"}
    OperationOf <- MCOperationOf
    PayloadOf <- MCPayloadOf
    Unauthorized = {"steer"}
    Outcome = {"success"}
    MaxRequests = 3
    MaxDisconnects = 1
    MaxCrashes = 1
INVARIANTS
    TypeOK
    AtMostOnce
    DurableOutcome
PROPERTIES
    EveryRequestAnswered
CHECK_DEADLOCK FALSE
