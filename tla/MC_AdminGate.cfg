SPECIFICATION GateSpec
CONSTANTS
    Buckets = {b1, b2}
    Requests = {r1, r2}
    WorkerOf <- MCWorkerOf
    RateLimit = 1
    Window = 3
    MaxRows = 1
    MaxFiles = 2
    Nobody = nobody
    Script = script
    Lag = 1
    MaxClock = 5
INVARIANTS
    TwiceTheLimit
    OneSpool
    ImportHasFiles
PROPERTIES
    SlotGivenBack
CHECK_DEADLOCK FALSE
