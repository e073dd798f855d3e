SPECIFICATION ExportFairSpec
CONSTANTS
    MaxBatches = 4
    QueueSize = 2
INVARIANTS
    NothingLost
    WholeOrBroken
PROPERTIES
    GetReturns
    StopCloses
CHECK_DEADLOCK FALSE
