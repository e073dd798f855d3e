SPECIFICATION FairSpec
CONSTANTS
    Workers = {w1, w2}
    MaxAttempts = 2
    LeaseSeconds = 1
    BaseDelay = 1
    MaxDelay = 1
    MaxJobs = 2
    Horizon = 0
INVARIANTS
    IInv
    DeliveriesBounded
    LeaseHonoured
PROPERTIES
    RetriesSpaced
    ImplementsDelivery
CHECK_DEADLOCK FALSE
