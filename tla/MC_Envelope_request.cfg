SPECIFICATION EnvelopeFairSpec
CONSTANTS
    BodyLimit = 3
    MaxPiece = 2
    MaxBodies = 3
INVARIANTS
    OneAnswer
    RightStatus
PROPERTIES
    NoHold
CHECK_DEADLOCK FALSE
