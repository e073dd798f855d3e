SPECIFICATION FairSpec
CONSTANTS
    pen = pen
    ghost = ghost
    Calls = {c1, c2}
    Scopes = {s1, s2}
    Keys = {k1}
    Ids <- MCIds
    Products = {pen}
    Prices = {1, 3}
    RawCarts <- MCRawCarts
    MaxPrice = 3
    MaxTotal = 5
    MaxLines = 2
    MaxQuantity = 2
INVARIANTS
    IInv
    OneOrderPerIdentity
    CommittedTogether
    AnswersAgree
PROPERTIES
    PricedAtCommit
    ImplementsLedger
    LockReleased
CHECK_DEADLOCK FALSE
