SPECIFICATION FairSpec
CONSTANTS
    pen = pen
    cap = cap
    acme = acme
    zeta = zeta
    red = red
    blue = blue
    Servers = {s1}
    Scripts = {}
    Barcodes <- MCBarcodes
    Brands <- MCBrands
    Prices = {1, 2}
    Images <- MCImages
    Uploads <- MCMovedUploads
    MaxFiles = 2
    MaxUploadBytes = 3
    MaxArchiveFiles = 2
    MaxArchiveBytes = 3
INVARIANTS
    ArchiveBounded
    ReportTrue
    BudgetFirst
PROPERTIES
    ImplementsStorefront
    SlotReleased
CHECK_DEADLOCK FALSE
