SPECIFICATION Spec
CONSTANTS
    pen = pen
    cap = cap
    acme = acme
    zeta = zeta
    red = red
    blue = blue
    Servers = {s1, s2}
    Scripts = {c1}
    Barcodes <- MCBarcodes
    Brands <- MCBrands
    Prices = {1, 2}
    Images <- MCImages
    Uploads <- MCFewUploads
    MaxFiles = 1
    MaxUploadBytes = 3
    MaxArchiveFiles = 1
    MaxArchiveBytes = 3
SYMMETRY Symmetry
INVARIANTS
    PicturesKept
    FailuresTraceless
    StagesLive
CHECK_DEADLOCK FALSE
