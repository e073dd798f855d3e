SPECIFICATION Spec
CONSTANTS
    Workbooks <- MCWorkbooks
    FieldOf <- MCFieldOf
    BarcodeOf <- MCBarcodeOf
    PriceOf <- MCPriceOf
    LongTexts = {"long"}
    HeaderRows = 3
    MaxRows = 5
    MaxImages = 2
    MaxImageBytes = 4
INVARIANTS
    VerdictTrue
    ParsedWhole
    PicturesBudgeted
CHECK_DEADLOCK FALSE
