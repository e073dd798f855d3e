SPECIFICATION CartSpec
CONSTANTS
    Products = {x1, x2}
    Tabs = {p1}
    MaxQuantity = 2
SYMMETRY Symmetry
INVARIANT
    ZeroRemoves
