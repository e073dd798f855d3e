SPECIFICATION CartSpec
CONSTANTS
    Products = {x1}
    Tabs = {p1, p2}
    MaxQuantity = 3
SYMMETRY Symmetry
INVARIANTS
    ChosenOnly
PROPERTIES
    ShownStaysStored
