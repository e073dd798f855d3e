SPECIFICATION GuestSpec
CONSTANTS
    Pages = {p1, p2}
    Flights = {f1, f2}
    Tokens = {t1, t2, t3}
    Scopes = {s1, s2}
    None = none
    Unused = unused
SYMMETRY Symmetry
INVARIANTS
    PageOrdersOnce
CHECK_DEADLOCK FALSE
