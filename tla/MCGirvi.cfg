CONSTANTS
    None = None
    Principals = {1, 2}
    MaxInterest = 1
    Collections = {k1, k2}
    Collaterals = {c1, c2}
    Clerks = {s1, s2}
SPECIFICATION Spec
SYMMETRY MCSymmetry
INVARIANTS
    GirviTypeOK
    SettledOnce
    ReleasedWhenRepaid
CHECK_DEADLOCK FALSE
