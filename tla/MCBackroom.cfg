CONSTANTS
    None = None
    Items = {i1}
    Branches = {b1, b2}
    Transfers = {t1, t2}
    Sessions = {s1}
    VendorReturns = {p1}
    JobOrders = {o1}
    Pledges = {g1, g2}
    LenderPledges = {g2}
    Slots = {x1, x2}
SPECIFICATION Spec
SYMMETRY MCSymmetry
INVARIANTS
    BackroomTypeOK
    NothingIsLostInTransit
PROPERTIES
    CountersKeepTheirPieces
CHECK_DEADLOCK FALSE
