CONSTANTS
    None = None
    Items = {i1}
    Branches = {b1, b2}
    Transfers = {t1, t2}
    Sessions = {}
    VendorReturns = {}
    JobOrders = {}
    Pledges = {}
    LenderPledges = {}
    Slots = {x1}
SPECIFICATION Spec
SYMMETRY MCSymmetry
PROPERTIES
    OnApprovalIsKept
CHECK_DEADLOCK FALSE
