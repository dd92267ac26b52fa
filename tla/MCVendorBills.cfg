CONSTANTS
    None = None
    Order = Order
    Ordered = 2
    Bills = {b1, b2}
    Payments = {p1, p2}
    Returns = {r1}
    Quantities = {1, 2}
    Amounts = {1}
    Clerks = {c1, c2}
SPECIFICATION Spec
SYMMETRY MCSymmetry
INVARIANTS
    VendorTypeOK
    BilledIsReceived
    BillFollowsPayments
CHECK_DEADLOCK FALSE
