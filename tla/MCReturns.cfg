CONSTANTS
    i1 = i1
    None = None
    Items = {i1}
    Branches = {b1}
    Invoices = {v1, v2}
    Returns = {r1, r2}
    Refunds = {f1, f2}
    Documents = {v1, v2, r1, r2}
    Calls = {c1}
    Clerks = {d1, d2}
    Baskets <- OneBasket
    InvoiceEdits <- Retotal
    Deductions = {0, 1}
    Amounts = {1}
SPECIFICATION ReturnsSpec
SYMMETRY MCSymmetry
INVARIANTS
    ReturnsTypeOK
    RefundsFollowPieces
    ReturnsUndoTheirSale
    NeverRefundedTwice
CHECK_DEADLOCK FALSE
