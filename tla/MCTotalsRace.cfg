CONSTANTS
    i1 = i1
    i2 = i2
    v1 = v1
    v2 = v2
    b1 = b1
    b2 = b2
    c1 = c1
    c2 = c2
    None = None
    Items = {i1, i2}
    Branches = {b1, b2}
    Invoices = {v1, v2}
    Documents = {v1, v2}
    Calls = {c1, c2}
    Baskets <- MCBaskets
    InvoiceEdits <- MCEdits
SPECIFICATION SalesSpec
PROPERTY ConfirmedTotalsAreFrozen
CHECK_DEADLOCK FALSE
