CONSTANTS
    i1 = i1
    i2 = i2
    None = None
    Items = {i1, i2}
    Branches = {b1}
    Invoices = {v1}
    Slips = {a1, a2}
    Documents = {v1, a1, a2}
    Calls = {c1, c2}
    Baskets <- OneBasket
    InvoiceEdits <- NoEdits
    SlipItems <- SlipLists
    MaxEdits = 1
SPECIFICATION RacesSpec
SYMMETRY MCSymmetry
INVARIANTS
    ApprovalTypeOK
    ConfirmedInvoicesHoldTheirItems
    SalesAreInvoiced
    LedgerIsCustodyHistory
    OutMeansOnASlip
    ReturnMatchesIssue
PROPERTIES
    StatusOnlyAdvances
    PiecesMoveByDocument
    SettledWhole
    SlipsMoveWhole
CHECK_DEADLOCK FALSE
