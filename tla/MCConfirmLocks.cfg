CONSTANTS
    i1 = i1
    i2 = i2
    v1 = v1
    v2 = v2
    None = None
    Items = {i1, i2}
    Invoices = {v1, v2}
    Requests = {t1, t2, t3}
    Lines <- MCLines
SPECIFICATION Spec
INVARIANTS
    TypeOK
    ConfirmedMeansSold
    OneInvoiceNeverDeadlocks
PROPERTIES
    SalesAreAtomic
    EveryRequestIsAnswered
CHECK_DEADLOCK FALSE
