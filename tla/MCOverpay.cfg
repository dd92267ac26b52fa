CONSTANTS
    v1 = v1
    v2 = v2
    None = None
    Invoices = {v1, v2}
    Converted = {v2}
    Total <- MCTotal
    Required <- MCRequired
    Amounts = {1, 2}
    Values = {1, 3}
    Payments = {p1, p2}
    Deposits = {d1, d2}
    Exchanges = {e1, e2}
    Calls = {c1, c2}
SPECIFICATION Spec
INVARIANT NeverOverpaid
CHECK_DEADLOCK FALSE
