CONSTANTS
    b1 = b1
    b2 = b2
    None = None
    Branches = {b1, b2}
    Requests = {1, 2, 3}
    BranchOf <- TwoBranches
    Connections = 2
    Seedings <- BothBranches
    FirstPeriod = 4
    LastPeriod = 5
SPECIFICATION Spec
INVARIANT NoRequestIsRefused
CHECK_DEADLOCK FALSE
