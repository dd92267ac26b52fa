CONSTANTS
    b1 = b1
    b2 = b2
    None = None
    Branches = {b1, b2}
    Requests = {1, 2, 3}
    BranchOf <- TwoBranches
    Connections = 2
    Seedings <- NewOrOneBranch
    FirstPeriod = 2
    LastPeriod = 4
SPECIFICATION Spec
INVARIANTS
    TypeOK
    NumbersNeverCollide
    SeriesStaysAhead
    NumberedInItsYear
    NoGapsInADay
PROPERTIES
    EveryRequestIsAnswered
CHECK_DEADLOCK FALSE
