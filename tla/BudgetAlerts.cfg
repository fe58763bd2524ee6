SPECIFICATION AlertSpec
CONSTANTS
    bd = bd
    bm = bm
    Budgets = {bd, bm}
    Limit <- MCLimit
    Period <- MCPeriod
    Refused = {bm}
    Checkers = {c1, c2}
    Costs = {9}
    MaxDay = 1
    MonthStart <- MCMonthStart
    MaxStreams = 1
SYMMETRY CheckerSymmetry
CHECK_DEADLOCK FALSE
INVARIANTS
    PostsWereDue
    OnceWhenAlone
    DoneMeansNotified
