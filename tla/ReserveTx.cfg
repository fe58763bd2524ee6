SPECIFICATION TSpec
CONSTANTS
    k1 = k1
    Ids = {i1, i2}
    Keys = {k1}
    Org = org
    MaxDay = 1
    MonthStart <- MCMonthStart
    KeyQuota <- MCKeyQuota
    BudgetLimits = {4}
    Estimates = {1, 5}
    Costs = {4}
    KeyOf <- MCKeyOf
INVARIANTS
    ReserveNeverDeadlocks
PROPERTIES
    CommitsAtomic
    EveryTxEnds
