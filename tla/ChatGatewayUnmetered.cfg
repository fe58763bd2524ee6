SPECIFICATION GSpec
CONSTANTS
    c1 = c1
    c2 = c2
    c3 = c3
    i1 = i1
    i2 = i2
    k1 = k1
    Ids = {i1, i2}
    Keys = {k1}
    Org = org
    MaxDay = 1
    MonthStart <- MCMonthStart
    KeyQuota <- MCKeyQuota
    BudgetLimits = {3}
    Estimates = {0, 1, 4}
    Costs = {2}
    Calls = {c1, c2}
    IdOf <- SharedId
    KeyOf <- OneKey
    Streaming = {c2}
    MaxFaults = 0
INVARIANTS
    ProviderCostRecorded
