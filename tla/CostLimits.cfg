SPECIFICATION Spec
CONSTANTS
    Ids = {i1, i2}
    Keys = {k1}
    Org = org
    MaxDay = 1
    MonthStart <- MCMonthStart
    KeyQuota <- MCKeyQuota
    BudgetLimits = {0, 3}
    Estimates = {1, 4}
    Costs = {2}
SYMMETRY IdSymmetry
INVARIANTS
    LedgerInv
    ReservedMatchesRows
    CounterIsLedger
    OverspendBounded
PROPERTIES
    AdmissionWithinLimit
    ClosedRowsFinal
