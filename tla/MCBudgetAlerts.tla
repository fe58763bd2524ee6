--------------------------- MODULE MCBudgetAlerts ---------------------------
(* A daily and a monthly budget, two days of one month: one call reaches   *)
(* the day's 80 %, two pass its limit, three reach the month's 90 %.       *)
EXTENDS BudgetAlerts

CONSTANTS bd, bm

MCMonthStart == [d \in Days |-> 0]
MCLimit == [b \in Budgets |-> IF b = bd THEN 11 ELSE 30]
MCPeriod == [b \in Budgets |-> IF b = bd THEN "daily" ELSE "monthly"]
CheckerSymmetry == Permutations(Checkers)
=============================================================================
