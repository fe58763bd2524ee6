SPECIFICATION PricingSpec
CONSTANTS
    Updaters = {u1, u2}
    Calls = {c1}
    Prices = {1, 2}
    MaxTime = 2
SYMMETRY UpdaterSymmetry
CHECK_DEADLOCK FALSE
INVARIANTS
    HistoryGapless
    UpdatesKept
    ChargedInForce
