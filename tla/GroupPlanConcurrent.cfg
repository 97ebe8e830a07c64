SPECIFICATION Spec
CONSTANTS
    Plans = {"free", "pro", "max"}
    Offer <- MCOffer
    Free = "free"
    Month = 2
    Quantities = {1, 2}
    Horizon = 4
    Lag = 1
    Tasks = {k1, k2}
    MaxTiers = 3
    MaxFailures = 0
INVARIANTS
    PaidMonthsKept
    TierHasSnapshot
    OneMarked
CHECK_DEADLOCK FALSE
