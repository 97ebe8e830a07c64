SPECIFICATION FairSpec
CONSTANTS
    Plans = {"free", "pro", "max"}
    Offer <- MCOffer
    Free = "free"
    Month = 3
    Quantities = {1}
    Horizon = 4
    Lag = 1
    Tasks = {k1, k2}
    MaxTiers = 2
    MaxFailures = 0
PROPERTIES
    InSync
CHECK_DEADLOCK FALSE
