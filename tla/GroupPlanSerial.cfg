SPECIFICATION FairSpec
CONSTANTS
    Plans = {"free", "pro", "max"}
    Offer <- MCOffer
    Free = "free"
    Month = 2
    Quantities = {1, 2}
    Horizon = 6
    Lag = 1
    Tasks = {k1}
    MaxTiers = 3
    MaxFailures = 1
INVARIANTS
    TypeOK
    UpgradeServed
PROPERTIES
    PurchaseNeverLowers
    InSync
CHECK_DEADLOCK FALSE
