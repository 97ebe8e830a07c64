SPECIFICATION Spec
CONSTANTS
    Users = {owner}
    Owner = owner
    Txns = {t1, t2}
    NoTxn = noTxn
    Funds = {f1}
    NoFund = noFund
    Amounts = {1}
    Target = 2
    ContributeTime = 0
    Requests = {r1, r2}
    MaxDeliveries = 2
    Failures = TRUE
INVARIANTS
    TypeOK
    SettledIsServed
    OrderFollowsPayment
    DonationOrderNeverFailed
    CompletedByCharge
PROPERTIES
    ImplementsContract
    ContributionsStay
SYMMETRY Symmetry
