SPECIFICATION Spec
CONSTANTS
    Users = {owner}
    Owner = owner
    Txns = {t1, t2}
    NoTxn = noTxn
    Funds = {f1}
    NoFund = noFund
    Amounts = {1}
    Target = 2
    ContributeTime = 0
    Requests = {r1, r2}
    MaxDeliveries = 3
    Failures = FALSE
INVARIANTS
    AppliedOnce
SYMMETRY Symmetry
