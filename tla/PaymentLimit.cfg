SPECIFICATION Spec
CONSTANTS
    Users = {owner}
    Owner = owner
    Txns = {t1, t2}
    NoTxn = noTxn
    Funds = {f1}
    NoFund = noFund
    Amounts = {1}
    Target = 2
    ContributeTime = 1
    Requests = {r1}
    MaxDeliveries = 2
    Failures = FALSE
INVARIANTS
    LimitKept
