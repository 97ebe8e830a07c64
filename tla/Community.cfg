INIT Init
NEXT Next
CONSTRAINT ThirdUserApart
SYMMETRY Interchangeable
CONSTANTS
    w = w
    Users = {o, a}
    Owner = o
    Limits = {0, 1}
    FreeLimit = 1
    Calls = {c1, c2}
    MaxRows = 2
    MaxInvites = 2
    People = {p, q, w}
    Attempts = {a1, a2}
    MaxCopies = 2
INVARIANTS
    TypeOK
    AcceptedWithinLimit
    AcceptedOnce
    PendingOrMember
    OneFriendship
    StatusAgrees
CHECK_DEADLOCK FALSE
