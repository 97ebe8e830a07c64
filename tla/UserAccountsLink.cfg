CONSTANTS
    n1 = n1
    n2 = n2
    e1 = e1
    e2 = e2
    p1 = p1
    p2 = p2
    c1 = c1
    Usernames = {n1, n2}
    Emails = {e1, e2}
    Passwords = {p1, p2}
    Callers = {c1}
    MaxUsers = 2
    MaxCodes = 0
    MaxFresh = 0
SPECIFICATION UserAccountsSpec
PROPERTY LinkVerifiesItsAddress
CHECK_DEADLOCK FALSE
