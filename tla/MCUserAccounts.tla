--------------------------- MODULE MCUserAccounts ---------------------------
\* UserAccounts on a small instance: two names, two addresses, one caller.
EXTENDS UserAccounts, TLC

CONSTANTS n1, n2, e1, e2, p1, p2, c1

\* The values of a set are interchangeable: no definition tells them apart.
AccountSymmetry == Permutations({n1, n2}) \cup Permutations({e1, e2}) \cup Permutations({p1, p2})
=============================================================================
