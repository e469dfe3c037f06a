\* One user with two sessions, two codes, three token pairs and two requests in
\* flight; the rows are interchangeable.
SPECIFICATION OAuthSpec
CONSTANTS
    Browsers = {b1}
    Logins = {l1}
    Sessions = {s1, s2}
    MaxTransactions = 1
    Clients = {c1}
    Devices = {d1}
    Studios = {t1}
    Scopes = {m1}
    Grants = {g1}
    Codes = {k1, k2}
    Authorizers = {a1}
    Pairs = {q1, q2, q3}
    Requests = {x1, x2}
    None = None
SYMMETRY MCSymmetry
CHECK_DEADLOCK FALSE
INVARIANTS OAuthTypeOK LoginBuysOneSession CodeBuysOnePair FamilyIsALine RevokedFamilyIsDead
PROPERTIES NewCodeIsBacked
