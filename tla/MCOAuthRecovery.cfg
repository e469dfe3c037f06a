\* An administrator recovers an account whose user is approving a client.
SPECIFICATION OAuthSpec
CONSTANTS
    Browsers = {b1}
    Logins = {l1}
    Sessions = {s1}
    MaxTransactions = 1
    Clients = {c1}
    Devices = {d1}
    Studios = {t1}
    Scopes = {m1}
    Grants = {g1}
    Codes = {k1}
    Authorizers = {a1}
    Pairs = {q1}
    Requests = {x1}
    None = None
CHECK_DEADLOCK FALSE
PROPERTY RecoveryEndsConnectors
