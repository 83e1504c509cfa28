CONSTANTS
    a1 = a1
    w1 = w1
    w2 = w2
    w3 = w3
    Accounts = {a1}
    Sessions = {1, 2}
    Owner <- OneAccount
    Workers = {w1, w2}
    GraceWindow = 1
    RefreshTtl = 1
    SessionTtl = 2
    AccessTtl = 1
    MaxTokens = 2
    MaxTime = 0
SPECIFICATION FairSpec
CHECK_DEADLOCK FALSE
INVARIANTS
    RevocationIsTotal
PROPERTIES
    ImplementsLedger
    RequestsEnd
