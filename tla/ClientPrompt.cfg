CONSTANTS
    a1 = a1
    w1 = w1
    w2 = w2
    Accounts = {a1}
    Sessions = {1}
    Owner <- OneAccount
    Workers = {w1, w2}
    GraceWindow = 2
    RefreshTtl = 3
    SessionTtl = 5
    AccessTtl = 1
    MaxTokens = 5
    MaxTime = 5
    Mine = 1
    MaxInFlight = 1
    MaxLost = 1
SPECIFICATION ClientSpec
CHECK_DEADLOCK FALSE
INVARIANTS
    NeverCut
    ClientInStep
    ClientIsServed
