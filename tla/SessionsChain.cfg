CONSTANTS
    a1 = a1
    w1 = w1
    w2 = w2
    w3 = w3
    Accounts = {a1}
    Sessions = {1}
    Owner <- OneAccount
    Workers = {w1, w2, w3}
    GraceWindow = 1
    RefreshTtl = 2
    SessionTtl = 3
    AccessTtl = 1
    MaxTokens = 4
    MaxTime = 3
SYMMETRY WorkerSymmetry
SPECIFICATION Spec
CHECK_DEADLOCK FALSE
INVARIANTS
    TypeOK
    Inductive
    OneChain
    VerdictStillTrue
    RotationNeverRefused
PROPERTIES
    GraceIsNoFactory
