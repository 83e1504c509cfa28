CONSTANTS
    p1 = p1
    p2 = p2
    c1 = c1
    c2 = c2
    c3 = c3
    w1 = w1
    w2 = w2
    Persons <- MCPersons
    Lines <- MCLines
    Person <- MCPerson
    Line <- MCLine
    Workers <- MCWorkers
    Claims <- MCTwoClaims
    Closable <- MCClosable
    CodeTtl = 1
    MaxAttempts = 2
    LineCap = 2
    CapWindow = 2
    LuckyGuess = TRUE
    MayAbort = TRUE
    MaxProofs = 2
    MaxRotations = 0
    MaxTime = 1
SPECIFICATION Spec
INVARIANTS
    Inductive
    OneProofAtATime
    LineNearlyCapped
PROPERTY DeactivatedIsMute
SYMMETRY MCSymmetry
CHECK_DEADLOCK FALSE
