CONSTANTS
    p1 = p1
    p2 = p2
    c1 = c1
    c2 = c2
    c3 = c3
    w1 = w1
    w2 = w2
    Persons <- MCPersons
    Lines <- MCLines
    Person <- MCPerson
    Line <- MCLine
    Workers <- MCWorkers
    Claims <- MCThreeClaims
    Closable = {}
    CodeTtl = 1
    MaxAttempts = 1
    LineCap = 3
    CapWindow = 1
    LuckyGuess = FALSE
    MayAbort = FALSE
    MaxProofs = 1
    MaxRotations = 1
    MaxTime = 0
SPECIFICATION FairSpec
INVARIANTS
    OneHolder
    OneStory
PROPERTIES
    TakeoverIsAtomic
    RequestsEnd
CHECK_DEADLOCK FALSE
