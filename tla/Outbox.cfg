CONSTANTS
    w1 = w1
    w2 = w2
    Events = {1, 2}
    Persons <- MCPersons
    Person <- MCPerson
    External = {1}
    InAccount = {1, 2}
    Workers = {w1, w2}
    BatchSize = 2
    LeaseSeconds = 1
    MaxAttempts = 2
    BackoffBase = 1
    BackoffCap = 2
    MaxCrashes = 1
SPECIFICATION FairSpec
INVARIANTS
    TypeOK
    FailedWhenExhausted
    PaidChannelBounded
PROPERTIES
    ImplementsDelivery
    EveryEventEnds
CHECK_DEADLOCK FALSE
