CONSTANTS
    a1 = a1
    proxy = proxy
    i1 = i1
    i2 = i2
    p1 = p1
    k1 = k1
    k2 = k2
    j1 = j1
    c1 = c1
    c2 = c2
    Addresses <- MCAddresses
    Proxies <- MCProxies
    Identifiers <- MCIdentifiers
    Clients <- MCClients
    Kids <- MCKids
    Jtis <- MCJtis
    Connections <- MCConnections
    Window = 2
    MaxAttempts <- MCMaxAttempts
    SweepThreshold = 1
    LockThreshold = 1
    LockBase = 1
    LockCap = 2
    MaxDraws = 2
    AssertionTtl = 1
    TokenTtl = 1
    MaxTime = 2
    MaxRequests = 3
SPECIFICATION Spec
INVARIANTS TypeOK LockCovers BudgetHolds
PROPERTIES ImplementsDoor
SYMMETRY MCSymmetry
