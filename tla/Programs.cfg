CONSTANTS
    h1 = h1
    g1 = g1
    g2 = g2
    s1 = s1
    l1 = l1
    l2 = l2
    r1 = r1
    r2 = r2
    c1 = c1
    c2 = c2
    Families <- MCFamilies
    Granted <- MCGranted
    SelfService <- MCSelfService
    Lines <- MCLines
    Holder <- MCHolder
    References <- MCReferences
    Connections <- MCConnections
    Nobody = nobody
    ClientCap = 1
    ClientWindow = 2
    LineCap = 1
    LineWindow = 2
    Ttl = 1
    MaxKey = 2
    MaxTime = 1
    MaxBirths = 2
    MaxRequests = 4
SPECIFICATION Spec
INVARIANTS TypeOK OnePersonPerReference AcceptedIsComplete NearlyCapped
PROPERTIES ClosedStaysClosed
SYMMETRY MCSymmetry
