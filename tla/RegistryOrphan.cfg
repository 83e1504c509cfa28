CONSTANTS
    a1 = a1
    a2 = a2
    m1 = m1
    r1 = r1
    r2 = r2
    Adults <- MCAdults
    Minors <- MCMinors
    OfAge <- MCMinors
    Requests <- MCRequests
    Scheduler = sched
    Nobody = nobody
    Subjects <- MCSubjects
    Window = 1
    Lead = 1
    MaxTime = 1
    MaxRequests = 2
SPECIFICATION Spec
INVARIANT NobodyAlone
SYMMETRY MCSymmetry
CHECK_DEADLOCK FALSE
