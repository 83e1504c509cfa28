CONSTANTS
    a1 = a1
    a2 = a2
    m1 = m1
    r1 = r1
    r2 = r2
    Adults <- MCAdults
    Minors <- MCMinors
    OfAge <- MCMinors
    Requests <- MCRequests
    Scheduler = sched
    Nobody = nobody
    Subjects <- MCSubjects
    Window = 2
    Lead = 1
    MaxTime = 2
    MaxRequests = 2
SPECIFICATION Spec
INVARIANTS TypeOK CutHolds ErasureBuries ErasedWasNoticed
PROPERTIES ImplementsLife
SYMMETRY MCSymmetry
CHECK_DEADLOCK FALSE
