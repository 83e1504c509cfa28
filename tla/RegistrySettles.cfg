CONSTANTS
    a1 = a1
    a2 = a2
    m1 = m1
    r1 = r1
    r2 = r2
    Adults <- MCAdults
    Minors <- MCMinors
    OfAge <- MCMinors
    Requests <- MCOneRequest
    Scheduler = sched
    Nobody = nobody
    Subjects <- MCSubjects
    Window = 1
    Lead = 1
    MaxTime = 2
    MaxRequests = 2
SPECIFICATION FairSpec
PROPERTIES DueIsSettled 
CHECK_DEADLOCK FALSE
