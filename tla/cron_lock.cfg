SPECIFICATION FairSpec
CONSTANTS
    p1 = p1
    p2 = p2
    p3 = p3
    Procs = {p1, p2, p3}
    SessionOf <- ResumedSession
    Nobody = Nobody
    Torn = Torn
    MaxCrashes = 2
CHECK_DEADLOCK FALSE
INVARIANTS
    OwnerHoldsTheLock
PROPERTIES
    TakenOver
    ImplementsOwner
