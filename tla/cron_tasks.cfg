SPECIFICATION CTFairSpec
CONSTANTS
    Procs = {p1, p2}
    Ids = {"once", "often"}
    Recurring = {"often"}
    Existing = {"often"}
    MaxAge = 2
    MaxNow = 2
    Users = {p1}
    MaxUses = 1
    MaxLeaving = 1
    Timely = {"missed", "events"}
    None = None
CHECK_DEADLOCK FALSE
INVARIANTS
    FiringInv
    NothingIsDropped
CONSTRAINT Explored
PROPERTY DueIsHanded
