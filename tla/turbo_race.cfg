SPECIFICATION FairSpec
CONSTANTS
    Requests = {r1}
    Hedges = 3
    Ceiling = 3
    Staggered = TRUE
    AttemptTimeout = TRUE
    DrainCap = 1
    MaxBody = 2
    MaxPressure = 1
CHECK_DEADLOCK FALSE
INVARIANTS
    RaceInv
    BodyIsWhole
PROPERTIES
    OnlyFaultsAreReported
    RaceSettles
    ImplementsRace
