SPECIFICATION FairSpec
CONSTANTS
    Blocks <- MCBlocks
    None = None
    MaxTyping = 1
    Safeties <- MCSafeties
    Cap = 2
    MaxFallbacks = 1
CHECK_DEADLOCK FALSE
INVARIANTS
    Paired
    UnsafeRunsAlone
    DialogInv
PROPERTIES
    FirstAnswerDecides
    TurnEnds
