SPECIFICATION FairSpec
CONSTANTS
    Turns = {t1, t2, t3}
    None = None
    Cmds = {"plan", "slash", "chained", "subagent"}
    Attr <- MCAttr
    MaxCancels = 2
CHECK_DEADLOCK FALSE
INVARIANTS
    GuardAccounted
PROPERTIES
    OwnerIsNotDisturbed
    GuardIsReleased
    QueueMoves
    ImplementsOneQuery
