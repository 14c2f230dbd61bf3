SPECIFICATION Spec
CONSTANTS
    Turns = {t1, t2, t3}
    None = None
    Cmds = {"prompt1", "bash", "urgent", "teammate"}
    Attr <- MCAttr
    MaxCancels = 1
SYMMETRY TurnSymmetry
CHECK_DEADLOCK FALSE
INVARIANTS
    NothingVanishes
    DeliveredOnce
