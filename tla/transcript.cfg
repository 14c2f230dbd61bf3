SPECIFICATION TQFairSpec
CONSTANTS
    NumEntries = 4
    Flushers = {f1}
    Timers = {t1, t2}
    Tombstones = {x1}
    MaxFaults = 1
    None = None
    Failed = Failed
CHECK_DEADLOCK FALSE
INVARIANTS
    QueueInv
    FileIsWhole
PROPERTIES
    EveryEntryLands
    FlushReturns
