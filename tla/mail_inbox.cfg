SPECIFICATION FairSpec
CONSTANTS
    bye = bye
    task = task
    chat = chat
    Msgs = {bye, task, chat}
    Class <- ThreeClasses
    Markers = {k1, k2}
    Nobody = Nobody
    MaxCrashes = 1
CHECK_DEADLOCK FALSE
INVARIANTS
    DeliveryInv
PROPERTIES
    InboxOnlyGrows
    EveryMessageArrives
