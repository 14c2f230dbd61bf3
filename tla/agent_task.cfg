SPECIFICATION FairSpec
CONSTANTS
    Agents = {a1}
    None = None
    MaxRuns <- MCRuns
    Senders = {s1, s2}
    Teammates = {}
    AutoBackground = TRUE
CHECK_DEADLOCK FALSE
INVARIANTS
    AgentInv
PROPERTIES
    FirstEndCounts
    MessagesAreKept
    EndIsTold
