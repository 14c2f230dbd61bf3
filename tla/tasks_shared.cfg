SPECIFICATION Spec
CONSTANTS
    Procs = {p, q}
    p = p
    q = q
    Nobody = Nobody
    AgentOf <- OwnName
    MaxId = 3
    Existing <- Chained
    Ops = {"create", "update", "delete", "reset", "hide", "block", "claim",
           "unassign"}
    Wants = {"completed", p}
    MaxCalls = 3
    MaxCrashes = 1
CHECK_DEADLOCK FALSE
INVARIANTS
    SharedInv
PROPERTIES
    NoLostUpdate
    ClaimsRespectOthers
