SPECIFICATION Spec
CONSTANTS
    NumTiers = 3
    relay = relay
    direct = direct
    Providers = {relay, direct}
    Env = Env
    Named = Named
    Main = main
    Forks = {f, g}
    Bindings <- MCBindings
    Explicits <- NoExplicit
    MAX_TIER_FALLBACKS = 2
    MaxIterations = 2
    MaxQueries = 2
    RoundLimit = 5
CHECK_DEADLOCK FALSE
INVARIANT RequestFollowsTheModel
