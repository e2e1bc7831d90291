SPECIFICATION PoolSpec
CONSTANTS
    N = 3
    MaxCalls = 3
    Careful = TRUE
    LoopsQuit = TRUE
INVARIANTS
    RoundRobin
    DtorIsSafe
PROPERTIES
    DtorReturns
