SPECIFICATION PoolSpec
CONSTANTS
    N = 2
    MaxCalls = 1
    Careful = FALSE
    LoopsQuit = FALSE
PROPERTIES
    DtorReturns
