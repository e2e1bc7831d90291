SPECIFICATION Spec
CONSTANTS
    SameLoops = {TRUE, FALSE}
    Usages = {"contract", "shutdown", "forceClose", "delay", "read", "server"}
    Users = {u1}
    MaxSends = 2
    MaxData = 1
    MaxQueue = 2
    MaxSpace = 1
    HighWaterMark = 2
INVARIANTS
    WireInOrder
    FinAfterFlush
    OutputIsWatched
    ContractKeepsAssertions
    DestroyedIsRemoved
PROPERTIES
    ClosedIsDestroyed
    ShutdownCompletes
