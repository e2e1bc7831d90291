SPECIFICATION Spec
CONSTANTS
    SameLoops = {FALSE}
    Usages = {"shutdown"}
    Users = {u1}
    MaxSends = 2
    MaxData = 1
    MaxQueue = 2
    MaxSpace = 1
    HighWaterMark = 2
INVARIANT
    DtorAssertion
