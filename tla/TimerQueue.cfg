SPECIFICATION Spec
CONSTANTS
    Addrs = {a1, a2}
    Callers = {t1}
    Intervals = {0, 1}
    MaxSeq = 2
    MaxTime = 1
    MaxPending = 2
    MaxBacks = 1
    None = None
INVARIANTS
    SetsMatch
    OneOwner
    CancelledStaysOut
    TimerfdCoversEarliest
PROPERTIES
    DueTimerRuns
