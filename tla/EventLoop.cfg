SPECIFICATION Spec
CONSTANTS
    LoopThread = LoopThread
    OtherThreads = {t1, t2}
    Functors = {f1, f2}
    Channels = {sock}
    WakeupChannel = WakeupChannel
    None = None
    MaxEventfd = 2
PROPERTIES
    QueuedFunctorRuns
    QuitEndsLoop
INVARIANTS
    FunctorsRunOnceInOrder
    NoLostWakeup
