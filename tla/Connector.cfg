SPECIFICATION Spec
CONSTANTS
    MaxDelay = 4
    KeepAlive = 2
    Restarts = FALSE
    OnLoops = {TRUE, FALSE}
    Deaths = {"never", "careful", "anytime"}
    MaxStarts = 2
    MaxFailures = 4
INVARIANTS
    ContractKeepsAssertions
    OneAttempt
    OnlyLongRetriesDangle
PROPERTIES
    StartConnects
    StopReleases
