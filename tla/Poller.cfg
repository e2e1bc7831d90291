SPECIFICATION Spec
CONSTANTS
    Channels = {c1, c2, c3}
    Fds = {fd1, fd2}
    None = None
    InitEventList = 1
INVARIANTS
    KernelMatchesLabels
    MapMatchesLabels
    ActiveChannelsAlive
