SPECIFICATION Spec
CONSTANTS
    Conns = {c1, c2}
    MaxFd = 4
    MaxStarts = 2
    Backends = {"epoll", "select"}
    Frequencies = {4}
    Usec = 4
    SigpipeIgnored = TRUE
    ListenersClose = TRUE
INVARIANTS
    TypeOK
    MapMirrorsKernel
    StallBounded
PROPERTIES
    SurvivesPeers
    StopLeavesNothing
\* A program that has ended does nothing more.
CHECK_DEADLOCK FALSE
