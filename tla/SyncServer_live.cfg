SPECIFICATION FairSpec
CONSTANTS
    Conns = {c1, c2}
    MaxFd = 4
    MaxStarts = 2
    Backends = {"epoll"}
    Frequencies = {1, 4}
    Usec = 4
    SigpipeIgnored = TRUE
    ListenersClose = FALSE
PROPERTY
    StopReturns
\* The server may be stopped for good and all peers gone.
CHECK_DEADLOCK FALSE
