SPECIFICATION FairSpec
CONSTANTS
    Conns = {c1}
    MaxFd = 3
    MaxStarts = 1
    Backends = {"epoll"}
    Frequencies = {4}
    Usec = 4
    SigpipeIgnored = TRUE
    ListenersClose = FALSE
PROPERTY
    RequestIsRead
CHECK_DEADLOCK FALSE
