SPECIFICATION FairSpec
CONSTANTS
    Peers = {p1, p2}
    Unreliable = {p2}
    DefaultClient = TRUE
    Retain = {p2}
    Stoppers = {p2}
    Greets = FALSE
    CloseAfterWrite = TRUE
    MaxStarts = 1
PROPERTIES
    StopReturns
    LoopEnds
    AcceptedIsAnswered
    EveryPeerAccepted
\* The program may never call start again.
CHECK_DEADLOCK FALSE
