SPECIFICATION FairSpec
CONSTANTS
    Peers = {p1}
    Unreliable = {p1}
    DefaultClient = TRUE
    Retain = {}
    Stoppers = {}
    Greets = FALSE
    CloseAfterWrite = TRUE
    MaxStarts = 1
PROPERTY
    StopReturns
\* The program may never call start again.
CHECK_DEADLOCK FALSE
