SPECIFICATION FairSpec
CONSTANTS
    ReentrantClose = {"on_connect", "on_will_read", "on_did_read", "on_will_write",
                      "on_did_write"}
    ReentrantConnect = {"on_close", "on_did_write"}
    MaxRecv = 2
    MaxBytes = 2
    MaxTraffic = 3
    MaxConn = 2
    MaxShort = 1
    MaxDepth = 5
    MaxNested = 1
INVARIANTS
    TypeOK
    NoByteSkipped
    ClearedWasSent
    ExactlyOnceUnlessShort
    RecursionIsPaid
    InputIsAnnounced
PROPERTIES
    CloseIsAnnounced
    
\* The object may be destroyed, after which nothing happens.
CHECK_DEADLOCK FALSE
