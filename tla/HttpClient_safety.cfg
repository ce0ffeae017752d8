SPECIFICATION Spec
CONSTANTS
    Uris <- MCUris
    MaxRequests = 2
    MaxWork = 3
INVARIANTS
    TypeOK
    ResponseOfOneRequest
    HeadDecidesContent
    LeaksNeedFailures
\* The program may stop asking.
CHECK_DEADLOCK FALSE
