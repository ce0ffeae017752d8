SPECIFICATION Spec
CONSTANTS
    Peers = {p1, p2, p3}
    Unreliable = {p1, p2, p3}
    DefaultClient = TRUE
    Retain = {}
    Stoppers = {}
    Greets = TRUE
    CloseAfterWrite = TRUE
    MaxStarts = 2
SYMMETRY Symmetry
INVARIANTS
    TypeOK
    ThreadWithinLifetime
    StopQuiesces
PROPERTY
    StartFindsNoThread
    ImplementsLifecycle
\* The program may never call start again.
CHECK_DEADLOCK FALSE
