SPECIFICATION Spec
CONSTANTS
    Procs = {p1, p2}
    Alphabet <- MCAlphabet
    MethodKey <- MCMethodKey
    UriKey <- MCUriKey
    GetName <- MCGetName
    Methods <- MCMethods
    UriTexts <- MCUriTexts
    MaxRuns = 3
    MaxOptions = 2
SYMMETRY Symmetry
INVARIANTS
    TypeOK
    SessionRestored
\* The user may stop running it.
CHECK_DEADLOCK FALSE
