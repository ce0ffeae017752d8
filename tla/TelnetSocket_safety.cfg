SPECIFICATION Spec
CONSTANTS
    Listeners = {l1, l2, l3}
    Null = Null
    MaxListOps = 5
    MaxItems = 3
    MaxStream = 15
    MaxWork = 8
    MaxRecv = 9
SYMMETRY Symmetry
INVARIANTS
    TypeOK
    DecodedUnlessSplit
    NeitherEatenNorForged
    ReadlnKeepsText
PROPERTY
    RoundTellsAll
\* The peer may stop sending; undefined behaviour ends the program.
CHECK_DEADLOCK FALSE
