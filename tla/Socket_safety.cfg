SPECIFICATION Spec
CONSTANTS
    Objects = {o1, o2, o3}
    Fds = {3, 4, 5}
    OpenSSL = TRUE
    Relisten = FALSE
    ReuseMoved = FALSE
SYMMETRY Symmetry
INVARIANTS
    TypeOK
    NoDangling
    UniqueOwner
    SessionOnOwnDescriptor
    ModeAgrees
PROPERTY
    NeverOrphaned
