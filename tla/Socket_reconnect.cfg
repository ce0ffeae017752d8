SPECIFICATION Spec
CONSTANTS
    Objects = {o1}
    Fds = {3, 4}
    OpenSSL = TRUE
    Relisten = FALSE
    ReuseMoved = FALSE
INVARIANTS
    SecureConnectionUsable
