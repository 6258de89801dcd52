\* Three borrowers for two connections, health checks on or off, shutdown at any time.
\* A connection expires one tick after its last use, or after its creation.
SPECIFICATION Spec
CONSTANTS
    Borrowers = {b1, b2, b3}
    Fds = {f1, f2, f3}
    MaxSize = 2
    IdleTimeout = 0
    MaxLifetime = 0
    MaxNow = 1
    NoFd = NoFd
SYMMETRY Symmetric
INVARIANTS
    OwnedExactlyOnce
    InUseExact
    WithinMaxSizeUnpinged
    OnlyMissedStayOpen
PROPERTY
    ScanByLastReturn
