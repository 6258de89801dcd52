SPECIFICATION PathSpec
CONSTANTS
    Borrowers = {b1, b2}
    Fds = {f1, f2}
    MaxSize = 1
    IdleTimeout = 0
    MaxLifetime = 0
    MaxNow = 1
    NoFd = NoFd
SYMMETRY Symmetric
INVARIANTS
    NoCrossTalk
