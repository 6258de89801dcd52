\* One borrower and one reaper pass exceed max_size = 1.
SPECIFICATION Spec
CONSTANTS
    Borrowers = {b1}
    Fds = {f1, f2}
    MaxSize = 1
    IdleTimeout = 0
    MaxLifetime = 0
    MaxNow = 0
    NoFd = NoFd
INVARIANT
    WithinMaxSize
