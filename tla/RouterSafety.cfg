\* TLS on, so that the handshake and its own close are there: three clients,
\* two workers, a queue of one: submit() blocks.
SPECIFICATION Spec
CONSTANTS
    Conns = {c1, c2, c3}
    Workers = {w1, w2}
    MaxQueueDepth = 1
    NoTask = NoTask
    Tls = TRUE
SYMMETRY Symmetric
INVARIANTS
    ExitAccounted
    ExitLeavesNothingOpen
    InFlightExact
    CompletedMeansAnswered
    SubmitNeverRefused
    BackendsIdleAtShutdown
    FdClosedOnce
