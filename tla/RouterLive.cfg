\* From the start-up to the exit.  Liveness and refinement: no symmetry.
SPECIFICATION StartupSpec
CONSTANTS
    Conns = {c1, c2, c3}
    Workers = {w1}
    MaxQueueDepth = 1
    NoTask = NoTask
    Tls = TRUE
INVARIANT
    FailedStartServesNobody
PROPERTIES
    StartEstablishesRouter
    RouterImplementsNoDrop
    SignalEndsProcess
    AcceptedIsHandled
