\* One worker, two clients: the second waits in the queue.
SPECIFICATION Spec
CONSTANTS
    Conns = {c1, c2}
    Workers = {w1}
    MaxQueueDepth = 1
    NoTask = NoTask
    Tls = FALSE
INVARIANT
    DroppedOnlyAfterGrace
