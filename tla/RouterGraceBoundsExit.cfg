\* One worker, two clients: the second waits in the queue.
SPECIFICATION DeafPeerSpec
CONSTANTS
    Conns = {c1, c2}
    Workers = {w1}
    MaxQueueDepth = 1
    NoTask = NoTask
    Tls = FALSE
PROPERTY
    GraceBoundsExit
