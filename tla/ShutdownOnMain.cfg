\* One SIGTERM, delivered to the main thread.
SPECIFICATION FairSpec
CONSTANTS
    Threads = {m, t1}
    Main = m
    Signals = {SIGTERM}
    Targets = {m}
    MaxDeliveries = 1
    Nobody = Nobody
CHECK_DEADLOCK FALSE
PROPERTY
    RequestStartsDrain
