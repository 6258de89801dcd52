\* Both signals, on any thread, nested or repeated; the timer never helps.
SPECIFICATION NoTimerSpec
CONSTANTS
    Threads = {m, t1, t2}
    Main = m
    Signals = {SIGTERM, SIGINT}
    Targets = {m, t1, t2}
    MaxDeliveries = 3
    Nobody = Nobody
CHECK_DEADLOCK FALSE
INVARIANTS
    NoLostWakeup
    StuckOnlyOnItself
PROPERTY
    DrainsUnlessSelfDeadlocked
