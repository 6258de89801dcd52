\* Both modes of a full queue; two submitters and two workers share two slots.
SPECIFICATION FairSpec
CONSTANTS
    Tasks = {t1, t2, t3}
    Workers = {w1, w2}
    Producers = {p1, p2}
    Stoppers = {s1, s2}
    MaxQueueDepth = 2
    NoTask = NoTask
INVARIANTS
    TypeOK
    NoStandstill
    ExactlyOnce
    WakeupsCoverQueue
    WakeupsCoverSpace
    JoinedMeansDrained
PROPERTIES
    StopReturns
    SubmitReturns
    AcceptedTaskRuns
    ThreadPoolImplementsTaskPool
