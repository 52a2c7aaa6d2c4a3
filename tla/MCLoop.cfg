SPECIFICATION FairSpec
CONSTANTS
    Width = 2
    Externals = {e1}
    Queues = {q1, q2}
    Tasks = {t1, t2, t3}
    InitQueue = q1
    InitTask = t1
    Limit <- MCLimit
    MaxCreates = 1
    NoQueue = NoQueue
    NoTask = NoTask
INVARIANTS
    TypeOK
    ScheduledOnce
    RunsTheHead
    RefsCountHolders
    DestroyedUnused
    TaskDestroyedOnce
    NoLostWakeup
    EndsOnceUnused
PROPERTIES
    EveryTaskRuns
    LoopReturns
    ImplementsSerialQueue
