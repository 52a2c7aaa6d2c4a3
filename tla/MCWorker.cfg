SPECIFICATION FairSpec
CONSTANTS
    Width = 2
    Clients = {c1}
    Barriers = {b1}
    StopTask = StopTask
    MaxEvents = 2
INVARIANTS
    WorkerConsistent
    OneWakeupPerDrain
    WorkerOutlivesUse
    BarrierDrainsEpoll
PROPERTIES
    BarriersRun
    WorkersLeave
