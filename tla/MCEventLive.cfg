SPECIFICATION FairSpec
CONSTANTS
    Slots = {s1}
    Queues = {q1, q2}
    Dispatchers = {d1}
    Users = {u1}
    NoQueue = NoQueue
    Params <- LiveParams
    MaxOpens = 1
    MaxNotify = 2
ACTION_CONSTRAINT HangupAlone

CHECK_DEADLOCK FALSE
PROPERTIES
    ImplementsWatch
    NotificationServed
    CancelFinishes
