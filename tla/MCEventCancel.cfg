SPECIFICATION FairSpec
CONSTANTS
    Slots = {s1}
    Queues = {q1}
    Dispatchers = {d1}
    Users = {u1}
    NoQueue = NoQueue
    Params <- Accepted
    MaxOpens = 1
    MaxNotify = 1
CHECK_DEADLOCK FALSE
PROPERTIES
    NeverCalledAfterCancel
