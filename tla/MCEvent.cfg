SPECIFICATION Spec
CONSTANTS
    Slots = {s1}
    Queues = {q1}
    Dispatchers = {d1, d2}
    Users = {u1}
    NoQueue = NoQueue
    Params <- Accepted
    MaxOpens = 2
    MaxNotify = 2
SYMMETRY Symmetry
CHECK_DEADLOCK FALSE
INVARIANTS
    EventConsistent
    SidesServed
    RefsCountHolders
    StaleHandleHarmless
PROPERTY
    ImplementsWatch
