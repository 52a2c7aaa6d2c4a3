SPECIFICATION Spec
CONSTANTS
    Slots = {s1, s2}
    Dispatchers = {d1, d2}
    NoOne = NoOne
    Deadlines = {0, 2}
    MaxTime = 2
    Batch = 2
    MaxArms = 2
    MaxCreates = 2
INVARIANTS
    ServiceConsistent
    RefsCountHolders
    TimersCovered
    TimerfdCovers
CHECK_DEADLOCK FALSE
SYMMETRY Symmetry
