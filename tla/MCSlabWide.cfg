SPECIFICATION Spec
CONSTANTS
    IndexBits = 5
    FirstLog2 = 1
    Stride = 4
    Threads = {t1}
    NoThread = NoThread
    MaxRetires = 0
INVARIANT
    StorageDisjoint
CHECK_DEADLOCK FALSE
