SPECIFICATION Spec
CONSTANTS
    IndexBits = 3
    FirstLog2 = 1
    Stride = 1
    Threads = {t1, t2}
    NoThread = NoThread
    MaxRetires = 3
INVARIANTS
    SlabConsistent
    HandlesNameTheirObject
SYMMETRY Symmetry
CHECK_DEADLOCK FALSE
