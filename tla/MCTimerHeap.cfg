SPECIFICATION Spec
CONSTANTS
    Deadlines = {1, 2}
    MaxTimers = 4
    MaxDepth = 2
    MinCapacity = 2
INVARIANTS
    HeapConsistent
    TaskDestroyedOnce
PROPERTIES
    CancelsItsOwn
    ImplementsTimers
CHECK_DEADLOCK FALSE
