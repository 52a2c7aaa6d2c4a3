SPECIFICATION FairSpec
CONSTANTS
    Slots = {s1}
    Dispatchers = {d1, d2}
    NoOne = NoOne
    Deadlines = {2}
    MaxTime = 2
    Batch = 1
    MaxArms = 2
    MaxCreates = 1
PROPERTY
    DueTimersFire
CHECK_DEADLOCK FALSE
