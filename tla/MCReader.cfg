SPECIFICATION FairSpec
CONSTANTS
    MaxBytes = 4
    Chunk = 2
    MaxFetched = 2
INVARIANTS
    ReaderConsistent
    CancelIsTheLastWord
PROPERTIES
    InputIsRead
    EndIsReported
CHECK_DEADLOCK FALSE
