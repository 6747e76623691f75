\* Writers one after the other, and a reader at any time.
SPECIFICATION Spec
CONSTANTS
    Base = 3
    Vector <- MCVector
    Absent = Absent
    None = None
    MaxWrites = 2
    MaxReads = 1
INVARIANTS
    TypeOK
    ReadBack
    TornIsPrefix
    
CHECK_DEADLOCK FALSE
