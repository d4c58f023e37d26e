SPECIFICATION Spec
CONSTANTS
    ENTRIES = 2
    Frames <- MCFrames
    Pool <- MCPool
    cr3 = 1
    BootTables <- MCBootTables
    BootMemory <- MCBoot
    Requests <- MCFresh
    NoCall = NoCall
CHECK_DEADLOCK FALSE
INVARIANTS
    MapInstalls
