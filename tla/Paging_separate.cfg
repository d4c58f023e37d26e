SPECIFICATION Spec
CONSTANTS
    ENTRIES = 2
    Frames <- MCFrames
    Pool <- MCPool
    cr3 = 1
    BootTables <- MCBootTables
    BootMemory <- MCBoot
    Requests <- MCSeparate
    NoCall = NoCall
CHECK_DEADLOCK FALSE
INVARIANTS
    TypeOK
    NoStaleTranslation
    TablesLinkedOnce
    MapInstalls
PROPERTIES
    OthersUntouched
    WritesTablesOnly
