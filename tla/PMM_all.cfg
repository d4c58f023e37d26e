SPECIFICATION Spec
CONSTANTS
    PAGE_SIZE = 2
    MAX_REGIONS = 4
    NoResponse = NoResponse
    MemMaps <- MCMapsAll
    Counts <- MCCounts
    StrayBases <- MCBases
INVARIANTS
    TypeOK
    RegionsDisjoint
    HeldExclusive
    UsedIsHeld
    Coalesced
    MemoryConserved
PROPERTIES
    HolderDataKept
    StrayFreeHarmlessNoHoles
    InitTerminates
    ImplementsPageAllocator
