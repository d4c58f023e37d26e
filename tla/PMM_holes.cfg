SPECIFICATION Spec
CONSTANTS
    PAGE_SIZE = 2
    MAX_REGIONS = 4
    NoResponse = NoResponse
    MemMaps <- MCMapsWithHoles
    Counts <- MCCounts
    StrayBases <- MCBases
INVARIANTS
    ManagedIsUsable
