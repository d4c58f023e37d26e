SPECIFICATION KernelSpec
CONSTANTS
    Loaders <- MCLoaders
    Machines <- MCMachines
    AddressOf <- MCAddressOf
    Lines <- MCLines
    StackWords <- MCWords
    TICKS = 3
CHECK_DEADLOCK FALSE
INVARIANTS
    KernelTypeOK
    NoIrqOnExceptionVector
    NothingLeftInService
    DescriptorsWork
    StopsExplained
PROPERTIES
    BootCompletes
    FirstTick
    X2apicKeepsTicking
