SPECIFICATION Spec
CONSTANTS
    Machines <- MCHealthy
    AddressOf <- MCAddressOf
    Lines <- MCLines
    StackWords <- MCWords
    TICKS = 3
CHECK_DEADLOCK FALSE
INVARIANTS
    LvtAsDocumented
