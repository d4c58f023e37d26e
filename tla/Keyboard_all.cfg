SPECIFICATION Spec
CONSTANTS
    MAX_KEYBOARD_EVENTS = 2
    Settings <- MCSettings
    Printable <- MCPrintable
    MaxPresses = 4
    MaxWire = 2
CHECK_DEADLOCK FALSE
INVARIANTS
    TypeOK
    RingConsistent
    HeldKeysTracked
    SizeWithinBacklog
PROPERTIES
    CaseOfPress
    ProcessReturns
    ImplementsEchoQueue
