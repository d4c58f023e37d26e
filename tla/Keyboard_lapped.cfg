SPECIFICATION Spec
CONSTANTS
    MAX_KEYBOARD_EVENTS = 3
    Settings <- MCLetter
    Printable <- MCPrintable
    MaxPresses = 8
    MaxWire = 2
CHECK_DEADLOCK FALSE
INVARIANTS
    EchoedInOrder
