SPECIFICATION PrintSpec
CONSTANTS
    Strings <- MCStrings
    CodeTexts <- MCCodeTexts
    Reports <- MCReports
    Text <- MCText
    UINT = 256
    SIZE = 65536
    BUFFER = 5
CHECK_DEADLOCK FALSE
INVARIANTS
    PrintTypeOK
    NeverPastEnd
    AsciiKept
    RoundTrip
    ReportShown
