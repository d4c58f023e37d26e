SPECIFICATION Spec
CONSTANTS
    BASIC_WIDTH = 2
    WIDE_WIDTH = 4
    FONT_HEIGHT = 2
    FONTS <- MCFonts
    WideChars <- MCWide
    Settings <- MCScreens
INVARIANTS
    TypeOK
    CursorOnScreen
    GlyphsWhole
PROPERTIES
    ImplementsTerminal
