SPECIFICATION Spec
CONSTANTS
    BASIC_WIDTH = 1
    WIDE_WIDTH = 2
    FONT_HEIGHT = 201
    FONTS <- MCFontsHpp
    WideChars <- MCWide
    Settings <- MCScreenA
INVARIANTS
    GlyphOfChar
