---------------------------- MODULE TextConsole -----------------------------
(***************************************************************************)
(* The text console (drivers/graphics.cpp): a cursor of two global         *)
(* variables, and a framebuffer that glyphs are drawn into.                *)
(*                                                                         *)
(* The program writes one character after another, through write or        *)
(* through putchar.  keyboard_handler may interrupt it and call putchar    *)
(* itself; the handler cannot be interrupted, so its call is one step, and *)
(* the program's takes a step per access to the cursor, in the order of    *)
(* the build, which loads x_pos and y_pos before it draws, loads x_pos     *)
(* again to test for the end of the line, and y_pos before it stores it.   *)
(* The scroll moves all pixels in one step.                                *)
(*                                                                         *)
(* A pixel is Blank or the bit of the font table it shows, <<byte, bit>>;  *)
(* the colors are left out.  pitch is taken to be width: the columns       *)
(* beyond it are never written.                                            *)
(***************************************************************************)
EXTENDS Integers

CONSTANTS
    BASIC_WIDTH, WIDE_WIDTH,    \* columns of a glyph, latin and cjk (8, 16)
    FONT_HEIGHT,                \* rows of a glyph (201)
    FONTS,      \* whose glyph each byte of the font table belongs to, and
                \* which row of it: <<character, row>>
    WideChars,  \* the characters that is_wide_char holds for
    Settings    \* screens and programs, see Setting

NEWLINE == 10
RETURN == 13
BACKSPACE == 8

(* width, height: the size of the framebuffer; written: the characters the *)
(* program writes; cursors: where it sets the cursor to, nowhere when it   *)
(* does nothing but write; preemptible: may keyboard_handler interrupt it? *)
Setting == [width : Nat \ {0}, height : Nat \ {0}, written : SUBSET Nat,
            cursors : SUBSET (Nat \X Nat), preemptible : BOOLEAN]

ASSUME SizeAssumption ==
    /\ BASIC_WIDTH \in Nat \ {0} /\ WIDE_WIDTH = 2 * BASIC_WIDTH /\ FONT_HEIGHT \in Nat \ {0}
    /\ WideChars \subseteq Nat
    /\ \A s \in Settings : /\ s.width \in Nat \ {0} /\ s.height \in Nat \ {0}
                           /\ s.written \subseteq Nat /\ s.preemptible \in BOOLEAN
(* Nobody sets the cursor off the screen.                                  *)
ASSUME CursorAssumption ==
    \A s \in Settings : \A p \in s.cursors :
        /\ p \in Nat \X Nat
        /\ p[1] * BASIC_WIDTH < s.width /\ p[2] * FONT_HEIGHT < s.height

VARIABLES
    setting,                \* one of Settings; constant
    buffer, x_pos, y_pos,   \* the framebuffer and the cursor
    pc,                     \* what the program does next; "idle" between characters
    cur,                    \* the character it is writing
    through,                \* through "write" or "putchar"
    r_x, r_y                \* the cursor in its registers

vars == <<setting, buffer, x_pos, y_pos, pc, cur, through, r_x, r_y>>

width   == setting.width
height  == setting.height
Written == setting.written

Lines   == 0 .. height - 1
Columns == 0 .. width - 1
Blank   == <<>>
Cleared == [py \in Lines |-> [px \in Columns |-> Blank]]

GlyphWidth(c) == IF c \in WideChars THEN WIDE_WIDTH ELSE BASIC_WIDTH

(* The bit of the font table _putchar reads for a pixel of a glyph.        *)
Ink(c, gy, gx) == <<c * FONT_HEIGHT + gy, gx \div (GlyphWidth(c) \div BASIC_WIDTH)>>

OffScreen(x, y, c) == x * GlyphWidth(c) >= width \/ y * FONT_HEIGHT >= height

(* Mutants of Drawn: glyphs are not clipped at the right edge, or are one  *)
(* row too tall.                                                           *)
DrawnUnclipped(buf, x, y, c) ==
    [py \in Lines |->
        LET gy == py - y * FONT_HEIGHT
            x0 == x * GlyphWidth(c)
            glyph == IF gy \in 0 .. FONT_HEIGHT - 1 THEN x0 .. x0 + GlyphWidth(c) - 1 ELSE {}
        IN  [px \in Columns \cup glyph |->
                IF px \in glyph THEN Ink(c, gy, px - x0) ELSE buf[py][px]]]
DrawnTall(buf, x, y, c) ==
    [py \in Lines |-> [px \in Columns |->
        LET gy == py - y * FONT_HEIGHT
            gx == px - x * GlyphWidth(c)
        IN  IF gy \in 0 .. FONT_HEIGHT /\ gx \in 0 .. GlyphWidth(c) - 1
            THEN Ink(c, gy, gx) ELSE buf[py][px]]]

(* The glyph of c is drawn at cell x, y, clipped at the screen's edges.    *)
Drawn(buf, x, y, c) ==
    [py \in Lines |-> [px \in Columns |->
        LET gy == py - y * FONT_HEIGHT
            gx == px - x * GlyphWidth(c)
        IN  IF gy \in 0 .. FONT_HEIGHT - 1 /\ gx \in 0 .. GlyphWidth(c) - 1
            THEN Ink(c, gy, gx) ELSE buf[py][px]]]

(* A mutant of Scrolled: the last line is not cleared.                     *)
ScrolledDirty(buf) ==
    [py \in Lines |-> IF py + FONT_HEIGHT < height THEN buf[py + FONT_HEIGHT] ELSE buf[py]]

(* Everything moves up by a line of text.  On a screen lower than that     *)
(* height - FONT_HEIGHT wraps, and neither loop runs.                      *)
Scrolled(buf) ==
    [py \in Lines |->
        IF py + FONT_HEIGHT < height THEN buf[py + FONT_HEIGHT]
        ELSE IF height >= FONT_HEIGHT THEN Cleared[py] ELSE buf[py]]

(* A mutant of PastRight: the edge itself is taken for the screen.         *)
PastRightLate(x) == x * BASIC_WIDTH > width

PastRight(x)  == x * BASIC_WIDTH >= width
PastBottom(y) == y * FONT_HEIGHT >= height

Init ==
    /\ setting \in Settings
    /\ buffer = Cleared /\ x_pos = 0 /\ y_pos = 0
    /\ pc = "idle" /\ cur = NEWLINE /\ through = "write" /\ r_x = 0 /\ r_y = 0

-----------------------------------------------------------------------------
(***************************************************************************)
(* The program: write and putchar, one character.                          *)
(***************************************************************************)
Screen    == <<buffer, x_pos, y_pos>>
Registers == <<setting, cur, through, r_x, r_y>>

(* putchar looks once more whether the cursor is below the screen.         *)
After == IF through = "putchar" THEN "check" ELSE "idle"

(* A newline, in write and in putchar.                                     *)
BeginNewline(how) ==
    /\ pc = "idle" /\ pc' = "newline" /\ cur' = NEWLINE /\ through' = how
    /\ UNCHANGED <<setting, Screen, r_x, r_y>>

(* A program that does nothing but write never moves the cursor back.      *)
MovesCursor == setting.cursors # {}

(* Only putchar knows the carriage return; write draws it.                 *)
PutReturn ==
    /\ pc = "idle" /\ MovesCursor
    /\ pc' = "check" /\ cur' = RETURN /\ through' = "putchar"
    /\ x_pos' = 0
    /\ UNCHANGED <<setting, buffer, y_pos, r_x, r_y>>

(* Any other character: _putchar loads the cursor.                         *)
BeginGlyph(how, c) ==
    /\ pc = "idle" /\ c # NEWLINE /\ (how = "putchar" => c # RETURN)
    /\ pc' = "draw" /\ cur' = c /\ through' = how
    /\ r_x' = x_pos /\ r_y' = y_pos
    /\ UNCHANGED <<setting, Screen>>

Draw ==
    /\ pc = "draw"
    /\ IF OffScreen(r_x, r_y, cur)
       THEN pc' = "wrap" /\ UNCHANGED buffer
       ELSE pc' = "advance" /\ buffer' = Drawn(buffer, r_x, r_y, cur)
    /\ UNCHANGED <<x_pos, y_pos, Registers>>

(* x_pos++, from the register.                                             *)
Advance ==
    /\ pc = "advance" /\ pc' = "wrap"
    /\ x_pos' = r_x + 1
    /\ UNCHANGED <<buffer, y_pos, Registers>>

Wrap ==
    /\ pc = "wrap" /\ pc' = IF PastRight(x_pos) THEN "newline" ELSE After
    /\ UNCHANGED <<Screen, Registers>>

(* newline: y_pos is loaded, x_pos and y_pos are stored.                   *)
LoadRow ==
    /\ pc = "newline" /\ pc' = "column" /\ r_y' = y_pos
    /\ UNCHANGED <<setting, Screen, cur, through, r_x>>
StoreColumn ==
    /\ pc = "column" /\ pc' = "row" /\ x_pos' = 0
    /\ UNCHANGED <<buffer, y_pos, Registers>>
StoreRow ==
    /\ pc = "row" /\ y_pos' = r_y + 1
    /\ pc' = IF PastBottom(r_y + 1) THEN "scroll" ELSE After
    /\ UNCHANGED <<buffer, x_pos, Registers>>

(* scroll: the pixels move, and y_pos is decremented.                      *)
Scroll ==
    /\ pc = "scroll" /\ pc' = "unscroll"
    /\ buffer' = Scrolled(buffer) /\ r_y' = y_pos
    /\ UNCHANGED <<setting, x_pos, y_pos, cur, through, r_x>>
Unscroll ==
    /\ pc = "unscroll" /\ pc' = After
    /\ y_pos' = IF r_y > 0 THEN r_y - 1 ELSE y_pos
    /\ UNCHANGED <<buffer, x_pos, Registers>>

(* The last test of putchar; the scroll it may call ends the call.         *)
Check ==
    /\ pc = "check"
    /\ IF PastBottom(y_pos) THEN pc' = "scroll" /\ through' = "write"
                            ELSE pc' = "idle" /\ UNCHANGED through
    /\ UNCHANGED <<setting, Screen, cur, r_x, r_y>>

WriteStep == \/ Draw \/ Advance \/ Wrap \/ LoadRow \/ StoreColumn \/ StoreRow
             \/ Scroll \/ Unscroll \/ Check

(* clear and setcursor                                                     *)
Clear ==
    /\ pc = "idle" /\ MovesCursor
    /\ buffer' = Cleared /\ x_pos' = 0 /\ y_pos' = 0
    /\ UNCHANGED <<pc, Registers>>
SetCursor(x, y) ==
    /\ pc = "idle" /\ <<x, y>> \in setting.cursors
    /\ x_pos' = x /\ y_pos' = y
    /\ UNCHANGED <<buffer, pc, Registers>>

-----------------------------------------------------------------------------
(***************************************************************************)
(* keyboard_handler calls putchar('\b'): _putchar draws a glyph for it,    *)
(* and the end of the line and of the screen are looked after as usual.    *)
(***************************************************************************)
Undone(s) == [s EXCEPT !.buf = Scrolled(s.buf), !.y = IF s.y > 0 THEN s.y - 1 ELSE s.y]
Below(s)  == IF PastBottom(s.y) THEN Undone(s) ELSE s
Wrapped(s) == IF PastRight(s.x) THEN Below([s EXCEPT !.x = 0, !.y = s.y + 1]) ELSE s
Glyphed(s, c) == IF OffScreen(s.x, s.y, c) THEN s
                 ELSE [s EXCEPT !.buf = Drawn(s.buf, s.x, s.y, c), !.x = s.x + 1]

HandlerPutchar ==
    /\ setting.preemptible
    /\ LET s == Below(Wrapped(Glyphed([buf |-> buffer, x |-> x_pos, y |-> y_pos], BACKSPACE)))
       IN  buffer' = s.buf /\ x_pos' = s.x /\ y_pos' = s.y
    /\ UNCHANGED <<pc, Registers>>

Next == \/ \E how \in {"write", "putchar"} :
             BeginNewline(how) \/ \E c \in Written : BeginGlyph(how, c)
        \/ PutReturn
        \/ WriteStep
        \/ Clear \/ \E p \in setting.cursors : SetCursor(p[1], p[2])
        \/ HandlerPutchar

Spec == Init /\ [][Next]_vars

-----------------------------------------------------------------------------
(***************************************************************************)
(* Properties                                                              *)
(***************************************************************************)
TypeOK ==
    /\ setting \in Settings
    /\ DOMAIN buffer = Lines
    /\ \A py \in Lines : DOMAIN buffer[py] = Columns
    /\ x_pos \in Nat /\ y_pos \in Nat /\ r_x \in Nat /\ r_y \in Nat
    /\ pc \in {"idle", "draw", "advance", "wrap", "newline", "column", "row", "scroll",
               "unscroll", "check"}
    /\ cur \in Nat /\ through \in {"write", "putchar"}

(* Between two characters the cursor is on the screen, even when the       *)
(* handler wrote in the middle of one: the next one is not lost, unless it *)
(* is wide and the cursor past the middle of the line.                     *)
CursorOnScreen ==
    pc = "idle" => x_pos * BASIC_WIDTH < width /\ y_pos * FONT_HEIGHT < height

(* While nobody interrupts a program whose glyphs are all latin, every     *)
(* cell is blank or shows one glyph from its top, as many rows of it as    *)
(* fitted on the screen: drawing never reaches into a neighbour, and       *)
(* scrolling never mixes two characters.                                   *)
Narrow(s) == s.written # {} /\ s.written \cap WideChars = {}
Cell(r, c) == {g \in (0 .. FONT_HEIGHT - 1) \X (0 .. BASIC_WIDTH - 1) :
                  r * FONT_HEIGHT + g[1] < height /\ c * BASIC_WIDTH + g[2] < width}
Pixel(buf, r, c, g) == buf[r * FONT_HEIGHT + g[1]][c * BASIC_WIDTH + g[2]]
Shows(buf, r, c, ch, k) ==
    \A g \in Cell(r, c) :
        Pixel(buf, r, c, g) = IF g[1] < k THEN Ink(ch, g[1], g[2]) ELSE Blank
CellRows == {y \in Lines : y * FONT_HEIGHT < height}
CellCols == {x \in Columns : x * BASIC_WIDTH < width}
GlyphsWhole ==
    ~setting.preemptible /\ Narrow(setting) =>
        \A r \in CellRows, c \in CellCols :
            \E ch \in Written, k \in 0 .. FONT_HEIGHT : Shows(buffer, r, c, ch, k)

(* Every pixel drawn shows the row it should of the glyph it should.       *)
GlyphOfChar ==
    \A py \in Lines, px \in Columns :
        buffer[py][px] # Blank =>
            LET byte == buffer[py][px][1]
            IN  byte \in DOMAIN FONTS /\ FONTS[byte] = <<byte \div FONT_HEIGHT, byte % FONT_HEIGHT>>

(* The console implements the grid of cells, when the screen is a whole    *)
(* number of lines high, the glyphs are latin and nobody interrupts the    *)
(* program.                                                                *)
NoChar == -1
The(S) == CHOOSE x \in S : TRUE
Shown(buf, r, c) ==
    IF \A g \in Cell(r, c) : Pixel(buf, r, c, g) = Blank THEN NoChar
    ELSE The({ch \in Written : Shows(buf, r, c, ch, FONT_HEIGHT)})
Grid(buf) == [r \in CellRows |-> [c \in CellCols |-> Shown(buf, r, c)]]
Feeding  == pc \in {"newline", "column", "row"}
WillScroll == pc = "scroll" \/ (Feeding /\ PastBottom(y_pos + 1))
VisibleBuffer == IF WillScroll THEN Scrolled(buffer) ELSE buffer
VisibleRow == IF Feeding THEN (IF PastBottom(y_pos + 1) THEN y_pos ELSE y_pos + 1)
              ELSE IF pc \in {"scroll", "unscroll"} THEN y_pos - 1 ELSE y_pos
VisibleCol == IF Feeding THEN 0 ELSE IF pc = "advance" THEN r_x + 1 ELSE x_pos
T(s) == INSTANCE Terminal WITH
        Rows <- s.height \div FONT_HEIGHT,
        Columns <- (s.width + BASIC_WIDTH - 1) \div BASIC_WIDTH,
        Chars <- s.written, Empty <- NoChar,
        grid <- Grid(VisibleBuffer), row <- VisibleRow, col <- VisibleCol
Whole(s) == ~s.preemptible /\ Narrow(s) /\ s.height % FONT_HEIGHT = 0
ImplementsTerminal ==
    /\ \A s \in Settings : setting = s /\ Whole(s) => T(s)!Init
    /\ [][\A s \in Settings : setting = s /\ Whole(s) => [T(s)!Next]_(T(s)!vars)]_vars
==============================================================================
