------------------------- MODULE TextConsoleProofs -------------------------
(***************************************************************************)
(* TextConsole, for any screen, font size and program, interrupted or not. *)
(***************************************************************************)
EXTENDS TextConsole, TLAPS

-----------------------------------------------------------------------------
(***************************************************************************)
(* The edges of the screen.                                                *)
(***************************************************************************)
LEMMA ScreenSizes ==
    ASSUME setting \in Settings
    PROVE  /\ width \in Nat \ {0} /\ height \in Nat \ {0}
           /\ BASIC_WIDTH \in Nat \ {0} /\ WIDE_WIDTH = 2 * BASIC_WIDTH
           /\ FONT_HEIGHT \in Nat \ {0}
  BY SizeAssumption DEF width, height

(* The first cell is on the screen, a line below the screen stays below it *)
(* further down, and no glyph is drawn from a cell off the screen.         *)
LEMMA Edges ==
    ASSUME setting \in Settings
    PROVE  /\ ~PastRight(0) /\ ~PastBottom(0)
           /\ \A y \in Nat : PastBottom(y) => PastBottom(y + 1)
           /\ \A x, y, c \in Nat : PastRight(x) \/ PastBottom(y) => OffScreen(x, y, c)
<1> DEFINE W == width
           H == height
           B == BASIC_WIDTH
           F == FONT_HEIGHT
<1>1. /\ W \in Nat \ {0} /\ H \in Nat \ {0} /\ B \in Nat \ {0} /\ F \in Nat \ {0}
      /\ WIDE_WIDTH = 2 * B
  BY ScreenSizes
<1> HIDE DEF W, H, B, F
<1>2. ~(0 * B >= W) /\ ~(0 * F >= H)
  BY <1>1
<1>3. \A y \in Nat : y * F >= H => (y + 1) * F >= H
  <2> TAKE y \in Nat
  <2>1. y * F \in Nat /\ (y + 1) * F = y * F + F
    BY <1>1
  <2> QED
    BY <1>1, <2>1
<1>4. \A x \in Nat : x * B >= W => x * (2 * B) >= W
  <2> TAKE x \in Nat
  <2>1. x * B \in Nat /\ x * (2 * B) = x * B + x * B
    BY <1>1
  <2> QED
    BY <1>1, <2>1
<1>5. \A x, c \in Nat : x * B >= W => x * GlyphWidth(c) >= W
  BY <1>1, <1>4 DEF GlyphWidth, B
<1> QED
  BY <1>2, <1>3, <1>5 DEF PastRight, PastBottom, OffScreen, W, H, B, F

(* What drawing and scrolling make of a screen is a screen.                *)
IsScreen(buf) == DOMAIN buf = Lines /\ \A py \in Lines : DOMAIN buf[py] = Columns

LEMMA ScreensStay ==
    ASSUME setting \in Settings, NEW buf, IsScreen(buf), NEW x, NEW y, NEW c
    PROVE  IsScreen(Drawn(buf, x, y, c)) /\ IsScreen(Scrolled(buf)) /\ IsScreen(Cleared)
<1>1. IsScreen(Drawn(buf, x, y, c))
  BY DEF IsScreen, Drawn
<1>2. IsScreen(Cleared)
  BY DEF IsScreen, Cleared
<1>3. IsScreen(Scrolled(buf))
  <2>1. DOMAIN Scrolled(buf) = Lines
    BY DEF Scrolled
  <2>2. ASSUME NEW py \in Lines
        PROVE  DOMAIN Scrolled(buf)[py] = Columns
    <3>1. Scrolled(buf)[py] = IF py + FONT_HEIGHT < height THEN buf[py + FONT_HEIGHT]
                              ELSE IF height >= FONT_HEIGHT THEN Cleared[py] ELSE buf[py]
      BY <2>2 DEF Scrolled
    <3>2. py + FONT_HEIGHT < height => py + FONT_HEIGHT \in Lines
      BY <2>2, ScreenSizes DEF Lines
    <3> QED
      BY <1>2, <2>2, <3>1, <3>2 DEF IsScreen
  <2> QED
    BY <2>1, <2>2 DEF IsScreen
<1> QED
  BY <1>1, <1>2, <1>3

-----------------------------------------------------------------------------
(***************************************************************************)
(* keyboard_handler, from a cursor at x, y.                                *)
(***************************************************************************)
LEMMA HandlerCursor ==
    ASSUME setting \in Settings, NEW buf, IsScreen(buf), NEW x \in Nat, NEW y \in Nat
    PROVE  LET s == Below(Wrapped(Glyphed([buf |-> buf, x |-> x, y |-> y], BACKSPACE)))
           IN  /\ IsScreen(s.buf) /\ s.x \in Nat /\ s.y \in Nat
               /\ ~PastRight(s.x)
               /\ ~PastBottom(y) => ~PastBottom(s.y)
               /\ ~PastRight(x) /\ (y > 0 => ~PastBottom(y - 1))
                    => (s.y > 0 => ~PastBottom(s.y - 1))
<1> DEFINE a == [buf |-> buf, x |-> x, y |-> y]
           b == Glyphed(a, BACKSPACE)
           c == Wrapped(b)
           s == Below(c)
<1> USE Edges
<1>1. \/ b = a /\ OffScreen(x, y, BACKSPACE)
      \/ /\ b = [a EXCEPT !.buf = Drawn(buf, x, y, BACKSPACE), !.x = x + 1]
         /\ ~OffScreen(x, y, BACKSPACE)
  BY DEF Glyphed
<1>2. /\ IsScreen(b.buf) /\ b.x \in Nat /\ b.y = y
      /\ PastBottom(y) => b.x = x
      /\ b = [buf |-> b.buf, x |-> b.x, y |-> b.y]
  <2>1. BACKSPACE \in Nat
    BY DEF BACKSPACE
  <2>2. PastBottom(y) => OffScreen(x, y, BACKSPACE)
    BY <2>1
  <2>3. IsScreen(Drawn(buf, x, y, BACKSPACE))
    BY ScreensStay
  <2>4. CASE b = a
    BY <2>4
  <2>5. CASE b = [a EXCEPT !.buf = Drawn(buf, x, y, BACKSPACE), !.x = x + 1]
             /\ ~OffScreen(x, y, BACKSPACE)
    <3>1. b = [buf |-> Drawn(buf, x, y, BACKSPACE), x |-> x + 1, y |-> y]
      BY <2>5
    <3>2. ~PastBottom(y) /\ x + 1 \in Nat
      BY <2>2, <2>5
    <3> DEFINE d == Drawn(buf, x, y, BACKSPACE)
    <3>3. b = [buf |-> d, x |-> x + 1, y |-> y]
      BY <3>1
    <3> HIDE DEF b, d
    <3>4. b.buf = d /\ b.x = x + 1 /\ b.y = y
      BY <3>3
    <3>5. IsScreen(b.buf)
      BY <2>3, <3>4 DEF d
    <3> QED
      BY <3>2, <3>3, <3>4, <3>5
  <2> QED
    BY <1>1, <2>4, <2>5
<1> HIDE DEF a, b
<1>3. /\ IsScreen(c.buf) /\ c = [buf |-> c.buf, x |-> c.x, y |-> c.y]
      /\ PastRight(b.x) => c.x = 0 /\ c.y = IF PastBottom(y + 1) THEN y ELSE y + 1
      /\ ~PastRight(b.x) => c.x = b.x /\ c.y = y
  <2>1. CASE ~PastRight(b.x)
    BY <1>2, <2>1 DEF Wrapped
  <2>2. CASE PastRight(b.x) /\ ~PastBottom(y + 1)
    <3>1. c = [buf |-> b.buf, x |-> 0, y |-> y + 1]
      BY <1>2, <2>2 DEF Wrapped, Below
    <3> QED
      BY <1>2, <2>2, <3>1
  <2>3. CASE PastRight(b.x) /\ PastBottom(y + 1)
    <3>1. y + 1 > 0 /\ (y + 1) - 1 = y
      OBVIOUS
    <3>2. c = [buf |-> Scrolled(b.buf), x |-> 0, y |-> y]
      BY <1>2, <2>3, <3>1 DEF Wrapped, Below, Undone
    <3> QED
      BY <1>2, <2>3, <3>2, ScreensStay
  <2> QED
    BY <2>1, <2>2, <2>3
<1> HIDE DEF c
<1>4. c.x \in Nat /\ c.y \in Nat
  BY <1>2, <1>3
<1>5. /\ IsScreen(s.buf) /\ s.x = c.x
      /\ PastBottom(c.y) => s.y = c.y - 1 /\ c.y > 0
      /\ ~PastBottom(c.y) => s.y = c.y
  <2>1. CASE ~PastBottom(c.y)
    BY <1>3, <2>1 DEF Below
  <2>2. CASE PastBottom(c.y)
    <3>1. c.y > 0
      BY <1>4, <2>2
    <3>2. s = [buf |-> Scrolled(c.buf), x |-> c.x, y |-> c.y - 1]
      BY <1>3, <2>2, <3>1 DEF Below, Undone
    <3> QED
      BY <1>3, <2>2, <3>1, <3>2, ScreensStay
  <2> QED
    BY <2>1, <2>2
<1> HIDE DEF s
<1>6. s.x \in Nat /\ s.y \in Nat /\ ~PastRight(s.x)
  BY <1>2, <1>3, <1>4, <1>5
<1>7. ASSUME ~PastBottom(y) PROVE ~PastBottom(s.y)
  BY <1>3, <1>5, <1>7
<1>8. ASSUME NEW z \in Nat, z > 0, PastBottom(z - 1) PROVE PastBottom(z)
  <2>1. z - 1 \in Nat /\ (z - 1) + 1 = z
    BY <1>8
  <2> QED
    BY <1>8, <2>1
<1>9. ASSUME ~PastRight(x), y > 0 => ~PastBottom(y - 1), s.y > 0
      PROVE  ~PastBottom(s.y - 1)
  <2>1. CASE ~PastBottom(y)
    BY <1>6, <1>7, <1>8, <1>9, <2>1
  <2>2. CASE PastBottom(y)
    <3>1. s.y = y - 1 /\ y > 0
      BY <1>2, <1>3, <1>5, <1>9, <2>2
    <3> QED
      BY <1>6, <1>8, <1>9, <3>1
  <2> QED
    BY <2>1, <2>2
<1> QED
  BY <1>5, <1>6, <1>7, <1>9 DEF a, b, c, s

-----------------------------------------------------------------------------
(***************************************************************************)
(* The inductive invariant: how far the cursor may be off the screen at    *)
(* each step of the program.                                               *)
(***************************************************************************)
CursorInv ==
    /\ pc \notin {"wrap", "newline", "column"} => ~PastRight(x_pos)
    /\ pc \notin {"scroll", "unscroll"} => ~PastBottom(y_pos)
    /\ pc \in {"column", "row"} => ~PastBottom(r_y)
    /\ pc \in {"scroll", "unscroll"} /\ y_pos > 0 => ~PastBottom(y_pos - 1)
    /\ pc = "unscroll" => IF r_y > 0 THEN ~PastBottom(r_y - 1) ELSE ~PastBottom(y_pos)

ConsoleInv == TypeOK /\ CursorInv

LEMMA ConsoleInit == Init => ConsoleInv
<1> SUFFICES ASSUME Init PROVE ConsoleInv
  OBVIOUS
<1>1. /\ setting \in Settings /\ buffer = Cleared /\ x_pos = 0 /\ y_pos = 0 /\ pc = "idle"
      /\ cur \in Nat /\ through = "write" /\ r_x = 0 /\ r_y = 0
  BY DEF Init, NEWLINE
<1>2. TypeOK
  BY <1>1 DEF TypeOK, Cleared
<1>3. CursorInv
  BY <1>1, Edges DEF CursorInv
<1> QED
  BY <1>2, <1>3 DEF ConsoleInv

(* The invariant in the next state, with the edges of this one: the screen *)
(* keeps its size.                                                         *)
Steps == {"idle", "draw", "advance", "wrap", "newline", "column", "row", "scroll", "unscroll",
          "check"}

LEMMA CursorNext ==
    ASSUME TypeOK, setting' = setting, IsScreen(buffer'),
           x_pos' \in Nat, y_pos' \in Nat, r_x' \in Nat, r_y' \in Nat, cur' \in Nat,
           through' \in {"write", "putchar"}, pc' \in Steps,
           pc' \notin {"wrap", "newline", "column"} => ~PastRight(x_pos'),
           pc' \notin {"scroll", "unscroll"} => ~PastBottom(y_pos'),
           pc' \in {"column", "row"} => ~PastBottom(r_y'),
           pc' \in {"scroll", "unscroll"} /\ y_pos' > 0 => ~PastBottom(y_pos' - 1),
           pc' = "unscroll" => IF r_y' > 0 THEN ~PastBottom(r_y' - 1) ELSE ~PastBottom(y_pos')
    PROVE  ConsoleInv'
<1>1. Lines' = Lines /\ Columns' = Columns
  BY DEF Lines, Columns, width, height
<1>2. TypeOK'
  BY <1>1 DEF TypeOK, IsScreen, Steps
<1>3. CursorInv'
  BY DEF CursorInv, PastRight, PastBottom, width, height
<1> QED
  BY <1>2, <1>3 DEF ConsoleInv

(* A line above one on the screen is on the screen.                        *)
LEMMA LineAbove ==
    ASSUME setting \in Settings, NEW y \in Nat, y > 0, ~PastBottom(y)
    PROVE  ~PastBottom(y - 1)
<1>1. y - 1 \in Nat /\ (y - 1) + 1 = y
  OBVIOUS
<1> QED
  BY <1>1, Edges

LEMMA Facts ==
    ASSUME ConsoleInv
    PROVE  /\ setting \in Settings /\ TypeOK /\ CursorInv /\ IsScreen(buffer)
           /\ x_pos \in Nat /\ y_pos \in Nat /\ r_x \in Nat /\ r_y \in Nat /\ cur \in Nat
           /\ through \in {"write", "putchar"} /\ pc \in Steps /\ After \in {"check", "idle"}
           /\ ~PastRight(0) /\ ~PastBottom(0)
  BY Edges DEF ConsoleInv, TypeOK, IsScreen, Steps, After

(* write and putchar, between two characters.                              *)
LEMMA BeginPreserves ==
    ASSUME ConsoleInv,
           \/ \E how \in {"write", "putchar"} :
                BeginNewline(how) \/ \E c \in Written : BeginGlyph(how, c)
           \/ PutReturn \/ Clear \/ \E p \in setting.cursors : SetCursor(p[1], p[2])
    PROVE  ConsoleInv'
<1> USE Facts DEF Screen, Registers
<1>1. pc = "idle" /\ ~PastRight(x_pos) /\ ~PastBottom(y_pos)
  BY DEF CursorInv, BeginNewline, BeginGlyph, PutReturn, Clear, SetCursor
<1>2. ASSUME NEW how \in {"write", "putchar"}, BeginNewline(how)
      PROVE  ConsoleInv'
  <2>1. /\ pc' = "newline" /\ cur' \in Nat /\ through' = how
        /\ UNCHANGED <<setting, buffer, x_pos, y_pos, r_x, r_y>>
    BY <1>2 DEF BeginNewline, NEWLINE
  <2> QED
    BY <1>1, <2>1, CursorNext DEF Steps
<1>3. ASSUME NEW how \in {"write", "putchar"}, NEW c \in Written, BeginGlyph(how, c)
      PROVE  ConsoleInv'
  <2>1. /\ pc' = "draw" /\ cur' = c /\ through' = how /\ r_x' = x_pos /\ r_y' = y_pos
        /\ UNCHANGED <<setting, buffer, x_pos, y_pos>>
    BY <1>3 DEF BeginGlyph
  <2>2. c \in Nat
    BY SizeAssumption DEF Written
  <2> QED
    BY <1>1, <2>1, <2>2, CursorNext DEF Steps
<1>4. CASE PutReturn
  <2>1. /\ pc' = "check" /\ cur' \in Nat /\ through' = "putchar" /\ x_pos' = 0
        /\ UNCHANGED <<setting, buffer, y_pos, r_x, r_y>>
    BY <1>4 DEF PutReturn, RETURN
  <2> QED
    BY <1>1, <2>1, CursorNext DEF Steps
<1>5. CASE Clear
  <2>1. /\ buffer' = Cleared /\ x_pos' = 0 /\ y_pos' = 0
        /\ UNCHANGED <<pc, setting, cur, through, r_x, r_y>>
    BY <1>5 DEF Clear
  <2>2. IsScreen(buffer')
    BY <2>1, ScreensStay
  <2> QED
    BY <1>1, <2>1, <2>2, CursorNext DEF Steps
<1>6. ASSUME NEW p \in setting.cursors, SetCursor(p[1], p[2])
      PROVE  ConsoleInv'
  <2>1. /\ x_pos' = p[1] /\ y_pos' = p[2]
        /\ UNCHANGED <<buffer, pc, setting, cur, through, r_x, r_y>>
    BY <1>6 DEF SetCursor
  <2>2. /\ p[1] \in Nat /\ p[2] \in Nat
        /\ p[1] * BASIC_WIDTH < width /\ p[2] * FONT_HEIGHT < height
    BY CursorAssumption DEF width, height
  <2>3. ~PastRight(p[1]) /\ ~PastBottom(p[2])
    <3> DEFINE u == p[1] * BASIC_WIDTH
               v == p[2] * FONT_HEIGHT
    <3>1. u \in Nat /\ v \in Nat /\ width \in Nat /\ height \in Nat
      BY <2>2, ScreenSizes
    <3>2. u < width /\ v < height
      BY <2>2
    <3> HIDE DEF u, v
    <3>3. ~(u >= width) /\ ~(v >= height)
      BY <3>1, <3>2
    <3> QED
      BY <3>3 DEF PastRight, PastBottom, u, v
  <2> QED
    BY <1>1, <2>1, <2>2, <2>3, CursorNext DEF Steps
<1> QED
  BY <1>2, <1>3, <1>4, <1>5, <1>6

(* _putchar, newline and scroll, a step at a time.                         *)
LEMMA StepPreserves ==
    ASSUME ConsoleInv, WriteStep
    PROVE  ConsoleInv'
<1> USE Facts DEF Screen, Registers
<1>1. CASE Draw
  <2>1. /\ pc = "draw" /\ pc' \in {"wrap", "advance"} /\ buffer' \in {buffer, Drawn(buffer, r_x, r_y, cur)}
        /\ UNCHANGED <<x_pos, y_pos, setting, cur, through, r_x, r_y>>
    BY <1>1 DEF Draw
  <2>2. IsScreen(buffer')
    BY <2>1, ScreensStay
  <2>3. ~PastRight(x_pos) /\ ~PastBottom(y_pos)
    BY <2>1 DEF CursorInv
  <2> QED
    BY <2>1, <2>2, <2>3, CursorNext DEF Steps
<1>2. CASE Advance
  <2>1. /\ pc = "advance" /\ pc' = "wrap" /\ x_pos' = r_x + 1
        /\ UNCHANGED <<buffer, y_pos, setting, cur, through, r_x, r_y>>
    BY <1>2 DEF Advance
  <2>2. ~PastBottom(y_pos) /\ x_pos' \in Nat
    BY <2>1 DEF CursorInv
  <2> QED
    BY <2>1, <2>2, CursorNext DEF Steps
<1>3. CASE Wrap
  <2>1. /\ pc = "wrap" /\ UNCHANGED <<buffer, x_pos, y_pos, setting, cur, through, r_x, r_y>>
        /\ pc' = IF PastRight(x_pos) THEN "newline" ELSE After
    BY <1>3 DEF Wrap
  <2>2. ~PastBottom(y_pos)
    BY <2>1 DEF CursorInv
  <2> QED
    BY <2>1, <2>2, CursorNext DEF Steps
<1>4. CASE LoadRow
  <2>1. /\ pc = "newline" /\ pc' = "column" /\ r_y' = y_pos
        /\ UNCHANGED <<buffer, x_pos, y_pos, setting, cur, through, r_x>>
    BY <1>4 DEF LoadRow
  <2>2. ~PastBottom(y_pos)
    BY <2>1 DEF CursorInv
  <2> QED
    BY <2>1, <2>2, CursorNext DEF Steps
<1>5. CASE StoreColumn
  <2>1. /\ pc = "column" /\ pc' = "row" /\ x_pos' = 0
        /\ UNCHANGED <<buffer, y_pos, setting, cur, through, r_x, r_y>>
    BY <1>5 DEF StoreColumn
  <2>2. ~PastBottom(y_pos) /\ ~PastBottom(r_y)
    BY <2>1 DEF CursorInv
  <2> QED
    BY <2>1, <2>2, CursorNext DEF Steps
<1>6. CASE StoreRow
  <2>1. /\ pc = "row" /\ y_pos' = r_y + 1
        /\ pc' = (IF PastBottom(r_y + 1) THEN "scroll" ELSE After)
        /\ UNCHANGED <<buffer, x_pos, setting, cur, through, r_x, r_y>>
    BY <1>6 DEF StoreRow
  <2>2. ~PastRight(x_pos) /\ ~PastBottom(r_y)
    BY <2>1 DEF CursorInv
  <2>3. y_pos' \in Nat /\ y_pos' - 1 = r_y
    BY <2>1
  <2>4. ~PastBottom(y_pos' - 1)
    BY <2>2, <2>3
  <2>5. pc' \in {"scroll", "check", "idle"} /\ (pc' # "scroll" => ~PastBottom(y_pos'))
    BY <2>1
  <2> QED
    BY <2>1, <2>2, <2>3, <2>4, <2>5, CursorNext DEF Steps
<1>7. CASE Scroll
  <2>1. /\ pc = "scroll" /\ pc' = "unscroll" /\ buffer' = Scrolled(buffer) /\ r_y' = y_pos
        /\ UNCHANGED <<x_pos, y_pos, setting, cur, through, r_x>>
    BY <1>7 DEF Scroll
  <2>2. IsScreen(buffer')
    BY <2>1, ScreensStay
  <2>3. ~PastRight(x_pos) /\ (y_pos > 0 => ~PastBottom(y_pos - 1))
    BY <2>1 DEF CursorInv
  <2>4. ~(y_pos > 0) => ~PastBottom(y_pos)
    <3>1. ~(y_pos > 0) => y_pos = 0
      OBVIOUS
    <3> QED
      BY <3>1
  <2> QED
    BY <2>1, <2>2, <2>3, <2>4, CursorNext DEF Steps
<1>8. CASE Unscroll
  <2>1. /\ pc = "unscroll" /\ pc' \in {"check", "idle"}
        /\ y_pos' = IF r_y > 0 THEN r_y - 1 ELSE y_pos
        /\ UNCHANGED <<buffer, x_pos, setting, cur, through, r_x, r_y>>
    BY <1>8 DEF Unscroll
  <2>2. /\ ~PastRight(x_pos)
        /\ IF r_y > 0 THEN ~PastBottom(r_y - 1) ELSE ~PastBottom(y_pos)
    BY <2>1 DEF CursorInv
  <2>3. y_pos' \in Nat
    BY <2>1
  <2>4. ~PastBottom(y_pos')
    BY <2>1, <2>2
  <2> QED
    BY <2>1, <2>2, <2>3, <2>4, CursorNext DEF Steps
<1>9. CASE Check
  <2>1. /\ pc = "check" /\ UNCHANGED <<setting, buffer, x_pos, y_pos, cur, r_x, r_y>>
        /\ ~PastBottom(y_pos) => pc' = "idle" /\ through' = through
    BY <1>9 DEF Check
  <2>2. ~PastRight(x_pos) /\ ~PastBottom(y_pos)
    BY <2>1 DEF CursorInv
  <2> QED
    BY <2>1, <2>2, CursorNext DEF Steps
<1> QED
  BY <1>1, <1>2, <1>3, <1>4, <1>5, <1>6, <1>7, <1>8, <1>9 DEF WriteStep

(* keyboard_handler in the middle of any of them.                          *)
LEMMA HandlerKeepsCursor ==
    ASSUME ConsoleInv, HandlerPutchar
    PROVE  ConsoleInv'
<1> USE Facts
<1> DEFINE s == Below(Wrapped(Glyphed([buf |-> buffer, x |-> x_pos, y |-> y_pos], BACKSPACE)))
<1>1. /\ buffer' = s.buf /\ x_pos' = s.x /\ y_pos' = s.y
      /\ UNCHANGED <<pc, setting, cur, through, r_x, r_y>>
  BY DEF HandlerPutchar, Registers
<1>2. /\ IsScreen(s.buf) /\ s.x \in Nat /\ s.y \in Nat /\ ~PastRight(s.x)
      /\ ~PastBottom(y_pos) => ~PastBottom(s.y)
      /\ ~PastRight(x_pos) /\ (y_pos > 0 => ~PastBottom(y_pos - 1))
           => (s.y > 0 => ~PastBottom(s.y - 1))
  BY HandlerCursor
<1> HIDE DEF s
<1>3. /\ IsScreen(buffer') /\ x_pos' \in Nat /\ y_pos' \in Nat /\ ~PastRight(x_pos')
  BY <1>1, <1>2
<1>4. pc \notin {"scroll", "unscroll"} => ~PastBottom(y_pos')
  BY <1>1, <1>2 DEF CursorInv
<1>5. pc \in {"scroll", "unscroll"} /\ y_pos' > 0 => ~PastBottom(y_pos' - 1)
  BY <1>1, <1>2 DEF CursorInv
<1>6. pc = "unscroll" => IF r_y > 0 THEN ~PastBottom(r_y - 1) ELSE ~PastBottom(y_pos')
  BY <1>1, <1>2 DEF CursorInv
<1>7. pc \in {"column", "row"} => ~PastBottom(r_y)
  BY DEF CursorInv
<1> QED
  BY <1>1, <1>3, <1>4, <1>5, <1>6, <1>7, CursorNext

LEMMA ConsoleStep == ConsoleInv /\ [Next]_vars => ConsoleInv'
<1> SUFFICES ASSUME ConsoleInv, [Next]_vars PROVE ConsoleInv'
  OBVIOUS
<1>1. CASE Next
  BY <1>1, BeginPreserves, StepPreserves, HandlerKeepsCursor DEF Next
<1>2. CASE UNCHANGED vars
  BY <1>2, Facts, CursorNext DEF vars, CursorInv
<1> QED
  BY <1>1, <1>2

(* Types, for a screen and a font of any size.                             *)
THEOREM ConsoleTypes == Spec => []TypeOK
<1>1. ConsoleInv => TypeOK
  BY DEF ConsoleInv
<1> QED
  BY <1>1, ConsoleInit, ConsoleStep, PTL DEF Spec

(* Between two characters the cursor is on the screen, wherever            *)
(* keyboard_handler interrupted the one before (putchar, newline, scroll), *)
(* for a screen and a font of any size.                                    *)
THEOREM CursorStaysOnScreen == Spec => []CursorOnScreen
<1>1. ConsoleInv => CursorOnScreen
  <2> SUFFICES ASSUME ConsoleInv, pc = "idle"
               PROVE  x_pos * BASIC_WIDTH < width /\ y_pos * FONT_HEIGHT < height
    BY DEF CursorOnScreen
  <2>1. ~PastRight(x_pos) /\ ~PastBottom(y_pos) /\ setting \in Settings /\ x_pos \in Nat /\ y_pos \in Nat
    BY Facts DEF CursorInv
  <2> DEFINE u == x_pos * BASIC_WIDTH
             v == y_pos * FONT_HEIGHT
  <2>2. u \in Nat /\ v \in Nat /\ width \in Nat /\ height \in Nat
    BY <2>1, ScreenSizes
  <2>3. ~(u >= width) /\ ~(v >= height)
    BY <2>1 DEF PastRight, PastBottom
  <2> HIDE DEF u, v
  <2>4. u < width /\ v < height
    BY <2>2, <2>3
  <2> QED
    BY <2>4 DEF u, v
<1> QED
  BY <1>1, ConsoleInit, ConsoleStep, PTL DEF Spec

-----------------------------------------------------------------------------
(***************************************************************************)
(* Cells and pixels.                                                       *)
(***************************************************************************)
(* Multiples of F are F apart: what is less than F away from one of them   *)
(* is not less than F away from another.                                   *)
LEMMA Apart ==
    ASSUME NEW F \in Nat \ {0}, NEW a \in Nat, NEW b \in Nat, a < b
    PROVE  a * F + F <= b * F
<1> DEFINE d == b - a - 1
<1>1. d \in Nat /\ b = a + 1 + d
  OBVIOUS
<1> HIDE DEF d
<1>2. d * F \in Nat /\ a * F \in Nat
  BY <1>1
<1>3. b * F = a * F + F + d * F
  BY <1>1
<1> QED
  BY <1>2, <1>3

LEMMA Within ==
    ASSUME NEW F \in Nat \ {0}, NEW a \in Nat, NEW b \in Nat, NEW g \in 0 .. F - 1
    PROVE  a * F + g - b * F \in 0 .. F - 1 <=> a = b
<1> DEFINE p == a * F
           q == b * F
<1>1. p \in Nat /\ q \in Nat
  OBVIOUS
<1>2. a < b => p + F <= q
  BY Apart
<1>3. b < a => q + F <= p
  BY Apart
<1>4. a = b => p = q
  OBVIOUS
<1> HIDE DEF p, q
<1>5. p + g - q \in 0 .. F - 1 <=> a = b
  BY <1>1, <1>2, <1>3, <1>4
<1> QED
  BY <1>5 DEF p, q

LEMMA CellPixels ==
    ASSUME setting \in Settings, NEW r \in Nat, NEW c \in Nat, NEW g \in Cell(r, c)
    PROVE  /\ g[1] \in 0 .. FONT_HEIGHT - 1 /\ g[2] \in 0 .. BASIC_WIDTH - 1
           /\ r * FONT_HEIGHT + g[1] \in Lines /\ c * BASIC_WIDTH + g[2] \in Columns
<1> DEFINE u == r * FONT_HEIGHT
           v == c * BASIC_WIDTH
<1>1. /\ g[1] \in 0 .. FONT_HEIGHT - 1 /\ g[2] \in 0 .. BASIC_WIDTH - 1
      /\ u + g[1] < height /\ v + g[2] < width
  BY DEF Cell
<1>2. /\ width \in Nat /\ height \in Nat /\ FONT_HEIGHT \in Nat \ {0} /\ BASIC_WIDTH \in Nat \ {0}
  BY ScreenSizes
<1>3. u \in Nat /\ v \in Nat
  BY <1>2
<1> HIDE DEF u, v
<1>4. u + g[1] \in Lines /\ v + g[2] \in Columns
  BY <1>1, <1>2, <1>3 DEF Lines, Columns
<1> QED
  BY <1>1, <1>4 DEF u, v

(* A latin glyph is drawn in its cell and nowhere else.                    *)
LEMMA DrawnPixel ==
    ASSUME setting \in Settings, NEW buf, NEW x \in Nat, NEW y \in Nat, NEW ch, ch \notin WideChars,
           NEW r \in Nat, NEW c \in Nat, NEW g \in Cell(r, c)
    PROVE  Pixel(Drawn(buf, x, y, ch), r, c, g)
             = IF r = y /\ c = x THEN Ink(ch, g[1], g[2]) ELSE Pixel(buf, r, c, g)
<1> DEFINE py == r * FONT_HEIGHT + g[1]
           px == c * BASIC_WIDTH + g[2]
           gy == py - y * FONT_HEIGHT
           gx == px - x * BASIC_WIDTH
<1>1. /\ g[1] \in 0 .. FONT_HEIGHT - 1 /\ g[2] \in 0 .. BASIC_WIDTH - 1
      /\ py \in Lines /\ px \in Columns
  BY CellPixels
<1>2. FONT_HEIGHT \in Nat \ {0} /\ BASIC_WIDTH \in Nat \ {0}
  BY ScreenSizes
<1>3. gy \in 0 .. FONT_HEIGHT - 1 <=> r = y
  BY <1>1, <1>2, Within
<1>4. gx \in 0 .. BASIC_WIDTH - 1 <=> c = x
  BY <1>1, <1>2, Within
<1>5. r = y => gy = g[1]
  BY <1>1, <1>2
<1>6. c = x => gx = g[2]
  BY <1>1, <1>2
<1>7. GlyphWidth(ch) = BASIC_WIDTH
  BY DEF GlyphWidth
<1>8. Drawn(buf, x, y, ch)[py][px]
        = IF gy \in 0 .. FONT_HEIGHT - 1 /\ gx \in 0 .. BASIC_WIDTH - 1
          THEN Ink(ch, gy, gx) ELSE buf[py][px]
  <2> HIDE DEF py, px
  <2> QED
    BY <1>1, <1>7 DEF Drawn
<1> HIDE DEF gy, gx
<1>9. Drawn(buf, x, y, ch)[py][px] = IF r = y /\ c = x THEN Ink(ch, g[1], g[2]) ELSE buf[py][px]
  BY <1>3, <1>4, <1>5, <1>6, <1>8
<1> QED
  BY <1>9 DEF Pixel

(* Scrolling moves the pixels of a cell to the cell above.                 *)
LEMMA ScrolledPixel ==
    ASSUME setting \in Settings, NEW buf, NEW r \in Nat, NEW c \in Nat, NEW g \in Cell(r, c)
    PROVE  Pixel(Scrolled(buf), r, c, g)
             = IF g \in Cell(r + 1, c) THEN Pixel(buf, r + 1, c, g)
               ELSE IF height >= FONT_HEIGHT THEN Blank ELSE Pixel(buf, r, c, g)
<1> DEFINE F  == FONT_HEIGHT
           py == r * F + g[1]
           px == c * BASIC_WIDTH + g[2]
           qy == (r + 1) * F + g[1]
<1>1. /\ g[1] \in 0 .. FONT_HEIGHT - 1 /\ g[2] \in 0 .. BASIC_WIDTH - 1
      /\ py \in Lines /\ px \in Columns
  BY CellPixels
<1>2. F \in Nat \ {0} /\ BASIC_WIDTH \in Nat \ {0}
  BY ScreenSizes
<1>3. py + F = qy
  BY <1>1, <1>2
<1>4. g \in Cell(r + 1, c) <=> qy < height
  BY DEF Cell
<1>5. Scrolled(buf)[py] = IF py + F < height THEN buf[py + F]
                          ELSE IF height >= F THEN Cleared[py] ELSE buf[py]
  <2> HIDE DEF py
  <2> QED
    BY <1>1 DEF Scrolled
<1>6. Cleared[py][px] = Blank
  <2> HIDE DEF py, px
  <2> QED
    BY <1>1 DEF Cleared
<1>7. /\ Pixel(Scrolled(buf), r, c, g) = Scrolled(buf)[py][px]
      /\ Pixel(buf, r + 1, c, g) = buf[qy][px] /\ Pixel(buf, r, c, g) = buf[py][px]
  BY DEF Pixel
<1> HIDE DEF F, py, px, qy
<1> QED
  BY <1>3, <1>4, <1>5, <1>6, <1>7 DEF F

(* The rows and columns of cells.                                          *)
LEMMA CellsAre ==
    ASSUME setting \in Settings
    PROVE  /\ \A r : r \in CellRows <=> r \in Nat /\ ~PastBottom(r)
           /\ \A c : c \in CellCols <=> c \in Nat /\ ~PastRight(c)
<1>1. /\ width \in Nat \ {0} /\ height \in Nat \ {0} /\ BASIC_WIDTH \in Nat \ {0}
      /\ FONT_HEIGHT \in Nat \ {0}
  BY ScreenSizes
<1>2. ASSUME NEW n, NEW F \in Nat \ {0}, NEW H \in Nat \ {0}
      PROVE  n \in 0 .. H - 1 /\ n * F < H <=> n \in Nat /\ ~(n * F >= H)
  <2>1. ASSUME n \in Nat
        PROVE  n * F \in Nat /\ n <= n * F
    <3>1. F - 1 \in Nat /\ n * F = n + n * (F - 1) /\ n * (F - 1) \in Nat
      BY <2>1
    <3> QED
      BY <2>1, <3>1
  <2> QED
    BY <2>1
<1>3. \A r : r \in CellRows <=> r \in Nat /\ ~PastBottom(r)
  BY <1>1, <1>2 DEF CellRows, Lines, PastBottom
<1>4. \A c : c \in CellCols <=> c \in Nat /\ ~PastRight(c)
  BY <1>1, <1>2 DEF CellCols, Columns, PastRight
<1> QED
  BY <1>3, <1>4

-----------------------------------------------------------------------------
(***************************************************************************)
(* Glyphs stay whole.                                                      *)
(***************************************************************************)
(* Every cell of buf shows a glyph, from its top down to one of its rows   *)
(* in depths.                                                              *)
Tidy(buf, depths) ==
    \A r \in CellRows, c \in CellCols : \E ch \in Written, k \in depths : Shows(buf, r, c, ch, k)

LEMMA ClearedTidy ==
    ASSUME setting \in Settings, Narrow(setting), NEW depths, 0 \in depths
    PROVE  Tidy(Cleared, depths)
<1> SUFFICES ASSUME NEW r \in CellRows, NEW c \in CellCols
             PROVE  \E ch \in Written, k \in depths : Shows(Cleared, r, c, ch, k)
  BY DEF Tidy
<1>1. PICK ch \in Written : TRUE
  BY DEF Narrow, Written
<1>2. r \in Nat /\ c \in Nat
  BY CellsAre
<1>3. ASSUME NEW g \in Cell(r, c)
      PROVE  Pixel(Cleared, r, c, g) = Blank /\ ~(g[1] < 0)
  BY <1>2, CellPixels DEF Pixel, Cleared
<1>4. Shows(Cleared, r, c, ch, 0)
  BY <1>3 DEF Shows
<1> QED
  BY <1>4

LEMMA DrawnTidy ==
    ASSUME setting \in Settings, Narrow(setting), NEW buf, NEW depths, FONT_HEIGHT \in depths,
           Tidy(buf, depths), NEW x \in Nat, NEW y \in Nat, NEW ch \in Written
    PROVE  Tidy(Drawn(buf, x, y, ch), depths)
<1> SUFFICES ASSUME NEW r \in CellRows, NEW c \in CellCols
             PROVE  \E dh \in Written, k \in depths : Shows(Drawn(buf, x, y, ch), r, c, dh, k)
  BY DEF Tidy
<1>1. r \in Nat /\ c \in Nat /\ ch \notin WideChars /\ FONT_HEIGHT \in Nat
  BY CellsAre, ScreenSizes DEF Narrow, Written
<1>2. CASE r = y /\ c = x
  <2>1. ASSUME NEW g \in Cell(r, c)
        PROVE  /\ Pixel(Drawn(buf, x, y, ch), r, c, g) = Ink(ch, g[1], g[2])
               /\ g[1] < FONT_HEIGHT
    <3>1. g[1] \in 0 .. FONT_HEIGHT - 1
      BY <1>1, CellPixels
    <3> QED
      BY <1>1, <1>2, <3>1, DrawnPixel
  <2>2. Shows(Drawn(buf, x, y, ch), r, c, ch, FONT_HEIGHT)
    BY <2>1 DEF Shows
  <2> QED
    BY <2>2
<1>3. CASE ~(r = y /\ c = x)
  <2>1. PICK dh \in Written, k \in depths : Shows(buf, r, c, dh, k)
    BY DEF Tidy
  <2>2. \A g \in Cell(r, c) : Pixel(Drawn(buf, x, y, ch), r, c, g) = Pixel(buf, r, c, g)
    BY <1>1, <1>3, DrawnPixel
  <2>3. Shows(Drawn(buf, x, y, ch), r, c, dh, k)
    BY <2>1, <2>2 DEF Shows
  <2> QED
    BY <2>3
<1> QED
  BY <1>2, <1>3

(* A cell takes over what the cell below shows: as many rows of it as it   *)
(* has on the screen.                                                      *)
LEMMA ScrolledTidy ==
    ASSUME setting \in Settings, Narrow(setting), NEW buf, Tidy(buf, 0 .. FONT_HEIGHT)
    PROVE  Tidy(Scrolled(buf), 0 .. FONT_HEIGHT)
<1> SUFFICES ASSUME NEW r \in CellRows, NEW c \in CellCols
             PROVE  \E ch \in Written, k \in 0 .. FONT_HEIGHT : Shows(Scrolled(buf), r, c, ch, k)
  BY DEF Tidy
<1>1. /\ r \in Nat /\ c \in Nat /\ r + 1 \in Nat
      /\ FONT_HEIGHT \in Nat \ {0} /\ height \in Nat \ {0}
  BY CellsAre, ScreenSizes
<1> DEFINE q == (r + 1) * FONT_HEIGHT
<1>2. q \in Nat
  BY <1>1
<1>3. \A g \in Cell(r, c) : g[1] \in 0 .. FONT_HEIGHT - 1
  BY <1>1, CellPixels
<1>4. \A g \in Cell(r, c) : g \in Cell(r + 1, c) <=> q + g[1] < height
  BY DEF Cell
<1>5. \A g \in Cell(r, c) :
        Pixel(Scrolled(buf), r, c, g)
          = IF g \in Cell(r + 1, c) THEN Pixel(buf, r + 1, c, g)
            ELSE IF height >= FONT_HEIGHT THEN Blank ELSE Pixel(buf, r, c, g)
  BY <1>1, ScrolledPixel
<1>6. CASE height < FONT_HEIGHT
  <2>1. PICK ch \in Written, k \in 0 .. FONT_HEIGHT : Shows(buf, r, c, ch, k)
    BY DEF Tidy
  <2>2. q >= FONT_HEIGHT
    <3>1. q = r * FONT_HEIGHT + FONT_HEIGHT /\ r * FONT_HEIGHT \in Nat
      BY <1>1
    <3> QED
      BY <1>1, <3>1
  <2> HIDE DEF q
  <2>3. \A g \in Cell(r, c) : g \notin Cell(r + 1, c)
    BY <1>1, <1>2, <1>3, <1>4, <1>6, <2>2
  <2>4. ~(height >= FONT_HEIGHT)
    BY <1>1, <1>6
  <2>5. Shows(Scrolled(buf), r, c, ch, k)
    BY <1>5, <2>1, <2>3, <2>4 DEF Shows
  <2> QED
    BY <2>5
<1>7. CASE ~(height < FONT_HEIGHT) /\ r + 1 \in CellRows
  <2>1. PICK ch \in Written, k \in 0 .. FONT_HEIGHT : Shows(buf, r + 1, c, ch, k)
    BY <1>7 DEF Tidy
  <2> DEFINE m == IF k <= height - q THEN k ELSE height - q
  <2>2. q < height
    <3>1. ~PastBottom(r + 1)
      BY <1>7, CellsAre
    <3> HIDE DEF q
    <3> QED
      BY <1>1, <1>2, <3>1 DEF PastBottom, q
  <2> HIDE DEF q
  <2>3. m \in 0 .. FONT_HEIGHT /\ \A n \in 0 .. FONT_HEIGHT - 1 : n < m <=> n < k /\ q + n < height
    BY <1>1, <1>2, <2>2
  <2> HIDE DEF m
  <2>4. height >= FONT_HEIGHT
    BY <1>1, <1>7
  <2>5. ASSUME NEW g \in Cell(r, c)
        PROVE  Pixel(Scrolled(buf), r, c, g) = IF g[1] < m THEN Ink(ch, g[1], g[2]) ELSE Blank
    <3>1. CASE g \in Cell(r + 1, c)
      <4>1. Pixel(buf, r + 1, c, g) = IF g[1] < k THEN Ink(ch, g[1], g[2]) ELSE Blank
        BY <2>1, <3>1 DEF Shows
      <4>2. g[1] < m <=> g[1] < k
        BY <1>3, <1>4, <2>3, <3>1
      <4> QED
        BY <1>5, <3>1, <4>1, <4>2
    <3>2. CASE g \notin Cell(r + 1, c)
      <4>1. ~(g[1] < m)
        BY <1>3, <1>4, <2>3, <3>2
      <4> QED
        BY <1>5, <2>4, <3>2, <4>1
    <3> QED
      BY <3>1, <3>2
  <2>6. Shows(Scrolled(buf), r, c, ch, m)
    BY <2>5 DEF Shows
  <2> QED
    BY <2>3, <2>6
<1>8. CASE ~(height < FONT_HEIGHT) /\ r + 1 \notin CellRows
  <2>1. PICK ch \in Written : TRUE
    BY DEF Narrow, Written
  <2>2. q >= height
    <3>1. PastBottom(r + 1)
      BY <1>1, <1>8, CellsAre
    <3> QED
      BY <3>1 DEF PastBottom
  <2> HIDE DEF q
  <2>3. \A g \in Cell(r, c) : g \notin Cell(r + 1, c) /\ ~(g[1] < 0)
    BY <1>1, <1>2, <1>3, <1>4, <2>2
  <2>4. height >= FONT_HEIGHT
    BY <1>1, <1>8
  <2>5. Shows(Scrolled(buf), r, c, ch, 0)
    BY <1>5, <2>3, <2>4 DEF Shows
  <2>6. 0 \in 0 .. FONT_HEIGHT
    BY <1>1
  <2> QED
    BY <2>5, <2>6
<1> QED
  BY <1>6, <1>7, <1>8

(* What the program is writing has a glyph.                                *)
WritingInv == pc \in {"draw", "advance"} => cur \in Written
TidyInv    == ~setting.preemptible /\ Narrow(setting) => WritingInv /\ Tidy(buffer, 0 .. FONT_HEIGHT)

LEMMA TidyInit == Init => TidyInv
<1> SUFFICES ASSUME Init, Narrow(setting) PROVE WritingInv /\ Tidy(buffer, 0 .. FONT_HEIGHT)
  BY DEF TidyInv
<1>1. setting \in Settings /\ buffer = Cleared /\ pc = "idle"
  BY DEF Init
<1>2. 0 \in 0 .. FONT_HEIGHT
  BY <1>1, ScreenSizes
<1> QED
  BY <1>1, <1>2, ClearedTidy DEF WritingInv

(* The only steps that touch the buffer, when nobody interrupts.           *)
LEMMA BufferSteps ==
    ASSUME ConsoleInv, [Next]_vars, ~setting.preemptible
    PROVE  /\ setting' = setting
           /\ \/ buffer' = buffer
              \/ pc = "draw" /\ buffer' = Drawn(buffer, r_x, r_y, cur) /\ UNCHANGED cur
              \/ pc = "scroll" /\ buffer' = Scrolled(buffer)
              \/ pc = "idle" /\ buffer' = Cleared
           /\ \/ pc' \notin {"draw", "advance"}
              \/ pc' = pc /\ UNCHANGED cur
              \/ pc = "idle" /\ pc' = "draw" /\ cur' \in Written
              \/ pc = "draw" /\ pc' = "advance" /\ UNCHANGED cur
<1> USE DEF Screen, Registers
<1>1. CASE \E how \in {"write", "putchar"} :
             BeginNewline(how) \/ \E c \in Written : BeginGlyph(how, c)
  BY <1>1 DEF BeginNewline, BeginGlyph
<1>2. CASE PutReturn \/ Clear \/ \E p \in setting.cursors : SetCursor(p[1], p[2])
  BY <1>2 DEF PutReturn, Clear, SetCursor
<1>3. CASE Draw
  BY <1>3 DEF Draw
<1>4. CASE Advance \/ Wrap \/ LoadRow \/ StoreColumn \/ StoreRow
  BY <1>4 DEF Advance, Wrap, LoadRow, StoreColumn, StoreRow, After
<1>5. CASE Scroll \/ Unscroll \/ Check
  BY <1>5 DEF Scroll, Unscroll, Check, After
<1>6. CASE UNCHANGED vars
  BY <1>6 DEF vars
<1>7. ~HandlerPutchar
  BY DEF HandlerPutchar
<1> QED
  BY <1>1, <1>2, <1>3, <1>4, <1>5, <1>6, <1>7 DEF Next, WriteStep

LEMMA TidyStep == ConsoleInv /\ TidyInv /\ [Next]_vars => TidyInv'
<1> SUFFICES ASSUME ConsoleInv, TidyInv, [Next]_vars,
                    ~setting'.preemptible, Narrow(setting)'
             PROVE  WritingInv' /\ Tidy(buffer, 0 .. FONT_HEIGHT)'
  BY DEF TidyInv
<1>1. /\ setting \in Settings /\ r_x \in Nat /\ r_y \in Nat /\ pc \in Steps
  BY Facts
<1>2. setting' = setting /\ ~setting.preemptible
  <2>1. setting' = setting
    BY DEF Next, BeginNewline, BeginGlyph, PutReturn, WriteStep, Draw, Advance, Wrap, LoadRow,
           StoreColumn, StoreRow, Scroll, Unscroll, Check, Clear, SetCursor, HandlerPutchar,
           Registers, vars
  <2> QED
    BY <2>1
<1>3. Narrow(setting) /\ WritingInv /\ Tidy(buffer, 0 .. FONT_HEIGHT)
  BY <1>2 DEF Narrow, TidyInv
<1>4. /\ FONT_HEIGHT \in 0 .. FONT_HEIGHT /\ 0 \in 0 .. FONT_HEIGHT
  BY <1>1, ScreenSizes
<1>5. Tidy(buffer', 0 .. FONT_HEIGHT)
  <2>1. CASE buffer' = buffer
    BY <1>3, <2>1
  <2>2. CASE pc = "draw" /\ buffer' = Drawn(buffer, r_x, r_y, cur)
    <3>1. cur \in Written
      BY <1>3, <2>2 DEF WritingInv
    <3>2. Tidy(Drawn(buffer, r_x, r_y, cur), 0 .. FONT_HEIGHT)
      BY <1>1, <1>3, <1>4, <3>1, DrawnTidy
    <3> QED
      BY <2>2, <3>2
  <2>3. CASE buffer' = Scrolled(buffer)
    BY <1>1, <1>3, <2>3, ScrolledTidy
  <2>4. CASE buffer' = Cleared
    BY <1>1, <1>3, <1>4, <2>4, ClearedTidy
  <2> QED
    BY <1>2, <2>1, <2>2, <2>3, <2>4, BufferSteps
<1>6. /\ CellRows' = CellRows /\ CellCols' = CellCols /\ Written' = Written
      /\ \A r, c : Cell(r, c)' = Cell(r, c)
  BY <1>2 DEF CellRows, CellCols, Written, Lines, Columns, Cell, width, height
<1>7. Tidy(buffer, 0 .. FONT_HEIGHT)'
  BY <1>5, <1>6 DEF Tidy, Shows, Pixel
<1>8. WritingInv'
  BY <1>2, <1>3, <1>6, BufferSteps DEF WritingInv
<1> QED
  BY <1>7, <1>8

(* While nobody interrupts a program of latin characters, each cell is     *)
(* blank or shows one glyph from its top (_putchar, scroll, clear), for a  *)
(* screen and a font of any size, with its cursor set anywhere on it.      *)
THEOREM GlyphsStayWhole == Spec => []GlyphsWhole
<1>1. TidyInv => GlyphsWhole
  BY DEF TidyInv, Tidy, GlyphsWhole
<1> QED
  BY <1>1, ConsoleInit, ConsoleStep, TidyInit, TidyStep, PTL DEF Spec

-----------------------------------------------------------------------------
(***************************************************************************)
(* The console implements Terminal, on a screen of whole lines.            *)
(***************************************************************************)
LEMMA Quotient ==
    ASSUME NEW F \in Nat \ {0}, NEW H \in Nat
    PROVE  /\ H \div F \in Nat /\ H % F \in 0 .. F - 1
           /\ H = (H \div F) * F + (H % F)
  OBVIOUS

(* Terminal's rows and columns are those of the cells.                     *)
Height == height \div FONT_HEIGHT
Width  == (width + BASIC_WIDTH - 1) \div BASIC_WIDTH

LEMMA GridSize ==
    ASSUME setting \in Settings, Whole(setting)
    PROVE  /\ Height \in Nat \ {0} /\ Width \in Nat \ {0} /\ height = Height * FONT_HEIGHT
           /\ \A y \in Nat : PastBottom(y) <=> y >= Height
           /\ \A x \in Nat : PastRight(x) <=> x >= Width
           /\ CellRows = 0 .. Height - 1 /\ CellCols = 0 .. Width - 1
<1> DEFINE W == width
           H == height
           B == BASIC_WIDTH
           F == FONT_HEIGHT
           R == H \div F
           C == (W + B - 1) \div B
<1>1. /\ W \in Nat \ {0} /\ H \in Nat \ {0} /\ B \in Nat \ {0} /\ F \in Nat \ {0}
      /\ H % F = 0
  BY ScreenSizes DEF Whole, height
<1>2. Height = R /\ Width = C
  BY DEF Height, Width
<1> HIDE DEF W, H, B, F
<1>3. R \in Nat /\ H = R * F
  BY <1>1, Quotient
<1>4. C \in Nat /\ (W + B - 1) % B \in 0 .. B - 1 /\ W + B - 1 = C * B + ((W + B - 1) % B)
  <2> DEFINE h == W + B - 1
  <2>1. h \in Nat
    BY <1>1
  <2> HIDE DEF h
  <2>2. h \div B \in Nat /\ h % B \in 0 .. B - 1 /\ h = (h \div B) * B + (h % B)
    BY <1>1, <2>1, Quotient
  <2> QED
    BY <2>2 DEF h
<1> HIDE DEF R, C
<1>5. ASSUME NEW y \in Nat
      PROVE  y * F >= H <=> y >= R
  <2>1. y < R => y * F + F <= R * F
    BY <1>1, <1>3, Apart
  <2>2. R < y => R * F + F <= y * F
    BY <1>1, <1>3, Apart
  <2> DEFINE u == y * F
             v == R * F
  <2>3. u \in Nat /\ v \in Nat /\ (y = R => u = v)
    BY <1>1, <1>3
  <2> HIDE DEF u, v
  <2>4. u >= H <=> y >= R
    BY <1>1, <1>3, <2>1, <2>2, <2>3 DEF u, v
  <2> QED
    BY <2>4 DEF u
<1>6. ASSUME NEW x \in Nat
      PROVE  x * B >= W <=> x >= C
  <2> DEFINE u == x * B
             v == C * B
             m == (W + B - 1) % B
  <2>1. x < C => u + B <= v
    BY <1>1, <1>4, Apart
  <2>2. C < x => v + B <= u
    BY <1>1, <1>4, Apart
  <2>3. u \in Nat /\ v \in Nat /\ (x = C => u = v)
    BY <1>1, <1>4
  <2>4. m \in 0 .. B - 1 /\ W + B - 1 = v + m
    BY <1>4
  <2> HIDE DEF u, v, m
  <2>5. u >= W <=> x >= C
    BY <1>1, <1>4, <2>1, <2>2, <2>3, <2>4
  <2> QED
    BY <2>5 DEF u
<1>7. R # 0 /\ C # 0
  <2>1. ~(0 * F >= H) /\ ~(0 * B >= W)
    BY <1>1
  <2> QED
    BY <1>3, <1>4, <1>5, <1>6, <2>1
<1>8. /\ \A y \in Nat : PastBottom(y) <=> y >= R
      /\ \A x \in Nat : PastRight(x) <=> x >= C
  BY <1>5, <1>6 DEF PastBottom, PastRight, W, H, B, F
<1>9. CellRows = 0 .. R - 1 /\ CellCols = 0 .. C - 1
  <2>1. \A r : r \in CellRows <=> r \in 0 .. R - 1
    BY <1>3, <1>8, CellsAre
  <2>2. \A c : c \in CellCols <=> c \in 0 .. C - 1
    BY <1>4, <1>8, CellsAre
  <2> QED
    BY <2>1, <2>2
<1> QED
  BY <1>2, <1>3, <1>4, <1>7, <1>8, <1>9 DEF H, F

(* A cell that shows a whole glyph shows its character and no other.       *)
LEMMA ShownIs ==
    ASSUME setting \in Settings, Narrow(setting), NEW buf, NEW r \in CellRows, NEW c \in CellCols,
           NEW ch \in Written, NEW k \in {0, FONT_HEIGHT}, Shows(buf, r, c, ch, k)
    PROVE  Shown(buf, r, c) = IF k = 0 THEN NoChar ELSE ch
<1>1. /\ r \in Nat /\ c \in Nat /\ ~PastBottom(r) /\ ~PastRight(c)
      /\ FONT_HEIGHT \in Nat \ {0} /\ BASIC_WIDTH \in Nat \ {0} /\ width \in Nat /\ height \in Nat
  BY CellsAre, ScreenSizes
<1>2. Written \subseteq Nat /\ \A dh \in Written : GlyphWidth(dh) = BASIC_WIDTH
  BY SizeAssumption DEF Narrow, Written, GlyphWidth
<1>3. \A g \in Cell(r, c) : g[1] \in 0 .. FONT_HEIGHT - 1
  BY <1>1, CellPixels
<1>4. CASE k = 0
  <2>1. \A g \in Cell(r, c) : Pixel(buf, r, c, g) = Blank
    BY <1>1, <1>3, <1>4 DEF Shows
  <2> QED
    BY <1>4, <2>1 DEF Shown
<1>5. CASE k # 0
  <2> DEFINE o == <<0, 0>>
             S == {dh \in Written : Shows(buf, r, c, dh, FONT_HEIGHT)}
  <2>1. o \in Cell(r, c)
    <3> DEFINE u == r * FONT_HEIGHT
               v == c * BASIC_WIDTH
    <3>1. u \in Nat /\ v \in Nat /\ ~(u >= height) /\ ~(v >= width)
      BY <1>1 DEF PastBottom, PastRight
    <3> HIDE DEF u, v
    <3>2. u + 0 < height /\ v + 0 < width
      BY <1>1, <3>1
    <3>3. o \in (0 .. FONT_HEIGHT - 1) \X (0 .. BASIC_WIDTH - 1) /\ o[1] = 0 /\ o[2] = 0
      BY <1>1
    <3> QED
      BY <3>2, <3>3 DEF Cell, u, v
  <2>2. \A dh \in S : Pixel(buf, r, c, o) = Ink(dh, 0, 0)
    BY <1>1, <2>1 DEF Shows
  <2>3. \A dh \in Written : Ink(dh, 0, 0) # Blank /\ Ink(dh, 0, 0)[1] = dh * FONT_HEIGHT + 0
    BY DEF Ink, Blank
  <2>4. ch \in S
    BY <1>5
  <2>5. S = {ch}
    <3> SUFFICES ASSUME NEW dh \in S PROVE dh = ch
      BY <2>4
    <3>1. dh * FONT_HEIGHT + 0 = ch * FONT_HEIGHT + 0
      <4> HIDE DEF S
      <4>1. dh \in Written
        BY DEF S
      <4> QED
        BY <2>2, <2>3, <2>4, <4>1
    <3>2. dh \in Nat /\ ch \in Nat
      BY <1>2
    <3>3. (dh < ch => dh * FONT_HEIGHT + FONT_HEIGHT <= ch * FONT_HEIGHT)
          /\ (ch < dh => ch * FONT_HEIGHT + FONT_HEIGHT <= dh * FONT_HEIGHT)
      BY <1>1, <3>2, Apart
    <3> DEFINE u == dh * FONT_HEIGHT
               v == ch * FONT_HEIGHT
    <3>4. u \in Nat /\ v \in Nat
      BY <1>1, <3>2
    <3> HIDE DEF S, u, v
    <3> QED
      BY <1>1, <3>1, <3>2, <3>3, <3>4 DEF u, v
  <2>6. ~(\A g \in Cell(r, c) : Pixel(buf, r, c, g) = Blank)
    <3> HIDE DEF S
    <3> QED
      BY <2>1, <2>2, <2>3, <2>4
  <2>7. The(S) = ch
    <3> HIDE DEF S
    <3> QED
      BY <2>5 DEF The
  <2> QED
    BY <1>5, <2>6, <2>7 DEF Shown
<1> QED
  BY <1>4, <1>5

LEMMA ShownCleared ==
    ASSUME setting \in Settings, Narrow(setting), NEW r \in CellRows, NEW c \in CellCols
    PROVE  Shown(Cleared, r, c) = NoChar
<1>1. r \in Nat /\ c \in Nat
  BY CellsAre
<1>2. \A g \in Cell(r, c) : Pixel(Cleared, r, c, g) = Blank
  BY <1>1, CellPixels DEF Pixel, Cleared
<1> QED
  BY <1>2 DEF Shown

Depths == {0, FONT_HEIGHT}

LEMMA ShownDrawn ==
    ASSUME setting \in Settings, Narrow(setting), NEW buf, Tidy(buf, Depths),
           NEW x \in Nat, NEW y \in Nat, NEW ch \in Written, NEW r \in CellRows, NEW c \in CellCols
    PROVE  Shown(Drawn(buf, x, y, ch), r, c) = IF r = y /\ c = x THEN ch ELSE Shown(buf, r, c)
<1>1. r \in Nat /\ c \in Nat /\ ch \notin WideChars /\ FONT_HEIGHT \in Nat \ {0}
  BY CellsAre, ScreenSizes DEF Narrow, Written
<1> DEFINE d == Drawn(buf, x, y, ch)
<1>2. \A g \in Cell(r, c) : /\ g[1] \in 0 .. FONT_HEIGHT - 1
                            /\ Pixel(d, r, c, g) = IF r = y /\ c = x THEN Ink(ch, g[1], g[2])
                                                   ELSE Pixel(buf, r, c, g)
  BY <1>1, CellPixels, DrawnPixel
<1> HIDE DEF d
<1>3. CASE r = y /\ c = x
  <2>1. Shows(d, r, c, ch, FONT_HEIGHT)
    BY <1>1, <1>2, <1>3 DEF Shows
  <2>2. Shown(d, r, c) = IF FONT_HEIGHT = 0 THEN NoChar ELSE ch
    BY <2>1, ShownIs
  <2> QED
    BY <1>1, <1>3, <2>2 DEF d
<1>4. CASE ~(r = y /\ c = x)
  <2>1. PICK dh \in Written, k \in Depths : Shows(buf, r, c, dh, k)
    BY DEF Tidy
  <2>2. Shows(d, r, c, dh, k)
    BY <1>2, <1>4, <2>1 DEF Shows
  <2>3. /\ Shown(buf, r, c) = IF k = 0 THEN NoChar ELSE dh
        /\ Shown(d, r, c) = IF k = 0 THEN NoChar ELSE dh
    BY <2>1, <2>2, ShownIs DEF Depths
  <2> QED
    BY <1>4, <2>3 DEF d
<1> QED
  BY <1>3, <1>4

LEMMA ShownScrolled ==
    ASSUME setting \in Settings, Whole(setting), NEW buf, Tidy(buf, Depths),
           NEW r \in CellRows, NEW c \in CellCols
    PROVE  /\ \E ch \in Written, k \in Depths : Shows(Scrolled(buf), r, c, ch, k)
           /\ Shown(Scrolled(buf), r, c)
                = IF r + 1 \in CellRows THEN Shown(buf, r + 1, c) ELSE NoChar
<1>1. /\ Narrow(setting) /\ r \in Nat /\ c \in Nat /\ r + 1 \in Nat
      /\ FONT_HEIGHT \in Nat \ {0} /\ height \in Nat /\ Height \in Nat \ {0}
      /\ height = Height * FONT_HEIGHT
  BY CellsAre, ScreenSizes, GridSize DEF Whole
<1> DEFINE d == Scrolled(buf)
           q == (r + 1) * FONT_HEIGHT
<1>2. \A g \in Cell(r, c) : g[1] \in 0 .. FONT_HEIGHT - 1 /\ (g \in Cell(r + 1, c) <=> q + g[1] < height)
  BY <1>1, CellPixels DEF Cell
<1>3. \A g \in Cell(r, c) :
        Pixel(d, r, c, g) = IF g \in Cell(r + 1, c) THEN Pixel(buf, r + 1, c, g)
                            ELSE IF height >= FONT_HEIGHT THEN Blank ELSE Pixel(buf, r, c, g)
  BY <1>1, ScrolledPixel
<1>4. q \in Nat /\ height >= FONT_HEIGHT
  <2>1. 0 * FONT_HEIGHT + FONT_HEIGHT <= Height * FONT_HEIGHT
    BY <1>1, Apart
  <2> QED
    BY <1>1, <2>1
<1> HIDE DEF d
<1>5. CASE r + 1 \in CellRows
  <2>1. PICK ch \in Written, k \in Depths : Shows(buf, r + 1, c, ch, k)
    BY <1>5 DEF Tidy
  <2>2. q + FONT_HEIGHT <= height
    <3>1. r + 1 < Height
      BY <1>1, <1>5, GridSize
    <3> QED
      BY <1>1, <3>1, Apart
  <2> HIDE DEF q
  <2>3. \A g \in Cell(r, c) : g \in Cell(r + 1, c)
    BY <1>1, <1>2, <1>4, <2>2
  <2>4. Shows(d, r, c, ch, k)
    BY <1>3, <2>1, <2>3 DEF Shows
  <2>5. /\ Shown(buf, r + 1, c) = IF k = 0 THEN NoChar ELSE ch
        /\ Shown(d, r, c) = IF k = 0 THEN NoChar ELSE ch
    <3> DEFINE p == r + 1
    <3>1. p \in CellRows /\ Shows(buf, p, c, ch, k)
      BY <1>5, <2>1
    <3> HIDE DEF p
    <3>2. Shown(buf, p, c) = IF k = 0 THEN NoChar ELSE ch
      BY <1>1, <3>1, ShownIs DEF Depths
    <3>3. Shown(d, r, c) = IF k = 0 THEN NoChar ELSE ch
      BY <1>1, <2>4, ShownIs DEF Depths
    <3> QED
      BY <3>2, <3>3 DEF p
  <2> QED
    BY <1>5, <2>4, <2>5 DEF d
<1>6. CASE r + 1 \notin CellRows
  <2>1. PICK ch \in Written : TRUE
    BY <1>1 DEF Narrow, Written
  <2>2. q >= height
    <3>1. PastBottom(r + 1)
      BY <1>1, <1>6, CellsAre
    <3> QED
      BY <3>1 DEF PastBottom
  <2> HIDE DEF q
  <2>3. \A g \in Cell(r, c) : g \notin Cell(r + 1, c) /\ ~(g[1] < 0)
    BY <1>1, <1>2, <1>4, <2>2
  <2>4. Shows(d, r, c, ch, 0)
    BY <1>3, <1>4, <2>3 DEF Shows
  <2>5. 0 \in Depths
    BY DEF Depths
  <2>6. Shown(d, r, c) = NoChar
    BY <1>1, <2>4, ShownIs
  <2> QED
    BY <1>6, <2>4, <2>5, <2>6 DEF d
<1> QED
  BY <1>5, <1>6

(***************************************************************************)
(* The grid.                                                               *)
(***************************************************************************)
EmptyGrid == [r \in 0 .. Height - 1 |-> [c \in 0 .. Width - 1 |-> NoChar]]

LEMMA GridCleared ==
    ASSUME setting \in Settings, Whole(setting)
    PROVE  Grid(Cleared) = EmptyGrid
<1>1. CellRows = 0 .. Height - 1 /\ CellCols = 0 .. Width - 1 /\ Narrow(setting)
  BY GridSize DEF Whole
<1>2. \A r \in CellRows, c \in CellCols : Shown(Cleared, r, c) = NoChar
  BY <1>1, ShownCleared
<1> QED
  BY <1>1, <1>2 DEF Grid, EmptyGrid

LEMMA GridDrawn ==
    ASSUME setting \in Settings, Whole(setting), NEW buf, Tidy(buf, Depths),
           NEW x \in CellCols, NEW y \in CellRows, NEW ch \in Written
    PROVE  Grid(Drawn(buf, x, y, ch)) = [Grid(buf) EXCEPT ![y][x] = ch]
<1> DEFINE d == Drawn(buf, x, y, ch)
<1>1. Narrow(setting) /\ x \in Nat /\ y \in Nat
  BY CellsAre DEF Whole
<1>2. \A r \in CellRows, c \in CellCols :
        Shown(d, r, c) = IF r = y /\ c = x THEN ch ELSE Shown(buf, r, c)
  BY <1>1, ShownDrawn
<1> HIDE DEF d
<1>3. \A r \in CellRows : [c \in CellCols |-> Shown(d, r, c)]
        = IF r = y THEN [[c \in CellCols |-> Shown(buf, r, c)] EXCEPT ![x] = ch]
          ELSE [c \in CellCols |-> Shown(buf, r, c)]
  BY <1>2
<1>4. Grid(d) = [Grid(buf) EXCEPT ![y][x] = ch]
  BY <1>3 DEF Grid
<1> QED
  BY <1>4 DEF d

Rolled(g) == [r \in 0 .. Height - 1 |-> IF r < Height - 1 THEN g[r + 1]
                                        ELSE [c \in 0 .. Width - 1 |-> NoChar]]

LEMMA GridScrolled ==
    ASSUME setting \in Settings, Whole(setting), NEW buf, Tidy(buf, Depths)
    PROVE  Grid(Scrolled(buf)) = Rolled(Grid(buf)) /\ Tidy(Scrolled(buf), Depths)
<1>1. CellRows = 0 .. Height - 1 /\ CellCols = 0 .. Width - 1 /\ Height \in Nat \ {0}
  BY GridSize
<1>2. \A r \in CellRows, c \in CellCols :
        /\ \E ch \in Written, k \in Depths : Shows(Scrolled(buf), r, c, ch, k)
        /\ Shown(Scrolled(buf), r, c)
             = IF r + 1 \in CellRows THEN Shown(buf, r + 1, c) ELSE NoChar
  BY ShownScrolled
<1>3. \A r \in CellRows : r + 1 \in CellRows <=> r < Height - 1
  BY <1>1
<1>4. \A r \in CellRows : [c \in CellCols |-> Shown(Scrolled(buf), r, c)]
        = IF r < Height - 1 THEN Grid(buf)[r + 1] ELSE [c \in CellCols |-> NoChar]
  <2> TAKE r \in CellRows
  <2>1. CASE r < Height - 1
    <3>1. Grid(buf)[r + 1] = [c \in CellCols |-> Shown(buf, r + 1, c)]
      BY <1>3, <2>1 DEF Grid
    <3> QED
      BY <1>2, <1>3, <2>1, <3>1
  <2>2. CASE ~(r < Height - 1)
    BY <1>2, <1>3, <2>2
  <2> QED
    BY <2>1, <2>2
<1>5. Grid(Scrolled(buf)) = Rolled(Grid(buf))
  BY <1>1, <1>4 DEF Grid, Rolled
<1>6. Tidy(Scrolled(buf), Depths)
  BY <1>2 DEF Tidy
<1> QED
  BY <1>5, <1>6

(* What is visible, of a program at p with the buffer b and the cursor x,  *)
(* y.                                                                      *)
Feed == {"newline", "column", "row"}
BufferOf(p, b, y) == IF p = "scroll" \/ (p \in Feed /\ PastBottom(y + 1)) THEN Scrolled(b) ELSE b
RowOf(p, y) == IF p \in Feed THEN (IF PastBottom(y + 1) THEN y ELSE y + 1)
               ELSE IF p \in {"scroll", "unscroll"} THEN y - 1 ELSE y
ColOf(p, x, rx) == IF p \in Feed THEN 0 ELSE IF p = "advance" THEN rx + 1 ELSE x

LEMMA GridNext ==
    ASSUME setting' = setting, NEW b, VisibleBuffer' = b
    PROVE  Grid(VisibleBuffer)' = Grid(b)
<1>1. /\ CellRows' = CellRows /\ CellCols' = CellCols /\ Written' = Written
      /\ \A r, c : Cell(r, c)' = Cell(r, c)
  BY DEF CellRows, CellCols, Written, Lines, Columns, Cell, width, height
<1>2. ASSUME NEW r, NEW c
      PROVE  Shown(VisibleBuffer, r, c)' = Shown(b, r, c)
  <2>1. \A g : Pixel(VisibleBuffer, r, c, g)' = Pixel(b, r, c, g)
    BY DEF Pixel
  <2>2. {ch \in Written : Shows(VisibleBuffer, r, c, ch, FONT_HEIGHT)}'
          = {ch \in Written : Shows(b, r, c, ch, FONT_HEIGHT)}
    BY <1>1, <2>1 DEF Shows
  <2> QED
    BY <1>1, <2>1, <2>2 DEF Shown
<1> QED
  BY <1>1, <1>2 DEF Grid

(* What Terminal may do from the grid g with its cursor at r, c.           *)
Moves(g, r, c, gn, rn, cn) ==
    \/ gn = g /\ rn = r /\ cn = c
    \/ \E ch \in Written : c < Width /\ gn = [g EXCEPT ![r][c] = ch] /\ cn = c + 1 /\ rn = r
    \/ cn = 0 /\ r < Height - 1 /\ rn = r + 1 /\ gn = g
    \/ cn = 0 /\ r = Height - 1 /\ rn = r /\ gn = Rolled(g)
    \/ gn = EmptyGrid /\ rn = 0 /\ cn = 0
    \/ rn \in 0 .. Height - 1 /\ cn \in 0 .. Width - 1 /\ gn = g

LEMMA TerminalMoves ==
    ASSUME NEW s \in Settings, setting = s, setting' = setting,
           Moves(Grid(BufferOf(pc, buffer, y_pos)), RowOf(pc, y_pos), ColOf(pc, x_pos, r_x),
                 Grid(BufferOf(pc', buffer', y_pos')), RowOf(pc', y_pos'), ColOf(pc', x_pos', r_x'))
    PROVE  [T(s)!Next]_(T(s)!vars)
<1>1. /\ VisibleBuffer = BufferOf(pc, buffer, y_pos)
      /\ VisibleRow = RowOf(pc, y_pos) /\ VisibleCol = ColOf(pc, x_pos, r_x)
  BY DEF VisibleBuffer, BufferOf, VisibleRow, RowOf, VisibleCol, ColOf, Feeding, WillScroll, Feed
<1>2. PastBottom(y_pos + 1)' <=> PastBottom(y_pos' + 1)
  BY DEF PastBottom, height
<1>3. Scrolled(buffer)' = Scrolled(buffer')
  BY DEF Scrolled, Cleared, Lines, Columns, width, height
<1>4. /\ VisibleBuffer' = BufferOf(pc', buffer', y_pos')
      /\ VisibleRow' = RowOf(pc', y_pos') /\ VisibleCol' = ColOf(pc', x_pos', r_x')
  BY <1>2, <1>3 DEF VisibleBuffer, BufferOf, VisibleRow, RowOf, VisibleCol, ColOf, Feeding,
                    WillScroll, Feed
<1>5. Grid(VisibleBuffer)' = Grid(BufferOf(pc', buffer', y_pos'))
  BY <1>4, GridNext
<1>6. Moves(Grid(VisibleBuffer), VisibleRow, VisibleCol, Grid(VisibleBuffer)', VisibleRow', VisibleCol')
  BY <1>1, <1>4, <1>5
<1>7. /\ Height = s.height \div FONT_HEIGHT /\ Width = (s.width + BASIC_WIDTH - 1) \div BASIC_WIDTH
      /\ Written = s.written
  BY DEF Height, Width, height, width, Written
<1>8. CASE \E ch \in Written : /\ VisibleCol < Width
                               /\ Grid(VisibleBuffer)'
                                    = [Grid(VisibleBuffer) EXCEPT ![VisibleRow][VisibleCol] = ch]
                               /\ VisibleCol' = VisibleCol + 1 /\ VisibleRow' = VisibleRow
  BY <1>7, <1>8 DEF T!Next, T!Put
<1>9. CASE VisibleCol' = 0 /\ VisibleRow < Height - 1 /\ VisibleRow' = VisibleRow + 1
           /\ Grid(VisibleBuffer)' = Grid(VisibleBuffer)
  BY <1>7, <1>9 DEF T!Next, T!LineFeed
<1>10. CASE VisibleCol' = 0 /\ VisibleRow = Height - 1 /\ VisibleRow' = VisibleRow
            /\ Grid(VisibleBuffer)' = Rolled(Grid(VisibleBuffer))
  BY <1>7, <1>10 DEF T!Next, T!LineFeed, T!EmptyRow, Rolled
<1>11. CASE Grid(VisibleBuffer)' = EmptyGrid /\ VisibleRow' = 0 /\ VisibleCol' = 0
  BY <1>7, <1>11 DEF T!Next, T!Clear, T!EmptyRow, EmptyGrid
<1>12. CASE VisibleRow' \in 0 .. Height - 1 /\ VisibleCol' \in 0 .. Width - 1
            /\ Grid(VisibleBuffer)' = Grid(VisibleBuffer)
  BY <1>7, <1>12 DEF T!Next, T!Goto
<1>13. CASE Grid(VisibleBuffer)' = Grid(VisibleBuffer) /\ VisibleRow' = VisibleRow
            /\ VisibleCol' = VisibleCol
  BY <1>13 DEF T!vars
<1> QED
  BY <1>6, <1>8, <1>9, <1>10, <1>11, <1>12, <1>13 DEF Moves

(***************************************************************************)
(* The invariant: nobody moved the cursor since it was loaded, and every   *)
(* cell is blank or shows a whole glyph.                                   *)
(***************************************************************************)
LoadedInv ==
    /\ pc \in {"draw", "advance"} => r_x = x_pos /\ r_y = y_pos
    /\ pc \in {"column", "row", "unscroll"} => r_y = y_pos
    /\ pc = "row" => x_pos = 0
    /\ pc \in {"scroll", "unscroll"} => PastBottom(y_pos)
WholeInv == Whole(setting) => LoadedInv /\ WritingInv /\ Tidy(buffer, Depths)

LEMMA WholeInit == Init => WholeInv
<1> SUFFICES ASSUME Init, Whole(setting) PROVE LoadedInv /\ WritingInv /\ Tidy(buffer, Depths)
  BY DEF WholeInv
<1>1. setting \in Settings /\ buffer = Cleared /\ pc = "idle" /\ 0 \in Depths /\ Narrow(setting)
  BY DEF Init, Depths, Whole
<1> QED
  BY <1>1, ClearedTidy DEF WritingInv, LoadedInv

LEMMA LoadedStep ==
    ASSUME ConsoleInv, LoadedInv, [Next]_vars, ~setting.preemptible
    PROVE  LoadedInv' /\ setting' = setting
<1> USE DEF Screen, Registers, LoadedInv
<1>1. setting' = setting
  BY BufferSteps
<1>2. \A y : PastBottom(y)' <=> PastBottom(y)
  BY <1>1 DEF PastBottom, height
<1>3. CASE \E how \in {"write", "putchar"} :
             BeginNewline(how) \/ \E c \in Written : BeginGlyph(how, c)
  BY <1>3 DEF BeginNewline, BeginGlyph
<1>4. CASE PutReturn \/ Clear \/ \E p \in setting.cursors : SetCursor(p[1], p[2])
  BY <1>4 DEF PutReturn, Clear, SetCursor
<1>5. CASE Draw \/ Advance \/ Wrap
  BY <1>5 DEF Draw, Advance, Wrap, After
<1>6. CASE LoadRow \/ StoreColumn
  BY <1>6 DEF LoadRow, StoreColumn
<1>7. CASE StoreRow
  <2>1. PastBottom(y_pos') <=> PastBottom(r_y + 1)
    BY <1>7 DEF StoreRow
  <2> QED
    BY <1>2, <1>7, <2>1 DEF StoreRow, After, PastBottom, height
<1>8. CASE Scroll \/ Unscroll \/ Check
  <2>1. PastBottom(y_pos)' <=> PastBottom(y_pos')
    BY <1>1 DEF PastBottom, height
  <2> QED
    BY <1>2, <1>8, <2>1 DEF Scroll, Unscroll, Check, After
<1>9. CASE UNCHANGED vars
  BY <1>9 DEF vars, PastBottom, height
<1>10. ~HandlerPutchar
  BY DEF HandlerPutchar
<1> QED
  BY <1>1, <1>3, <1>4, <1>5, <1>6, <1>7, <1>8, <1>9, <1>10 DEF Next, WriteStep

LEMMA WholeStep == ConsoleInv /\ WholeInv /\ [Next]_vars => WholeInv'
<1> SUFFICES ASSUME ConsoleInv, WholeInv, [Next]_vars, Whole(setting)'
             PROVE  LoadedInv' /\ WritingInv' /\ Tidy(buffer, Depths)'
  BY DEF WholeInv
<1>1. /\ setting \in Settings /\ r_x \in Nat /\ r_y \in Nat /\ pc \in Steps
  BY Facts
<1>2. setting' = setting /\ ~setting.preemptible /\ Narrow(setting) /\ Whole(setting)
  <2>1. setting' = setting
    BY DEF Next, BeginNewline, BeginGlyph, PutReturn, WriteStep, Draw, Advance, Wrap, LoadRow,
           StoreColumn, StoreRow, Scroll, Unscroll, Check, Clear, SetCursor, HandlerPutchar,
           Registers, vars
  <2> QED
    BY <2>1 DEF Whole
<1>3. LoadedInv /\ WritingInv /\ Tidy(buffer, Depths)
  BY <1>2 DEF WholeInv
<1>4. FONT_HEIGHT \in Depths /\ 0 \in Depths
  BY DEF Depths
<1>5. Tidy(buffer', Depths)
  <2>1. CASE buffer' = buffer
    BY <1>3, <2>1
  <2>2. CASE pc = "draw" /\ buffer' = Drawn(buffer, r_x, r_y, cur)
    <3>1. cur \in Written
      BY <1>3, <2>2 DEF WritingInv
    <3>2. Tidy(Drawn(buffer, r_x, r_y, cur), Depths)
      BY <1>1, <1>2, <1>3, <1>4, <3>1, DrawnTidy
    <3> QED
      BY <2>2, <3>2
  <2>3. CASE buffer' = Scrolled(buffer)
    BY <1>1, <1>2, <1>3, <2>3, GridScrolled
  <2>4. CASE buffer' = Cleared
    BY <1>1, <1>2, <1>4, <2>4, ClearedTidy
  <2> QED
    BY <1>2, <2>1, <2>2, <2>3, <2>4, BufferSteps
<1>6. /\ CellRows' = CellRows /\ CellCols' = CellCols /\ Written' = Written
      /\ \A r, c : Cell(r, c)' = Cell(r, c)
  BY <1>2 DEF CellRows, CellCols, Written, Lines, Columns, Cell, width, height
<1>7. Tidy(buffer, Depths)'
  BY <1>5, <1>6 DEF Tidy, Shows, Pixel
<1>8. WritingInv'
  BY <1>2, <1>3, <1>6, BufferSteps DEF WritingInv
<1>9. LoadedInv'
  BY <1>2, <1>3, LoadedStep
<1> QED
  BY <1>7, <1>8, <1>9

(***************************************************************************)
(* Step by step.                                                           *)
(***************************************************************************)
Moved == Moves(Grid(BufferOf(pc, buffer, y_pos)), RowOf(pc, y_pos), ColOf(pc, x_pos, r_x),
               Grid(BufferOf(pc', buffer', y_pos')), RowOf(pc', y_pos'), ColOf(pc', x_pos', r_x'))

(* Where the cursor is.                                                    *)
LEMMA CursorCell ==
    ASSUME ConsoleInv, WholeInv, Whole(setting)
    PROVE  /\ Height \in Nat \ {0} /\ Width \in Nat \ {0}
           /\ pc \notin {"wrap", "newline", "column"} => x_pos \in 0 .. Width - 1
           /\ pc \notin {"scroll", "unscroll"} => y_pos \in 0 .. Height - 1
           /\ pc \in {"scroll", "unscroll"} => y_pos = Height
           /\ LoadedInv /\ WritingInv /\ Tidy(buffer, Depths) /\ Narrow(setting) /\ setting \in Settings
           /\ ~setting.preemptible
           /\ \A y \in Nat : PastBottom(y) <=> y >= Height
           /\ \A x \in Nat : PastRight(x) <=> x >= Width
           /\ CellRows = 0 .. Height - 1 /\ CellCols = 0 .. Width - 1
<1>1. /\ setting \in Settings /\ CursorInv /\ x_pos \in Nat /\ y_pos \in Nat
      /\ LoadedInv /\ WritingInv /\ Tidy(buffer, Depths) /\ Narrow(setting) /\ ~setting.preemptible
  BY Facts DEF WholeInv, Whole
<1>2. /\ Height \in Nat \ {0} /\ Width \in Nat \ {0}
      /\ \A y \in Nat : PastBottom(y) <=> y >= Height
      /\ \A x \in Nat : PastRight(x) <=> x >= Width
      /\ CellRows = 0 .. Height - 1 /\ CellCols = 0 .. Width - 1
  BY <1>1, GridSize
<1>3. pc \notin {"wrap", "newline", "column"} => x_pos \in 0 .. Width - 1
  BY <1>1, <1>2 DEF CursorInv
<1>4. pc \notin {"scroll", "unscroll"} => y_pos \in 0 .. Height - 1
  BY <1>1, <1>2 DEF CursorInv
<1>5. ASSUME pc \in {"scroll", "unscroll"} PROVE y_pos = Height
  <2>1. y_pos >= Height
    BY <1>1, <1>2, <1>5 DEF LoadedInv
  <2>2. y_pos - 1 \in Nat /\ ~PastBottom(y_pos - 1)
    BY <1>1, <1>2, <1>5, <2>1 DEF CursorInv
  <2> QED
    BY <1>1, <1>2, <2>1, <2>2
<1> QED
  BY <1>1, <1>2, <1>3, <1>4, <1>5

(* A line feed: from any step between the lines to newline.                *)
LEMMA FeedMoves ==
    ASSUME ConsoleInv, WholeInv, Whole(setting), pc \in {"idle", "wrap"}, pc' = "newline",
           UNCHANGED <<buffer, x_pos, y_pos>>
    PROVE  Moved
<1>1. /\ Height \in Nat \ {0} /\ y_pos \in 0 .. Height - 1 /\ Tidy(buffer, Depths)
      /\ setting \in Settings /\ (PastBottom(y_pos + 1) <=> y_pos + 1 >= Height)
  <2>1. Height \in Nat \ {0} /\ y_pos \in 0 .. Height - 1 /\ Tidy(buffer, Depths)
        /\ setting \in Settings /\ \A y \in Nat : PastBottom(y) <=> y >= Height
    BY CursorCell
  <2>2. y_pos + 1 \in Nat
    BY <2>1
  <2> QED
    BY <2>1, <2>2
<1>2. /\ BufferOf(pc, buffer, y_pos) = buffer /\ RowOf(pc, y_pos) = y_pos
      /\ ColOf(pc', x_pos', r_x') = 0
  BY DEF BufferOf, RowOf, ColOf, Feed
<1>3. CASE PastBottom(y_pos + 1)
  <2>1. y_pos = Height - 1
    BY <1>1, <1>3
  <2>2. BufferOf(pc', buffer', y_pos') = Scrolled(buffer) /\ RowOf(pc', y_pos') = y_pos
    BY <1>3 DEF BufferOf, RowOf, Feed
  <2>3. Grid(Scrolled(buffer)) = Rolled(Grid(buffer))
    BY <1>1, GridScrolled
  <2> QED
    BY <1>2, <2>1, <2>2, <2>3 DEF Moved, Moves
<1>4. CASE ~PastBottom(y_pos + 1)
  <2>1. y_pos < Height - 1
    BY <1>1, <1>4
  <2>2. BufferOf(pc', buffer', y_pos') = buffer /\ RowOf(pc', y_pos') = y_pos + 1
    BY <1>4 DEF BufferOf, RowOf, Feed
  <2> QED
    BY <1>2, <2>1, <2>2 DEF Moved, Moves
<1> QED
  BY <1>3, <1>4

(* A glyph is drawn.                                                       *)
LEMMA DrawMoves ==
    ASSUME ConsoleInv, WholeInv, Whole(setting), Draw
    PROVE  Moved
<1>1. /\ pc = "draw" /\ UNCHANGED <<x_pos, y_pos, r_x, r_y>>
      /\ \/ pc' = "wrap" /\ buffer' = buffer
         \/ pc' = "advance" /\ buffer' = Drawn(buffer, r_x, r_y, cur)
  BY DEF Draw, Registers
<1>2. /\ Height \in Nat \ {0} /\ Width \in Nat \ {0} /\ x_pos \in 0 .. Width - 1
      /\ y_pos \in 0 .. Height - 1 /\ r_x = x_pos /\ r_y = y_pos /\ cur \in Written
      /\ Tidy(buffer, Depths) /\ setting \in Settings
      /\ CellRows = 0 .. Height - 1 /\ CellCols = 0 .. Width - 1
  BY <1>1, CursorCell DEF LoadedInv, WritingInv
<1>3. /\ BufferOf(pc, buffer, y_pos) = buffer /\ RowOf(pc, y_pos) = y_pos
      /\ ColOf(pc, x_pos, r_x) = x_pos
  BY <1>1 DEF BufferOf, RowOf, ColOf, Feed
<1>4. /\ BufferOf(pc', buffer', y_pos') = buffer' /\ RowOf(pc', y_pos') = y_pos
      /\ pc' = "wrap" => ColOf(pc', x_pos', r_x') = x_pos
      /\ pc' = "advance" => ColOf(pc', x_pos', r_x') = x_pos + 1
  BY <1>1, <1>2 DEF BufferOf, RowOf, ColOf, Feed
<1>5. CASE pc' = "wrap" /\ buffer' = buffer
  BY <1>3, <1>4, <1>5 DEF Moved, Moves
<1>6. CASE pc' = "advance" /\ buffer' = Drawn(buffer, r_x, r_y, cur)
  <2>1. Grid(buffer') = [Grid(buffer) EXCEPT ![y_pos][x_pos] = cur]
    <3>1. Grid(Drawn(buffer, x_pos, y_pos, cur)) = [Grid(buffer) EXCEPT ![y_pos][x_pos] = cur]
      BY <1>2, GridDrawn
    <3> QED
      BY <1>2, <1>6, <3>1
  <2>2. x_pos < Width
    BY <1>2
  <2>3. Moves(Grid(buffer), y_pos, x_pos, Grid(buffer'), y_pos, x_pos + 1)
    BY <1>2, <2>1, <2>2 DEF Moves
  <2> QED
    BY <1>3, <1>4, <1>6, <2>3 DEF Moved
<1> QED
  BY <1>1, <1>5, <1>6

(* The line feed is on its way.                                            *)
LEMMA OnTheWay ==
    ASSUME ConsoleInv, WholeInv, Whole(setting),
           LoadRow \/ StoreColumn \/ StoreRow \/ Scroll \/ Unscroll
    PROVE  Moved
<1> USE DEF Screen, Registers
<1>1. /\ Height \in Nat \ {0} /\ y_pos \in Nat /\ LoadedInv
      /\ pc \in {"scroll", "unscroll"} => y_pos = Height
      /\ PastBottom(y_pos) <=> y_pos >= Height
  BY CursorCell, Facts
<1>2. CASE LoadRow \/ StoreColumn
  <2>1. /\ pc \in Feed /\ pc' \in Feed /\ UNCHANGED <<buffer, y_pos>>
    BY <1>2 DEF LoadRow, StoreColumn, Feed
  <2>2. /\ BufferOf(pc', buffer', y_pos') = BufferOf(pc, buffer, y_pos)
        /\ RowOf(pc', y_pos') = RowOf(pc, y_pos)
        /\ ColOf(pc', x_pos', r_x') = 0 /\ ColOf(pc, x_pos, r_x) = 0
    BY <2>1 DEF BufferOf, RowOf, ColOf, Feed
  <2> QED
    BY <2>2 DEF Moved, Moves
<1>3. CASE StoreRow
  <2>1. /\ pc = "row" /\ y_pos' = y_pos + 1 /\ x_pos' = 0 /\ buffer' = buffer /\ r_x' = r_x
        /\ pc' = IF PastBottom(y_pos + 1) THEN "scroll" ELSE After
        /\ After \in {"check", "idle"}
    BY <1>1, <1>3 DEF StoreRow, LoadedInv, After
  <2>2. (y_pos + 1) - 1 = y_pos
    BY <1>1
  <2>3. /\ BufferOf(pc', buffer', y_pos') = BufferOf(pc, buffer, y_pos)
        /\ RowOf(pc', y_pos') = RowOf(pc, y_pos)
        /\ ColOf(pc', x_pos', r_x') = 0 /\ ColOf(pc, x_pos, r_x) = 0
    BY <2>1, <2>2 DEF BufferOf, RowOf, ColOf, Feed
  <2> QED
    BY <2>3 DEF Moved, Moves
<1>4. CASE Scroll
  <2>1. /\ pc = "scroll" /\ pc' = "unscroll" /\ buffer' = Scrolled(buffer)
        /\ UNCHANGED <<x_pos, y_pos, r_x>>
    BY <1>4 DEF Scroll
  <2>2. /\ BufferOf(pc', buffer', y_pos') = BufferOf(pc, buffer, y_pos)
        /\ RowOf(pc', y_pos') = RowOf(pc, y_pos)
        /\ ColOf(pc', x_pos', r_x') = ColOf(pc, x_pos, r_x)
    BY <2>1 DEF BufferOf, RowOf, ColOf, Feed
  <2> QED
    BY <2>2 DEF Moved, Moves
<1>5. CASE Unscroll
  <2>1. /\ pc = "unscroll" /\ pc' \in {"check", "idle"} /\ y_pos' = y_pos - 1
        /\ UNCHANGED <<buffer, x_pos, r_x>>
    BY <1>1, <1>5 DEF Unscroll, LoadedInv, After
  <2>2. /\ BufferOf(pc', buffer', y_pos') = BufferOf(pc, buffer, y_pos)
        /\ RowOf(pc', y_pos') = RowOf(pc, y_pos)
        /\ ColOf(pc', x_pos', r_x') = ColOf(pc, x_pos, r_x)
    BY <2>1 DEF BufferOf, RowOf, ColOf, Feed
  <2> QED
    BY <2>2 DEF Moved, Moves
<1> QED
  BY <1>2, <1>3, <1>4, <1>5

(* Steps that Terminal does not see.                                       *)
LEMMA UnseenMoves ==
    ASSUME ConsoleInv, WholeInv, Whole(setting),
           \/ \E how \in {"write", "putchar"}, c \in Written : BeginGlyph(how, c)
           \/ Advance \/ Check \/ UNCHANGED vars
           \/ Wrap /\ pc' # "newline"
    PROVE  Moved
<1> USE DEF Screen, Registers
<1>1. /\ pc = "check" => ~PastBottom(y_pos)
      /\ pc = "advance" => r_x = x_pos
  BY CursorCell, Facts DEF CursorInv, LoadedInv
<1>2. /\ BufferOf(pc', buffer', y_pos') = BufferOf(pc, buffer, y_pos)
      /\ RowOf(pc', y_pos') = RowOf(pc, y_pos)
      /\ ColOf(pc', x_pos', r_x') = ColOf(pc, x_pos, r_x)
  <2>1. CASE UNCHANGED vars
    BY <2>1 DEF vars, BufferOf, RowOf, ColOf
  <2>2. CASE \E how \in {"write", "putchar"}, c \in Written : BeginGlyph(how, c)
    BY <2>2 DEF BeginGlyph, BufferOf, RowOf, ColOf, Feed
  <2>3. CASE Advance
    BY <2>3 DEF Advance, BufferOf, RowOf, ColOf, Feed
  <2>4. CASE Check
    BY <1>1, <2>4 DEF Check, BufferOf, RowOf, ColOf, Feed
  <2>5. CASE Wrap /\ pc' # "newline"
    BY <2>5 DEF Wrap, After, BufferOf, RowOf, ColOf, Feed
  <2> QED
    BY <2>1, <2>2, <2>3, <2>4, <2>5
<1> QED
  BY <1>2 DEF Moved, Moves

(* The program moves the cursor, or clears the screen.                     *)
LEMMA GotoMoves ==
    ASSUME ConsoleInv, WholeInv, Whole(setting),
           PutReturn \/ Clear \/ \E p \in setting.cursors : SetCursor(p[1], p[2])
    PROVE  Moved
<1> USE DEF Screen, Registers
<1>1. /\ Height \in Nat \ {0} /\ Width \in Nat \ {0} /\ setting \in Settings
      /\ \A y \in Nat : PastBottom(y) <=> y >= Height
      /\ \A x \in Nat : PastRight(x) <=> x >= Width
      /\ pc = "idle" => y_pos \in 0 .. Height - 1
  BY CursorCell
<1>2. CASE PutReturn
  <2>1. /\ pc = "idle" /\ pc' = "check" /\ x_pos' = 0 /\ UNCHANGED <<buffer, y_pos>>
    BY <1>2 DEF PutReturn
  <2>2. /\ BufferOf(pc', buffer', y_pos') = BufferOf(pc, buffer, y_pos)
        /\ RowOf(pc', y_pos') = y_pos /\ ColOf(pc', x_pos', r_x') = 0
    BY <2>1 DEF BufferOf, RowOf, ColOf, Feed
  <2>3. y_pos \in 0 .. Height - 1 /\ 0 \in 0 .. Width - 1
    BY <1>1, <2>1
  <2> QED
    BY <2>2, <2>3 DEF Moved, Moves
<1>3. CASE Clear
  <2>1. /\ pc = "idle" /\ pc' = "idle" /\ x_pos' = 0 /\ y_pos' = 0 /\ buffer' = Cleared
    BY <1>3 DEF Clear
  <2>2. /\ BufferOf(pc', buffer', y_pos') = Cleared
        /\ RowOf(pc', y_pos') = 0 /\ ColOf(pc', x_pos', r_x') = 0
    BY <2>1 DEF BufferOf, RowOf, ColOf, Feed
  <2>3. Grid(Cleared) = EmptyGrid
    BY <1>1, GridCleared
  <2> QED
    BY <2>2, <2>3 DEF Moved, Moves
<1>4. ASSUME NEW p \in setting.cursors, SetCursor(p[1], p[2])
      PROVE  Moved
  <2>1. /\ pc = "idle" /\ pc' = "idle" /\ x_pos' = p[1] /\ y_pos' = p[2] /\ buffer' = buffer
    BY <1>4 DEF SetCursor
  <2>2. /\ BufferOf(pc', buffer', y_pos') = BufferOf(pc, buffer, y_pos)
        /\ RowOf(pc', y_pos') = y_pos' /\ ColOf(pc', x_pos', r_x') = x_pos'
    BY <2>1 DEF BufferOf, RowOf, ColOf, Feed
  <2>3. x_pos' \in 0 .. Width - 1 /\ y_pos' \in 0 .. Height - 1
    <3> DEFINE u == p[1] * BASIC_WIDTH
               v == p[2] * FONT_HEIGHT
    <3>1. p[1] \in Nat /\ p[2] \in Nat /\ u < width /\ v < height
      BY <1>1, CursorAssumption DEF width, height
    <3>2. u \in Nat /\ v \in Nat /\ width \in Nat /\ height \in Nat
      BY <1>1, <3>1, ScreenSizes
    <3> HIDE DEF u, v
    <3>3. ~(u >= width) /\ ~(v >= height)
      BY <3>1, <3>2
    <3>4. ~PastRight(p[1]) /\ ~PastBottom(p[2])
      BY <3>3 DEF PastRight, PastBottom, u, v
    <3>5. ~(p[1] >= Width) /\ ~(p[2] >= Height)
      BY <1>1, <3>1, <3>4
    <3> QED
      BY <1>1, <2>1, <3>1, <3>5
  <2> QED
    BY <2>2, <2>3 DEF Moved, Moves
<1> QED
  BY <1>2, <1>3, <1>4

LEMMA ConsoleMoves ==
    ASSUME ConsoleInv, WholeInv, Whole(setting), [Next]_vars
    PROVE  Moved
<1> USE DEF Screen, Registers
<1>1. ~HandlerPutchar
  BY DEF HandlerPutchar, Whole
<1>2. CASE \E how \in {"write", "putchar"} : BeginNewline(how)
  BY <1>2, FeedMoves DEF BeginNewline
<1>3. CASE \E how \in {"write", "putchar"}, c \in Written : BeginGlyph(how, c)
  BY <1>3, UnseenMoves
<1>4. CASE PutReturn \/ Clear \/ \E p \in setting.cursors : SetCursor(p[1], p[2])
  BY <1>4, GotoMoves
<1>5. CASE Draw
  BY <1>5, DrawMoves
<1>6. CASE Wrap
  <2>1. pc' = "newline" => Moved
    BY <1>6, FeedMoves DEF Wrap
  <2>2. pc' # "newline" => Moved
    BY <1>6, UnseenMoves
  <2> QED
    BY <2>1, <2>2
<1>7. CASE Advance \/ Check \/ UNCHANGED vars
  BY <1>7, UnseenMoves
<1>8. CASE LoadRow \/ StoreColumn \/ StoreRow \/ Scroll \/ Unscroll
  BY <1>8, OnTheWay
<1> QED
  BY <1>1, <1>2, <1>3, <1>4, <1>5, <1>6, <1>7, <1>8 DEF Next, WriteStep

LEMMA TerminalInit ==
    Init => \A s \in Settings : setting = s /\ Whole(s) => T(s)!Init
<1> SUFFICES ASSUME Init, NEW s \in Settings, setting = s, Whole(s) PROVE T(s)!Init
  OBVIOUS
<1>1. /\ pc = "idle" /\ buffer = Cleared /\ x_pos = 0 /\ y_pos = 0
      /\ setting \in Settings /\ Whole(setting)
  BY DEF Init
<1>2. VisibleBuffer = Cleared /\ VisibleRow = 0 /\ VisibleCol = 0
  BY <1>1 DEF VisibleBuffer, VisibleRow, VisibleCol, WillScroll, Feeding
<1>3. Grid(VisibleBuffer) = EmptyGrid
  BY <1>1, <1>2, GridCleared
<1>4. /\ Height = s.height \div FONT_HEIGHT /\ Width = (s.width + BASIC_WIDTH - 1) \div BASIC_WIDTH
  BY DEF Height, Width, height, width
<1> QED
  BY <1>2, <1>3, <1>4 DEF T!Init, T!EmptyRow, EmptyGrid

LEMMA TerminalStep ==
    ASSUME ConsoleInv, WholeInv, [Next]_vars, NEW s \in Settings, setting = s, Whole(s)
    PROVE  [T(s)!Next]_(T(s)!vars)
<1>1. Whole(setting) /\ ~setting.preemptible
  BY DEF Whole
<1>2. setting' = setting
  BY <1>1, BufferSteps
<1>3. Moved
  BY <1>1, ConsoleMoves
<1> QED
  BY <1>2, <1>3, TerminalMoves DEF Moved

(* On a screen of whole lines, while nobody interrupts a program of latin  *)
(* characters, the console implements the grid of characters that scrolls: *)
(* drawing a glyph (_putchar) puts a character, newline and scroll are one *)
(* line feed, setcursor and the carriage return move the cursor, and clear *)
(* clears the grid, for a screen and a font of any size.                   *)
THEOREM RefinesTerminal == Spec => ImplementsTerminal
<1>1. Init => \A s \in Settings : setting = s /\ Whole(s) => T(s)!Init
  BY TerminalInit
<1>2. ConsoleInv /\ WholeInv /\ [Next]_vars
        => [\A s \in Settings : setting = s /\ Whole(s) => [T(s)!Next]_(T(s)!vars)]_vars
  BY TerminalStep
<1> QED
  BY <1>1, <1>2, ConsoleInit, ConsoleStep, WholeInit, WholeStep, PTL DEF Spec, ImplementsTerminal
==============================================================================
