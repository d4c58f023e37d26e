------------------------------ MODULE Terminal ------------------------------
(***************************************************************************)
(* What the text console promises: a grid of cells with a cursor.  A       *)
(* character goes into the cell under the cursor, which moves right; a     *)
(* line feed moves it to the start of the next line, and the last line     *)
(* scrolls.                                                                *)
(***************************************************************************)
EXTENDS Naturals

CONSTANTS Rows, Columns,    \* size of the grid
          Chars,            \* characters with a glyph
          Empty             \* what an empty cell holds

VARIABLES grid,         \* the character in each cell
          row, col      \* the cursor; col = Columns: a line feed is due

vars == <<grid, row, col>>

EmptyRow == [c \in 0 .. Columns - 1 |-> Empty]

Init == /\ grid = [r \in 0 .. Rows - 1 |-> EmptyRow]
        /\ row = 0 /\ col = 0

Put(ch) ==
    /\ col < Columns
    /\ grid' = [grid EXCEPT ![row][col] = ch]
    /\ col' = col + 1 /\ UNCHANGED row

LineFeed ==
    /\ col' = 0
    /\ \/ row < Rows - 1 /\ row' = row + 1 /\ UNCHANGED grid
       \/ /\ row = Rows - 1 /\ UNCHANGED row
          /\ grid' = [r \in 0 .. Rows - 1 |-> IF r < Rows - 1 THEN grid[r + 1] ELSE EmptyRow]

(* The cursor is moved: by a carriage return or by the program.            *)
Goto(r, c) == row' = r /\ col' = c /\ UNCHANGED grid

Clear == /\ grid' = [r \in 0 .. Rows - 1 |-> EmptyRow]
         /\ row' = 0 /\ col' = 0

Next == \/ \E ch \in Chars : Put(ch)
        \/ LineFeed \/ Clear
        \/ \E r \in 0 .. Rows - 1, c \in 0 .. Columns - 1 : Goto(r, c)

Spec == Init /\ [][Next]_vars
==============================================================================
