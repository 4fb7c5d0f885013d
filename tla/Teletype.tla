------------------------------ MODULE Teletype -----------------------------
(***************************************************************************)
(* What the graphics console promises (bootloader/src/console.c:1610-1652) *)
(* without its buffer and its pixels: a grid of characters with a cursor.  *)
(* A character is written at the cursor, which wraps at the end of a line; *)
(* below the last line the grid scrolls and a blank line appears.          *)
(***************************************************************************)
EXTENDS Integers

CONSTANTS Chars, CR, LF, Blank

VARIABLES rows, cols,   \* size of the grid, fixed
          grid,         \* <<row, column>> -> character
          x, y          \* the cursor

Cells == (0 .. rows - 1) \X (0 .. cols - 1)

Init == grid = [c \in Cells |-> Blank] /\ x = 0 /\ y = 0

Scrolled(g) == [c \in Cells |-> IF c[1] < rows - 1 THEN g[<<c[1] + 1, c[2]>>]
                                                   ELSE Blank]

NewLine(g) ==
    IF y < rows - 1 THEN grid' = g /\ y' = y + 1
                    ELSE grid' = Scrolled(g) /\ y' = y

CarriageReturn == x' = 0 /\ UNCHANGED <<grid, y>>

LineFeed == NewLine(grid) /\ UNCHANGED x

Type(ch) ==
    LET g == [grid EXCEPT ![<<y, x>>] = ch]
    IN  IF x < cols - 1 THEN grid' = g /\ x' = x + 1 /\ y' = y
                        ELSE NewLine(g) /\ x' = 0

Erase == grid' = [c \in Cells |-> Blank] /\ UNCHANGED <<x, y>>

Next ==
    /\ CarriageReturn \/ LineFeed \/ Erase \/ \E ch \in Chars \ {CR, LF} : Type(ch)
    /\ UNCHANGED <<rows, cols>>

Spec == Init /\ [][Next]_<<rows, cols, grid, x, y>>
=============================================================================
