------------------------------ MODULE MCConsole ----------------------------
(* Consoles with a buffer of 3 rows and 2 columns and characters of two by *)
(* two pixels, drawn in squares of two; 233 is a character past the font.  *)
EXTENDS Console

MCFont ==
    [g \in {Blank, 65, LastGlyph} |->
        CASE g = Blank -> [y \in 0 .. 1 |-> {}]
          [] g = 65    -> [y \in 0 .. 1 |-> IF y = 0 THEN {0} ELSE {0, 1}]
          [] OTHER     -> [y \in 0 .. 1 |-> {1 - y}]]

(* A column of pixels is left over, and a word behind each scan line.      *)
Size(r, c) == [width |-> c * CharWidth + 1, height |-> r * CharHeight,
               pitch |-> c * CharWidth + 2]

MCModes ==
    {Size(1, 2), Size(2, 1), Size(2, 2)}            \* a row of the buffer is free
        \cup {Size(3, 1), Size(3, 2)}               \* all rows are used
        \cup {Size(2, 3), Size(4, 1)}               \* too wide, too high
=============================================================================
