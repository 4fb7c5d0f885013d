------------------------------- MODULE Console -----------------------------
(***************************************************************************)
(* The graphics console (bootloader/src/console.c).  Text is kept in       *)
(* buffer[64][128] and drawn on the framebuffer pixel by pixel; the number *)
(* of rows and columns follows from the resolution of the screen, not from *)
(* the size of the buffer.  A scan line of the framebuffer may have more   *)
(* words than the screen has columns of pixels.                            *)
(*                                                                         *)
(* Buffer and framebuffer are the flat arrays they are in memory.  A word  *)
(* of the framebuffer is Dark, Bright, or Leftover where the firmware's    *)
(* picture is.                                                             *)
(***************************************************************************)
EXTENDS Integers, FiniteSetsExt

CONSTANTS
    BufRows, BufCols,       \* 64 and 128
    FontWidth, FontHeight,  \* 8 and 8
    Scale,                  \* 2
    Font,                   \* glyph -> line -> columns with a pixel
    Modes,                  \* resolutions the firmware may have set
    Chars                   \* characters that are printed

CR    == 13     \* '\r'
LF    == 10     \* '\n'
Blank == 0
LastGlyph == 127

Dark == "dark"      \* 0x00000000
Bright == "bright"  \* 0xFFFFFFFF
Leftover == "leftover"

CharWidth  == FontWidth * Scale
CharHeight == FontHeight * Scale

Mode == [width : Nat, height : Nat, pitch : Nat]

ASSUME BufferAssumption == BufRows \in Nat \ {0} /\ BufCols \in Nat \ {0}
ASSUME ModesAssumption  ==
    /\ {FontWidth, FontHeight, Scale} \subseteq Nat \ {0} /\ Modes \subseteq Mode
    /\ \A m \in Modes : m.width >= CharWidth /\ m.height >= CharHeight /\ m.pitch >= m.width
ASSUME CharsAssumption  == Chars \subseteq Nat \ {Blank} /\ {CR, LF} \subseteq Chars

VARIABLES
    config,                 \* the mode
    buffer,                 \* 0 .. BufRows * BufCols - 1 -> character
    video,                  \* the framebuffer, word -> pixel
    cursor_x, cursor_y,
    overran                 \* the buffer was used past its end; undefined

vars == <<config, buffer, video, cursor_x, cursor_y, overran>>

rows == config.height \div CharHeight
cols == config.width \div CharWidth

Slots == 0 .. BufRows * BufCols - 1
Cells == (0 .. rows - 1) \X (0 .. cols - 1)

SlotFromOne(cy, cx) == (cy + 1) * BufCols + cx  \* plausible bug: rows from 1

Slot(cy, cx) == cy * BufCols + cx               \* buffer[cy][cx]

(* A line of a glyph is a byte, whose macro shows its highest bit first.   *)
Byte(columns) == MapThenSumSet(LAMBDA x : 2^(FontWidth - 1 - x), columns)
glyphs == [g \in DOMAIN Font |-> [y \in 0 .. FontHeight - 1 |-> Byte(Font[g][y])]]

(* put_char draws a character past the font as the last glyph.             *)
Glyph(ch) == IF ch < LastGlyph THEN ch ELSE LastGlyph

ASSUME FontAssumption ==
    /\ \A ch \in (Chars \cup {Blank}) \ {CR, LF} : Glyph(ch) \in DOMAIN Font
    /\ \A y \in 0 .. FontHeight - 1 : Font[Blank][y] = {}

Bit(byte, x) == (byte \div 2^(FontWidth - 1 - x)) % 2

(* Every macro names its byte rightly.                                     *)
ASSUME MacrosAssumption ==
    \A g \in DOMAIN Font, y \in 0 .. FontHeight - 1, x \in 0 .. FontWidth - 1 :
        Bit(glyphs[g][y], x) = 1 <=> x \in Font[g][y]

WordUnpadded(x, y) == y * config.width + x      \* plausible bug: width for pitch

Word(x, y) == y * config.pitch + x              \* set_pixel

(* put_char: the first word of a line of the cell c, and the pixels of a   *)
(* glyph, each drawn as a square of Scale pixels.                          *)
FirstWord(c, y) == Word(c[2] * CharWidth, c[1] * CharHeight + y)
Lines == 0 .. CharHeight - 1
Pixel(g, x, y) == IF Bit(glyphs[g][y \div Scale], x \div Scale) = 1 THEN Bright ELSE Dark

(* The framebuffer after put_char for all the cells of picture, a function *)
(* from cells to glyphs: the lines of the cells are runs of words.         *)
Drawn(picture) ==
    LET runs == {[at |-> FirstWord(c, y), glyph |-> picture[c], line |-> y] :
                    c \in DOMAIN picture, y \in Lines}
    IN  [w \in DOMAIN video |->
            LET hit == {r \in runs : w - r.at \in 0 .. CharWidth - 1}
            IN  IF hit = {} THEN video[w]
                ELSE LET r == CHOOSE r \in hit : TRUE
                     IN  Pixel(r.glyph, w - r.at, r.line)]
----------------------------------------------------------------------------
(* init_console: the screen is not cleared, nor is the cursor moved.       *)
Init ==
    /\ config \in Modes
    /\ buffer = [k \in Slots |-> Blank]
    /\ video = [w \in 0 .. config.height * config.pitch - 1 |-> Leftover]
    /\ cursor_x = 0 /\ cursor_y = 0
    /\ overran = FALSE

(* The memmove of line 1641: every row but the first moves up by one, the  *)
(* last one stays where it is as well.                                     *)
MovedUpShort(b) ==      \* plausible bug: a row too few is moved
    [k \in Slots |-> IF k < (BufRows - 2) * BufCols THEN b[k + BufCols] ELSE b[k]]

MovedUp(b) ==
    [k \in Slots |-> IF k < (BufRows - 1) * BufCols THEN b[k + BufCols] ELSE b[k]]

InBuffer == Slot(rows - 1, cols - 1) \in Slots

(* Lines 1642-1648: the whole screen is drawn again from the buffer.       *)
RedrawBelow(b) ==       \* plausible bug: the first row is left as it was
    Drawn([c \in {c \in Cells : c[1] > 0} |-> Glyph(b[Slot(c[1], c[2])])])

Redraw(b) == Drawn([c \in Cells |-> Glyph(b[Slot(c[1], c[2])])])

NotWrapped(cx) == cx    \* plausible bug: the column is not reset

Wrapped(cx) == IF cx >= cols THEN 0 ELSE cx

(* Lines 1634-1650: what follows every character, given the buffer b, the  *)
(* framebuffer v and the cursor <<cy, cx>> it has left.                    *)
Settle(b, v, cy, cx) ==
    /\ cursor_x' = Wrapped(cx)
    /\ LET line == IF cx >= cols THEN cy + 1 ELSE cy
       IN  IF line < rows
           THEN /\ buffer' = b /\ video' = v /\ cursor_y' = line
                /\ UNCHANGED overran
           ELSE /\ buffer' = MovedUp(b)
                /\ IF InBuffer THEN video' = Redraw(buffer') /\ UNCHANGED overran
                               ELSE video' = v /\ overran' = TRUE
                /\ cursor_y' = line - 1
    /\ UNCHANGED config

CarriageReturn == ~overran /\ CR \in Chars /\ Settle(buffer, video, cursor_y, 0)

LineFeed == ~overran /\ LF \in Chars /\ Settle(buffer, video, cursor_y + 1, cursor_x)

(* Lines 1627-1631.                                                        *)
PutChar(ch) ==
    /\ ~overran
    /\ Slot(cursor_y, cursor_x) \in Slots
    /\ Settle([buffer EXCEPT ![Slot(cursor_y, cursor_x)] = ch],
              Drawn([c \in {<<cursor_y, cursor_x>>} |-> Glyph(ch)]),
              cursor_y, cursor_x + 1)

(* No line compares the cursor with the size of the buffer.                *)
PutCharOverruns ==
    /\ ~overran
    /\ Slot(cursor_y, cursor_x) \notin Slots
    /\ overran' = TRUE
    /\ UNCHANGED <<config, buffer, video, cursor_x, cursor_y>>

(* clear: exported by console.h, called nowhere; the cursor stays.         *)
Clear ==
    /\ ~overran
    /\ buffer' = [k \in Slots |-> Blank]
    /\ video' = [w \in DOMAIN video |-> Dark]
    /\ UNCHANGED <<config, cursor_x, cursor_y, overran>>

Next ==
    \/ CarriageReturn \/ LineFeed \/ Clear \/ PutCharOverruns
    \/ \E ch \in Chars \ {CR, LF} : PutChar(ch)

Spec == Init /\ [][Next]_vars
----------------------------------------------------------------------------
(* Properties *)

(* Types, and a cursor that is always on the screen (console.c:1570-1574,  *)
(* 1634-1650). *)
TypeOK ==
    /\ config \in Modes
    /\ buffer \in [Slots -> Chars \cup {Blank}]
    /\ video \in [0 .. config.height * config.pitch - 1 -> {Dark, Bright, Leftover}]
    /\ cursor_x \in 0 .. cols - 1 /\ cursor_y \in 0 .. rows - 1
    /\ overran \in BOOLEAN

(* The text on the screen, and the modes the buffer was made for. *)
View == [c \in Cells |-> buffer[Slot(c[1], c[2])]]
Fits == rows < BufRows /\ cols <= BufCols

(* How the screen reads the framebuffer.                                   *)
ScanOut(x, y) == video[y * config.pitch + x]

(* The picture is the text (console.c:1585-1629, 1641-1648): a cell shows  *)
(* the glyph of its character in the buffer as the font draws it, in       *)
(* squares of Scale pixels, or the firmware's picture where nothing was    *)
(* ever written.  It holds in every mode no larger than the buffer.        *)
ScreenShowsBuffer ==
    rows <= BufRows /\ cols <= BufCols =>
        \A c \in Cells :
            LET ch == buffer[Slot(c[1], c[2])]
                Shows(Of(_, _)) ==
                    \A x \in 0 .. CharWidth - 1, y \in Lines :
                        ScanOut(c[2] * CharWidth + x, c[1] * CharHeight + y) = Of(x, y)
                Ink(x, y) == IF x \div Scale \in Font[Glyph(ch)][y \div Scale]
                             THEN Bright ELSE Dark
            IN  Shows(Ink) \/ (ch = Blank /\ Shows(LAMBDA x, y : Leftover))

(* What does not belong to a cell - the rest of the screen to the right    *)
(* and below, and the end of the scan lines - keeps the firmware's picture *)
(* (console.c:1581-1607), until clear makes all of it dark.                *)
MarginsKept ==
    [][\A w \in DOMAIN video :
        LET x == w % config.pitch
            y == w \div config.pitch
        IN  ~ (x < cols * CharWidth /\ y < rows * CharHeight) =>
                video'[w] \in {video[w], Dark}
                /\ (video'[w] # video[w] => \A u \in DOMAIN video : video'[u] = Dark)]_vars

(* The console implements the grid of Teletype (console.c:1610-1652) in    *)
(* every mode that leaves a row of the buffer free: what is scrolled in is *)
(* blank, what is scrolled out is gone, and no row runs into the next.     *)
TT == INSTANCE Teletype WITH
          grid <- View,
          x <- cursor_x, y <- cursor_y
ImplementsTeletype ==
    (Fits => TT!Init) /\ [][Fits => TT!Next]_<<config, View, cursor_x, cursor_y>>

(* The buffer is left only in modes that are larger than it in a direction *)
(* (console.c:1628, 1641-1647).                                            *)
OverrunExplained == overran => rows > BufRows \/ cols > BufCols

(* No line is lost on its way up (console.c:1641): a step of the console   *)
(* leaves the text where it is, moves all of it up by one row, or clears   *)
(* it, except for the character at the cursor.  It holds as well in a mode *)
(* of as many rows as the buffer has, where the row that scrolls in is the *)
(* old last row and not a blank one.                                       *)
NoLineLost ==
    [][rows <= BufRows /\ cols <= BufCols =>
        LET Kept(d) == \A c \in Cells :
                LET from == <<c[1] + d, c[2]>>
                IN  from[1] < rows /\ from # <<cursor_y, cursor_x>> =>
                        View'[c] = View[from]
        IN  Kept(0) \/ Kept(1) \/ \A k \in Slots : buffer'[k] = Blank]_vars
=============================================================================
