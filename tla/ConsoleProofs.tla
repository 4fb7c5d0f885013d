---------------------------- MODULE ConsoleProofs --------------------------
(* Proofs about Console, for every buffer, font and set of modes.          *)
EXTENDS Console, TLAPS

(* Arithmetic that the provers need as lemmas.                             *)
LEMMA Division ==
    ASSUME NEW a \in Nat, NEW b \in Nat \ {0}
    PROVE  a \div b \in Nat /\ a % b \in 0 .. b - 1 /\ a = (a \div b) * b + (a % b)
  BY Z3

LEMMA DivisionIs ==
    ASSUME NEW a \in Nat, NEW b \in Nat \ {0}, NEW q \in Nat, NEW r \in 0 .. b - 1,
           a = q * b + r
    PROVE  a \div b = q /\ a % b = r
  BY Z3

LEMMA Rows ==
    ASSUME NEW p \in Nat, NEW q \in Nat, NEW b \in Nat, p < q
    PROVE  p * b + b <= q * b /\ p * b \in Nat /\ q * b \in Nat
  BY Z3

LEMMA CellSize == CharWidth \in Nat \ {0} /\ CharHeight \in Nat \ {0}
  <1>1. FontWidth \in Nat \ {0} /\ FontHeight \in Nat \ {0} /\ Scale \in Nat \ {0}
    BY ModesAssumption
  <1>2. \A a \in Nat \ {0}, b \in Nat \ {0} : a * b \in Nat \ {0}
    BY Z3
  <1>3. QED
    BY <1>1, <1>2 DEF CharWidth, CharHeight

LEMMA ScreenSize ==
    ASSUME config \in Modes
    PROVE  /\ rows \in Nat \ {0} /\ rows * CharHeight <= config.height
           /\ cols \in Nat \ {0} /\ cols * CharWidth <= config.width
           /\ config.width \in Nat /\ config.height \in Nat
           /\ config.pitch \in Nat \ {0} /\ config.width <= config.pitch
  <1>1. /\ CharWidth \in Nat \ {0} /\ CharHeight \in Nat \ {0} /\ config \in Mode
        /\ config.width >= CharWidth /\ config.height >= CharHeight
        /\ config.pitch >= config.width
    BY CellSize, ModesAssumption
  <1>2. config.width \in Nat /\ config.height \in Nat /\ config.pitch \in Nat
    BY <1>1 DEF Mode
  <1> HIDE DEF CharWidth, CharHeight
  <1>3. /\ rows \in Nat /\ config.height % CharHeight \in 0 .. CharHeight - 1
        /\ config.height = rows * CharHeight + (config.height % CharHeight)
    BY <1>1, <1>2, Division DEF rows
  <1>4. /\ cols \in Nat /\ config.width % CharWidth \in 0 .. CharWidth - 1
        /\ config.width = cols * CharWidth + (config.width % CharWidth)
    BY <1>1, <1>2, Division DEF cols
  <1> HIDE DEF rows, cols
  <1>5. rows # 0 /\ rows * CharHeight <= config.height
    <2>1. rows = 0 => rows * CharHeight = 0
      BY <1>1
    <2>2. rows * CharHeight \in Nat
      BY <1>1, <1>3
    <2>3. QED
      BY <1>1, <1>2, <1>3, <2>1, <2>2
  <1>6. cols # 0 /\ cols * CharWidth <= config.width
    <2>1. cols = 0 => cols * CharWidth = 0
      BY <1>1
    <2>2. cols * CharWidth \in Nat
      BY <1>1, <1>4
    <2>3. QED
      BY <1>1, <1>2, <1>4, <2>1, <2>2
  <1>7. QED
    BY <1>1, <1>2, <1>3, <1>4, <1>5, <1>6

(* Rows of the buffer do not overlap, and those the screen shows lie in it *)
(* when it is no larger.                                                   *)
LEMMA SlotInBuffer ==
    ASSUME NEW r \in 0 .. BufRows - 1, NEW c \in 0 .. BufCols - 1
    PROVE  Slot(r, c) \in Slots
  <1>1. r * BufCols + BufCols <= BufRows * BufCols /\ r * BufCols \in Nat
    BY BufferAssumption, Rows
  <1>2. QED
    BY <1>1, BufferAssumption DEF Slot, Slots

LEMMA SlotsDiffer ==
    ASSUME NEW r \in Nat, NEW c \in 0 .. BufCols - 1, NEW p \in Nat, NEW d \in 0 .. BufCols - 1,
           Slot(r, c) = Slot(p, d)
    PROVE  r = p /\ c = d
  <1>1. Slot(r, c) \in Nat
    BY BufferAssumption DEF Slot
  <1>2. Slot(r, c) \div BufCols = r /\ Slot(r, c) % BufCols = c
    BY <1>1, BufferAssumption, DivisionIs DEF Slot
  <1>3. Slot(r, c) \div BufCols = p /\ Slot(r, c) % BufCols = d
    BY <1>1, BufferAssumption, DivisionIs DEF Slot
  <1>4. QED
    BY <1>2, <1>3

-----------------------------------------------------------------------------
Pictures == [0 .. config.height * config.pitch - 1 -> {Dark, Bright, Leftover}]
Texts    == [Slots -> Chars \cup {Blank}]

LEMMA DrawnIsPicture ==
    ASSUME video \in Pictures, NEW picture
    PROVE  Drawn(picture) \in Pictures
  <1>1. \A g, x, y : Pixel(g, x, y) \in {Dark, Bright, Leftover}
    BY DEF Pixel
  <1> HIDE DEF Pixel
  <1>2. QED
    BY <1>1 DEF Drawn, Pictures

LEMMA MovedUpIsText ==
    ASSUME NEW b \in Texts
    PROVE  MovedUp(b) \in Texts
  <1>1. (BufRows - 1) * BufCols + BufCols = BufRows * BufCols /\ BufRows * BufCols \in Nat
    BY BufferAssumption
  <1>2. \A k \in Slots : k < (BufRows - 1) * BufCols => k + BufCols \in Slots
    BY <1>1, BufferAssumption DEF Slots
  <1>3. QED
    BY <1>2 DEF MovedUp, Texts

(* Where a character may leave the cursor before the console settles it.   *)
Settling(b, v, cy, cx) ==
    /\ b \in Texts /\ v \in Pictures
    /\ cy \in 0 .. rows /\ cx \in 0 .. cols
    /\ cx >= cols => cy < rows

LEMMA SettleTyped ==
    ASSUME TypeOK, NEW b, NEW v, NEW cy, NEW cx, Settling(b, v, cy, cx), Settle(b, v, cy, cx)
    PROVE  TypeOK'
  <1>1. config' = config /\ rows' = rows /\ cols' = cols
    BY DEF Settle, rows, cols
  <1>2. rows \in Nat \ {0} /\ cols \in Nat \ {0} /\ config \in Modes
    BY ScreenSize DEF TypeOK
  <1>3. MovedUp(b) \in Texts /\ (\A g : Drawn(g) \in Pictures)
    BY MovedUpIsText, DrawnIsPicture DEF Settling, TypeOK, Pictures
  <1> HIDE DEF rows, cols
  <1>4. cursor_x' \in 0 .. cols - 1
    BY <1>2 DEF Settle, Wrapped, Settling
  <1>5. cursor_y' \in 0 .. rows - 1
    BY <1>2 DEF Settle, Settling
  <1>6. buffer' \in Texts
    BY <1>3 DEF Settle, Settling
  <1>7. video' \in Pictures
    BY <1>3 DEF Settle, Settling, Redraw
  <1>8. overran' \in BOOLEAN
    BY DEF Settle, TypeOK
  <1>9. QED
    BY <1>1, <1>2, <1>4, <1>5, <1>6, <1>7, <1>8 DEF TypeOK, Texts, Pictures

(* The overrun, and the rows of the buffer below the screen: they are      *)
(* blank as long as the screen leaves one of them free, since what scrolls *)
(* in is then blank.                                                       *)
SparesBlank(b) == Fits => \A k \in Slots : k >= rows * BufCols => b[k] = Blank

ConsoleInv == TypeOK /\ OverrunExplained /\ SparesBlank(buffer)

(* What every action of the cursor comes to: it puts a character or not,   *)
(* and settles.                                                            *)
LEMMA SettleKeeps ==
    ASSUME TypeOK, NEW b, NEW v, NEW cy, NEW cx, Settling(b, v, cy, cx), Settle(b, v, cy, cx),
           SparesBlank(b), OverrunExplained
    PROVE  ConsoleInv'
  <1>1. TypeOK'
    BY SettleTyped
  <1>2. config' = config /\ rows' = rows /\ cols' = cols /\ (Fits' <=> Fits)
    BY DEF Settle, rows, cols, Fits
  <1>3. rows \in Nat \ {0} /\ cols \in Nat \ {0} /\ BufCols \in Nat \ {0} /\ BufRows \in Nat \ {0}
    BY ScreenSize, BufferAssumption DEF TypeOK
  <1> HIDE DEF rows, cols
  <1>4. OverrunExplained'
    <2>1. CASE rows > BufRows \/ cols > BufCols
      BY <1>2, <2>1 DEF OverrunExplained
    <2>2. CASE rows <= BufRows /\ cols <= BufCols
      <3>1. rows - 1 \in 0 .. BufRows - 1 /\ cols - 1 \in 0 .. BufCols - 1
        BY <1>3, <2>2
      <3>2. InBuffer
        BY <3>1, SlotInBuffer DEF InBuffer
      <3>3. overran' = overran
        BY <3>2 DEF Settle
      <3>4. QED
        BY <1>2, <3>3 DEF OverrunExplained
    <2>3. QED
      BY <1>3, <2>1, <2>2
  <1>5. SparesBlank(buffer)'
    <2> SUFFICES ASSUME Fits, NEW k \in Slots, k >= rows * BufCols PROVE buffer'[k] = Blank
      BY <1>2 DEF SparesBlank
    <2>1. b[k] = Blank
      BY DEF SparesBlank
    <2>2. CASE buffer' = b
      BY <2>1, <2>2
    <2>3. CASE buffer' = MovedUp(b)
      <3>1. CASE k < (BufRows - 1) * BufCols
        <4>1. (BufRows - 1) * BufCols + BufCols = BufRows * BufCols /\ rows * BufCols \in Nat
              /\ BufRows * BufCols \in Nat
          BY <1>3
        <4>2. k + BufCols \in Slots /\ k + BufCols >= rows * BufCols
          BY <1>3, <3>1, <4>1 DEF Slots
        <4>3. b[k + BufCols] = Blank
          BY <4>2 DEF SparesBlank
        <4>4. QED
          BY <2>3, <3>1, <4>3 DEF MovedUp
      <3>2. CASE ~(k < (BufRows - 1) * BufCols)
        BY <2>1, <2>3, <3>2 DEF MovedUp
      <3>3. QED
        BY <3>1, <3>2
    <2>4. QED
      BY <2>2, <2>3 DEF Settle
  <1>6. QED
    BY <1>1, <1>4, <1>5 DEF ConsoleInv

(* The character at the cursor.                                            *)
Put(ch)  == [buffer EXCEPT ![Slot(cursor_y, cursor_x)] = ch]
PutOn(ch) == Drawn([c \in {<<cursor_y, cursor_x>>} |-> Glyph(ch)])

LEMMA ActionsSettle ==
    ASSUME ConsoleInv
    PROVE  /\ Settling(buffer, video, cursor_y, 0) /\ SparesBlank(buffer)
           /\ Settling(buffer, video, cursor_y + 1, cursor_x)
           /\ \A ch \in Chars : Slot(cursor_y, cursor_x) \in Slots =>
                  Settling(Put(ch), PutOn(ch), cursor_y, cursor_x + 1) /\ SparesBlank(Put(ch))
  <1>1. /\ rows \in Nat \ {0} /\ cols \in Nat \ {0} /\ BufCols \in Nat \ {0}
        /\ cursor_x \in 0 .. cols - 1 /\ cursor_y \in 0 .. rows - 1
        /\ buffer \in Texts /\ video \in Pictures
    BY ScreenSize, BufferAssumption DEF ConsoleInv, TypeOK, Texts, Pictures
  <1> HIDE DEF rows, cols
  <1>2. ASSUME NEW ch \in Chars, Slot(cursor_y, cursor_x) \in Slots
        PROVE  Settling(Put(ch), PutOn(ch), cursor_y, cursor_x + 1) /\ SparesBlank(Put(ch))
    <2>1. Put(ch) \in Texts
      BY <1>1 DEF Put, Texts
    <2>2. PutOn(ch) \in Pictures
      BY <1>1, DrawnIsPicture DEF PutOn
    <2>3. ASSUME Fits PROVE Slot(cursor_y, cursor_x) < rows * BufCols
      <3>1. cursor_y * BufCols + BufCols <= rows * BufCols /\ cursor_y * BufCols \in Nat
            /\ rows * BufCols \in Nat
        BY <1>1, Rows
      <3>2. QED
        BY <1>1, <2>3, <3>1, BufferAssumption DEF Slot, Fits
    <2>4. SparesBlank(Put(ch))
      <3> SUFFICES ASSUME Fits, NEW k \in Slots, k >= rows * BufCols PROVE Put(ch)[k] = Blank
        BY DEF SparesBlank
      <3>1. k # Slot(cursor_y, cursor_x) /\ buffer[k] = Blank
        <4>1. rows * BufCols \in Int /\ k \in Int /\ Slot(cursor_y, cursor_x) \in Int
          BY <1>1, <1>2 DEF Slots
        <4>2. QED
          BY <2>3, <4>1 DEF ConsoleInv, SparesBlank
      <3>2. QED
        BY <1>1, <3>1 DEF Put, Texts
    <2>5. QED
      BY <1>1, <2>1, <2>2, <2>4 DEF Settling
  <1>3. QED
    BY <1>1, <1>2 DEF Settling, ConsoleInv

LEMMA ConsoleInit == Init => ConsoleInv
  <1> SUFFICES ASSUME Init PROVE ConsoleInv
    OBVIOUS
  <1>1. rows \in Nat \ {0} /\ cols \in Nat \ {0}
    BY ScreenSize DEF Init
  <1> HIDE DEF rows, cols
  <1>2. TypeOK
    <2>1. config \in Modes /\ overran \in BOOLEAN
      BY DEF Init
    <2>5. cursor_x \in 0 .. cols - 1 /\ cursor_y \in 0 .. rows - 1
      BY <1>1 DEF Init
    <2>2. buffer \in Texts
      BY DEF Init, Texts
    <2>3. video \in Pictures
      BY DEF Init, Pictures
    <2>4. QED
      BY <2>1, <2>2, <2>3, <2>5 DEF TypeOK, Texts, Pictures
  <1>3. QED
    BY <1>2 DEF Init, ConsoleInv, OverrunExplained, SparesBlank

LEMMA ConsoleStep == ConsoleInv /\ [Next]_vars => ConsoleInv'
  <1> SUFFICES ASSUME ConsoleInv, [Next]_vars PROVE ConsoleInv'
    OBVIOUS
  <1>1. TypeOK /\ OverrunExplained
    BY DEF ConsoleInv
  <1>2. CASE CarriageReturn
    BY <1>1, <1>2, ActionsSettle, SettleKeeps DEF CarriageReturn
  <1>3. CASE LineFeed
    BY <1>1, <1>3, ActionsSettle, SettleKeeps DEF LineFeed
  <1>4. ASSUME NEW ch \in Chars \ {CR, LF}, PutChar(ch) PROVE ConsoleInv'
    <2>1. /\ Settle(Put(ch), PutOn(ch), cursor_y, cursor_x + 1)
          /\ Slot(cursor_y, cursor_x) \in Slots
      BY <1>4 DEF PutChar, Put, PutOn
    <2>2. Settling(Put(ch), PutOn(ch), cursor_y, cursor_x + 1) /\ SparesBlank(Put(ch))
      BY <2>1, ActionsSettle
    <2>3. QED
      BY <1>1, <2>1, <2>2, SettleKeeps
  <1>5. CASE PutCharOverruns
    <2>1. UNCHANGED <<config, buffer, video, cursor_x, cursor_y>> /\ overran' = TRUE
      BY <1>5 DEF PutCharOverruns
    <2>2. TypeOK'
      BY <1>1, <2>1 DEF TypeOK, rows, cols
    <2>3. rows > BufRows \/ cols > BufCols
      <3>1. rows \in Nat \ {0} /\ cols \in Nat \ {0} /\ BufCols \in Nat \ {0} /\ BufRows \in Nat \ {0}
            /\ cursor_x \in 0 .. cols - 1 /\ cursor_y \in 0 .. rows - 1
        BY <1>1, ScreenSize, BufferAssumption DEF TypeOK
      <3> HIDE DEF rows, cols
      <3>2. ASSUME rows <= BufRows, cols <= BufCols PROVE FALSE
        <4>1. cursor_y \in 0 .. BufRows - 1 /\ cursor_x \in 0 .. BufCols - 1
          BY <3>1, <3>2
        <4>2. QED
          BY <1>5, <4>1, SlotInBuffer DEF PutCharOverruns
      <3>3. QED
        BY <3>1, <3>2
    <2>4. QED
      BY <2>1, <2>2, <2>3 DEF ConsoleInv, OverrunExplained, SparesBlank, Fits, rows, cols
  <1>6. CASE Clear
    <2>1. /\ buffer' = [k \in Slots |-> Blank] /\ UNCHANGED <<config, cursor_x, cursor_y, overran>>
          /\ video' = [w \in DOMAIN video |-> Dark]
      BY <1>6 DEF Clear
    <2>2. TypeOK'
      BY <1>1, <2>1 DEF TypeOK, rows, cols
    <2>3. QED
      BY <1>1, <2>1, <2>2 DEF ConsoleInv, OverrunExplained, SparesBlank, Fits, rows, cols
  <1>7. CASE UNCHANGED vars
    BY <1>7 DEF vars, ConsoleInv, TypeOK, OverrunExplained, SparesBlank, Fits, rows, cols
  <1>8. QED
    BY <1>2, <1>3, <1>4, <1>5, <1>6, <1>7 DEF Next

(* The cursor stays on the screen, the buffer is left only when the screen *)
(* is larger, and its spare rows are blank (console.c:1610-1652).          *)
LEMMA ConsoleAlways == Spec => []ConsoleInv
  BY ConsoleInit, ConsoleStep, PTL DEF Spec

(* The cursor never leaves the screen (console.c:1634-1650), whatever the  *)
(* firmware's mode and the buffer's size are.                              *)
THEOREM CursorOnScreen == Spec => []TypeOK
  <1>1. ConsoleInv => TypeOK
    BY DEF ConsoleInv
  <1>2. QED
    BY <1>1, ConsoleAlways, PTL

(* The buffer is left only in modes that are larger than it in a direction *)
(* (console.c:1628, 1641-1647).                                            *)
THEOREM OverrunsOnlyWhenLarger == Spec => []OverrunExplained
  <1>1. ConsoleInv => OverrunExplained
    BY DEF ConsoleInv
  <1>2. QED
    BY <1>1, ConsoleAlways, PTL

-----------------------------------------------------------------------------
(* The text on the screen after a step.                                    *)
LEMMA SameScreen ==
    ASSUME config' = config
    PROVE  /\ rows' = rows /\ cols' = cols /\ Cells' = Cells
           /\ View' = [c \in Cells |-> buffer'[Slot(c[1], c[2])]]
  BY DEF rows, cols, Cells, View, Slot

SmallEnough == rows <= BufRows /\ cols <= BufCols

(* A cell and its slot.                                                    *)
LEMMA CellSlots ==
    ASSUME ConsoleInv, SmallEnough, NEW c \in Cells
    PROVE  /\ c = <<c[1], c[2]>> /\ c[1] \in 0 .. rows - 1 /\ c[2] \in 0 .. cols - 1
           /\ c[1] \in 0 .. BufRows - 1 /\ c[2] \in 0 .. BufCols - 1
           /\ Slot(c[1], c[2]) \in Slots /\ View[c] = buffer[Slot(c[1], c[2])]
  <1>1. rows \in Nat \ {0} /\ cols \in Nat \ {0} /\ BufCols \in Nat \ {0} /\ BufRows \in Nat \ {0}
    BY ScreenSize, BufferAssumption DEF TypeOK, ConsoleInv
  <1> HIDE DEF rows, cols
  <1>2. /\ c = <<c[1], c[2]>> /\ c[1] \in 0 .. rows - 1 /\ c[2] \in 0 .. cols - 1
        /\ c[1] \in 0 .. BufRows - 1 /\ c[2] \in 0 .. BufCols - 1
    BY <1>1 DEF Cells, SmallEnough
  <1>3. Slot(c[1], c[2]) \in Slots
    BY <1>2, SlotInBuffer
  <1>4. QED
    BY <1>2, <1>3 DEF View

(* What moves up on the screen when the buffer does.                       *)
LEMMA MovedUpOnScreen ==
    ASSUME ConsoleInv, SmallEnough, NEW b \in Texts, NEW c \in Cells
    PROVE  /\ c[1] + 1 < rows =>
                  /\ <<c[1] + 1, c[2]>> \in Cells
                  /\ MovedUp(b)[Slot(c[1], c[2])] = b[Slot(c[1] + 1, c[2])]
           /\ c[1] + 1 >= rows /\ Fits /\ SparesBlank(b) =>
                  MovedUp(b)[Slot(c[1], c[2])] = Blank
  <1>1. /\ rows \in Nat \ {0} /\ cols \in Nat \ {0} /\ BufCols \in Nat \ {0} /\ BufRows \in Nat \ {0}
        /\ rows <= BufRows /\ cols <= BufCols
    BY ScreenSize, BufferAssumption DEF TypeOK, ConsoleInv, SmallEnough
  <1>2. /\ c = <<c[1], c[2]>> /\ c[1] \in 0 .. rows - 1 /\ c[2] \in 0 .. cols - 1
        /\ c[1] \in 0 .. BufRows - 1 /\ c[2] \in 0 .. BufCols - 1
        /\ Slot(c[1], c[2]) \in Slots
    BY CellSlots
  <1> HIDE DEF rows, cols
  <1> DEFINE k == Slot(c[1], c[2])
  <1>3. k + BufCols = Slot(c[1] + 1, c[2]) /\ k \in Nat
    <2>1. (c[1] + 1) * BufCols = c[1] * BufCols + BufCols /\ c[1] * BufCols \in Nat
      BY <1>1, <1>2
    <2>2. QED
      BY <1>1, <1>2, <2>1 DEF Slot
  <1>4. MovedUp(b)[k] = IF k < (BufRows - 1) * BufCols THEN b[Slot(c[1] + 1, c[2])] ELSE b[k]
    BY <1>2, <1>3 DEF MovedUp
  <1>5. c[1] < BufRows - 1 => k < (BufRows - 1) * BufCols
    <2> SUFFICES ASSUME c[1] < BufRows - 1 PROVE k < (BufRows - 1) * BufCols
      OBVIOUS
    <2>1. c[1] * BufCols + BufCols <= (BufRows - 1) * BufCols /\ c[1] * BufCols \in Nat
          /\ (BufRows - 1) * BufCols \in Nat
      BY <1>1, <1>2, Rows
    <2>2. QED
      BY <1>1, <1>2, <2>1 DEF Slot
  <1>6. ASSUME c[1] + 1 < rows
        PROVE  <<c[1] + 1, c[2]>> \in Cells /\ MovedUp(b)[k] = b[Slot(c[1] + 1, c[2])]
    <2>1. c[1] < BufRows - 1
      BY <1>1, <1>2, <1>6
    <2>2. <<c[1] + 1, c[2]>> \in Cells
      BY <1>1, <1>2, <1>6 DEF Cells
    <2>3. QED
      BY <1>4, <1>5, <2>1, <2>2
  <1>7. ASSUME c[1] + 1 >= rows, Fits, SparesBlank(b)
        PROVE  MovedUp(b)[k] = Blank
    <2>1. c[1] + 1 = rows /\ c[1] < BufRows - 1 /\ rows \in 0 .. BufRows - 1
      BY <1>1, <1>2, <1>7 DEF Fits
    <2>2. Slot(rows, c[2]) \in Slots
      BY <1>2, <2>1, SlotInBuffer
    <2>3. Slot(rows, c[2]) >= rows * BufCols
      <3>1. rows * BufCols \in Nat
        BY <1>1
      <3>2. QED
        BY <1>2, <3>1 DEF Slot
    <2>4. b[Slot(rows, c[2])] = Blank
      BY <1>7, <2>2, <2>3 DEF SparesBlank
    <2>5. QED
      BY <1>4, <1>5, <2>1, <2>4
  <1>8. QED
    BY <1>6, <1>7

(* What a character changes on the screen.                                 *)
LEMMA PutOnScreen ==
    ASSUME ConsoleInv, SmallEnough, NEW ch \in Chars
    PROVE  /\ <<cursor_y, cursor_x>> \in Cells
           /\ \A c \in Cells : Put(ch)[Slot(c[1], c[2])] =
                  IF c = <<cursor_y, cursor_x>> THEN ch ELSE View[c]
  <1>1. <<cursor_y, cursor_x>> \in Cells /\ buffer \in Texts
    BY DEF ConsoleInv, TypeOK, Cells, Texts
  <1>2. ASSUME NEW c \in Cells
        PROVE  Put(ch)[Slot(c[1], c[2])] = IF c = <<cursor_y, cursor_x>> THEN ch ELSE View[c]
    <2>1. Slot(c[1], c[2]) \in Slots /\ View[c] = buffer[Slot(c[1], c[2])]
          /\ c = <<c[1], c[2]>> /\ c[1] \in 0 .. BufRows - 1 /\ c[2] \in 0 .. BufCols - 1
      BY CellSlots
    <2>2. cursor_y \in 0 .. BufRows - 1 /\ cursor_x \in 0 .. BufCols - 1
      BY <1>1, CellSlots
    <2>3. Slot(c[1], c[2]) = Slot(cursor_y, cursor_x) => c = <<cursor_y, cursor_x>>
      BY <2>1, <2>2, SlotsDiffer, BufferAssumption
    <2>4. QED
      BY <1>1, <2>1, <2>3 DEF Put, Texts
  <1>3. QED
    BY <1>1, <1>2

Screen(b) == [c \in Cells |-> b[Slot(c[1], c[2])]]

LEMMA SettleOnScreen ==
    ASSUME ConsoleInv, NEW b, NEW v, NEW cy \in Nat, NEW cx \in Nat, Settle(b, v, cy, cx)
    PROVE  LET line == IF cx >= cols THEN cy + 1 ELSE cy
           IN  /\ config' = config /\ rows' = rows /\ cols' = cols
               /\ cursor_x' = IF cx >= cols THEN 0 ELSE cx
               /\ line < rows => View' = Screen(b) /\ cursor_y' = line
               /\ line >= rows => View' = Screen(MovedUp(b)) /\ cursor_y' = line - 1
  <1>1. rows \in Nat \ {0} /\ cols \in Nat \ {0}
    BY ScreenSize DEF TypeOK, ConsoleInv
  <1>2. config' = config /\ View' = Screen(buffer') /\ rows' = rows /\ cols' = cols
    BY SameScreen DEF Settle, Screen
  <1> HIDE DEF rows, cols, View
  <1>3. CASE cx >= cols
    BY <1>1, <1>2, <1>3 DEF Settle, Wrapped
  <1>4. CASE cx < cols
    BY <1>1, <1>2, <1>4 DEF Settle, Wrapped
  <1>5. QED
    BY <1>1, <1>3, <1>4

(* The screen is that of the teletype.                                     *)
LEMMA ScrolledOnScreen ==
    ASSUME ConsoleInv, Fits, NEW b \in Texts, SparesBlank(b)
    PROVE  Screen(MovedUp(b)) = TT!Scrolled(Screen(b))
  <1>1. rows \in Nat \ {0} /\ cols \in Nat \ {0} /\ SmallEnough
    BY ScreenSize, BufferAssumption DEF TypeOK, ConsoleInv, Fits, SmallEnough
  <1> HIDE DEF rows, cols
  <1>2. ASSUME NEW c \in Cells
        PROVE  MovedUp(b)[Slot(c[1], c[2])]
                   = IF c[1] < rows - 1 THEN Screen(b)[<<c[1] + 1, c[2]>>] ELSE Blank
    <2>1. c[1] \in 0 .. rows - 1
      BY <1>1, CellSlots
    <2>2. CASE c[1] < rows - 1
      BY <1>1, <2>1, <2>2, MovedUpOnScreen DEF Screen
    <2>3. CASE c[1] >= rows - 1
      BY <1>1, <2>1, <2>3, MovedUpOnScreen
    <2>4. QED
      BY <1>1, <2>1, <2>2, <2>3
  <1>3. QED
    BY <1>2 DEF Screen, TT!Scrolled, TT!Cells, Cells

LEMMA PutIsTyped ==
    ASSUME ConsoleInv, SmallEnough, NEW ch \in Chars
    PROVE  Screen(Put(ch)) = [View EXCEPT ![<<cursor_y, cursor_x>>] = ch]
  BY PutOnScreen DEF Screen, View

LEMMA StepImplements ==
    ASSUME ConsoleInv, Next, Fits
    PROVE  TT!Next \/ UNCHANGED <<config, View, cursor_x, cursor_y>>
  <1>1. /\ rows \in Nat \ {0} /\ cols \in Nat \ {0} /\ SmallEnough
        /\ cursor_x \in 0 .. cols - 1 /\ cursor_y \in 0 .. rows - 1
        /\ cursor_x \in Nat /\ cursor_y \in Nat /\ buffer \in Texts /\ SparesBlank(buffer)
    <2>1. rows \in Nat \ {0} /\ cols \in Nat \ {0}
      BY ScreenSize DEF TypeOK, ConsoleInv
    <2>2. SmallEnough
      BY <2>1, BufferAssumption DEF Fits, SmallEnough
    <2>3. QED
      BY <2>1, <2>2 DEF ConsoleInv, TypeOK, Texts
  <1>2. View = Screen(buffer)
    BY DEF View, Screen
  <1> HIDE DEF rows, cols, View
  <1>3. CASE CarriageReturn
    <2>1. /\ rows' = rows /\ cols' = cols /\ cursor_x' = 0 /\ cursor_y' = cursor_y
          /\ View' = View
      BY <1>1, <1>2, <1>3, SettleOnScreen DEF CarriageReturn
    <2>2. QED
      BY <2>1 DEF TT!Next, TT!CarriageReturn
  <1>4. CASE LineFeed
    <2>1. Settle(buffer, video, cursor_y + 1, cursor_x) /\ cursor_y + 1 \in Nat
      BY <1>1, <1>4 DEF LineFeed
    <2>2. /\ rows' = rows /\ cols' = cols /\ cursor_x' = cursor_x
          /\ cursor_y + 1 < rows => View' = View /\ cursor_y' = cursor_y + 1
          /\ cursor_y + 1 >= rows => View' = Screen(MovedUp(buffer)) /\ cursor_y' = cursor_y
      BY <1>1, <1>2, <2>1, SettleOnScreen
    <2>3. Screen(MovedUp(buffer)) = TT!Scrolled(View)
      BY <1>1, <1>2, ScrolledOnScreen
    <2>4. TT!NewLine(View)
      BY <1>1, <2>2, <2>3 DEF TT!NewLine
    <2>5. QED
      BY <2>2, <2>4 DEF TT!Next, TT!LineFeed
  <1>5. ASSUME NEW ch \in Chars \ {CR, LF}, PutChar(ch) PROVE TT!Next
    <2> DEFINE g == [View EXCEPT ![<<cursor_y, cursor_x>>] = ch]
    <2>1. /\ Settle(Put(ch), PutOn(ch), cursor_y, cursor_x + 1) /\ cursor_x + 1 \in Nat
          /\ Slot(cursor_y, cursor_x) \in Slots
      BY <1>1, <1>5 DEF PutChar, Put, PutOn
    <2>2. Put(ch) \in Texts /\ SparesBlank(Put(ch))
      BY <2>1, ActionsSettle DEF Settling
    <2>3. Screen(Put(ch)) = g
      BY <1>1, PutIsTyped
    <2>4. Screen(MovedUp(Put(ch))) = TT!Scrolled(g)
      BY <2>2, <2>3, ScrolledOnScreen
    <2> HIDE DEF g
    <2>5. CASE cursor_x < cols - 1
      <3>1. /\ rows' = rows /\ cols' = cols /\ cursor_x' = cursor_x + 1
            /\ cursor_y' = cursor_y /\ View' = g
        BY <1>1, <2>1, <2>3, <2>5, SettleOnScreen
      <3>2. TT!Type(ch)
        BY <2>5, <3>1 DEF TT!Type, g
      <3>3. QED
        BY <3>1, <3>2 DEF TT!Next
    <2>6. CASE cursor_x >= cols - 1
      <3>1. /\ rows' = rows /\ cols' = cols /\ cursor_x' = 0
            /\ cursor_y + 1 < rows => View' = g /\ cursor_y' = cursor_y + 1
            /\ cursor_y + 1 >= rows => View' = TT!Scrolled(g) /\ cursor_y' = cursor_y
        BY <1>1, <2>1, <2>3, <2>4, <2>6, SettleOnScreen
      <3>2. TT!NewLine(g)
        BY <1>1, <3>1 DEF TT!NewLine
      <3>3. TT!Type(ch)
        BY <1>1, <2>6, <3>1, <3>2 DEF TT!Type, g
      <3>4. QED
        BY <3>1, <3>3 DEF TT!Next
    <2>7. QED
      BY <1>1, <2>5, <2>6
  <1>6. CASE PutCharOverruns
    BY <1>6, SameScreen DEF PutCharOverruns, View
  <1>7. CASE Clear
    <2>1. /\ buffer' = [k \in Slots |-> Blank] /\ config' = config
          /\ cursor_x' = cursor_x /\ cursor_y' = cursor_y
      BY <1>7 DEF Clear
    <2>2. \A c \in Cells : Slot(c[1], c[2]) \in Slots
      BY <1>1, CellSlots
    <2>3. View' = [c \in Cells |-> Blank] /\ rows' = rows /\ cols' = cols
      BY <2>1, <2>2, SameScreen
    <2>4. TT!Erase
      BY <2>1, <2>3 DEF TT!Erase, TT!Cells, Cells
    <2>5. QED
      BY <2>3, <2>4 DEF TT!Next
  <1>8. QED
    BY <1>3, <1>4, <1>5, <1>6, <1>7 DEF Next

(* The console implements the teletype (console.c:1610-1652) in every mode *)
(* that leaves a row of the buffer free.                                   *)
THEOREM ConsoleIsTeletype == Spec => ImplementsTeletype
  <1>1. Init => (Fits => TT!Init)
    <2> SUFFICES ASSUME Init, Fits PROVE TT!Init
      OBVIOUS
    <2>1. SmallEnough /\ ConsoleInv
      BY ConsoleInit, ScreenSize, BufferAssumption DEF Init, Fits, SmallEnough
    <2>2. \A c \in Cells : Slot(c[1], c[2]) \in Slots
      BY <2>1, CellSlots
    <2>3. View = [c \in Cells |-> Blank]
      BY <2>2 DEF Init, View
    <2>4. QED
      BY <2>3 DEF Init, TT!Init, TT!Cells, Cells
  <1>2. ConsoleInv /\ [Next]_vars => [Fits => TT!Next]_<<config, View, cursor_x, cursor_y>>
    <2>1. ASSUME UNCHANGED vars PROVE UNCHANGED <<config, View, cursor_x, cursor_y>>
      BY <2>1, SameScreen DEF vars, View
    <2>2. QED
      BY <2>1, StepImplements
  <1>3. QED
    BY <1>1, <1>2, ConsoleAlways, PTL DEF Spec, ImplementsTeletype

-----------------------------------------------------------------------------
(* The screen, but for the cell at the cursor, stays or moves up by d rows.*)
KeptBy(d) ==
    \A c \in Cells :
        c[1] + d < rows /\ <<c[1] + d, c[2]>> # <<cursor_y, cursor_x>> =>
            View'[c] = View[<<c[1] + d, c[2]>>]

LEMMA SettleKeepsLines ==
    ASSUME ConsoleInv, SmallEnough, NEW b \in Texts, NEW v, NEW cy \in Nat, NEW cx \in Nat,
           Settle(b, v, cy, cx),
           \A c \in Cells : c # <<cursor_y, cursor_x>> => Screen(b)[c] = View[c]
    PROVE  KeptBy(0) \/ KeptBy(1)
  <1>1. View' = Screen(b) \/ View' = Screen(MovedUp(b))
    <2> DEFINE line == IF cx >= cols THEN cy + 1 ELSE cy
    <2>1. /\ line < rows => View' = Screen(b)
          /\ line >= rows => View' = Screen(MovedUp(b))
      BY SettleOnScreen
    <2>2. line \in Nat /\ rows \in Nat
      BY ScreenSize DEF ConsoleInv, TypeOK
    <2> HIDE DEF line, rows
    <2>3. line < rows \/ line >= rows
      BY ONLY <2>2
    <2>4. QED
      BY ONLY <2>1, <2>3
  <1>2. ASSUME NEW c \in Cells
        PROVE  c = <<c[1], c[2]>> /\ c[1] + 0 = c[1] /\ c[1] \in Nat
    BY CellSlots
  <1> HIDE DEF rows, cols, View
  <1>3. CASE View' = Screen(b)
    BY <1>2, <1>3 DEF KeptBy
  <1>4. CASE View' = Screen(MovedUp(b))
    <2> SUFFICES ASSUME NEW c \in Cells, c[1] + 1 < rows,
                        <<c[1] + 1, c[2]>> # <<cursor_y, cursor_x>>
                 PROVE  View'[c] = View[<<c[1] + 1, c[2]>>]
      BY DEF KeptBy
    <2>1. /\ <<c[1] + 1, c[2]>> \in Cells
          /\ MovedUp(b)[Slot(c[1], c[2])] = b[Slot(c[1] + 1, c[2])]
      BY MovedUpOnScreen
    <2>2. View'[c] = Screen(b)[<<c[1] + 1, c[2]>>]
      BY <1>4, <2>1 DEF Screen
    <2>3. QED
      BY <2>1, <2>2
  <1>5. QED
    BY <1>1, <1>3, <1>4

LEMMA StepKeepsLines ==
    ASSUME ConsoleInv, [Next]_vars, SmallEnough
    PROVE  KeptBy(0) \/ KeptBy(1) \/ \A k \in Slots : buffer'[k] = Blank
  <1>1. /\ cursor_x \in Nat /\ cursor_y \in Nat /\ cursor_x + 1 \in Nat /\ cursor_y + 1 \in Nat
        /\ buffer \in Texts
    BY ScreenSize DEF ConsoleInv, TypeOK, Texts
  <1>2. \A c \in Cells : Screen(buffer)[c] = View[c] /\ c = <<c[1] + 0, c[2]>>
    BY CellSlots DEF Screen
  <1>3. CASE CarriageReturn
    BY <1>1, <1>2, <1>3, SettleKeepsLines DEF CarriageReturn
  <1>4. CASE LineFeed
    BY <1>1, <1>2, <1>4, SettleKeepsLines DEF LineFeed
  <1>5. ASSUME NEW ch \in Chars \ {CR, LF}, PutChar(ch) PROVE KeptBy(0) \/ KeptBy(1)
    <2>1. /\ Settle(Put(ch), PutOn(ch), cursor_y, cursor_x + 1)
          /\ Slot(cursor_y, cursor_x) \in Slots
      BY <1>5 DEF PutChar, Put, PutOn
    <2>2. Put(ch) \in Texts
      BY <2>1, ActionsSettle DEF Settling
    <2>3. \A c \in Cells : c # <<cursor_y, cursor_x>> => Screen(Put(ch))[c] = View[c]
      BY PutOnScreen DEF Screen
    <2>4. QED
      BY <1>1, <2>1, <2>2, <2>3, SettleKeepsLines
  <1>6. CASE PutCharOverruns \/ UNCHANGED vars
    <2>1. View' = View
      BY <1>6, SameScreen DEF PutCharOverruns, vars, View
    <2>2. QED
      BY <1>2, <2>1 DEF KeptBy
  <1>7. CASE Clear
    BY <1>7 DEF Clear
  <1>8. QED
    BY <1>3, <1>4, <1>5, <1>6, <1>7 DEF Next

(* No line is lost on its way up (console.c:1641), in every mode no larger *)
(* than the buffer.                                                        *)
THEOREM LinesAreKept == Spec => NoLineLost
  <1>1. ConsoleInv /\ [Next]_vars =>
            [rows <= BufRows /\ cols <= BufCols =>
                LET Kept(d) == \A c \in Cells :
                        LET from == <<c[1] + d, c[2]>>
                        IN  from[1] < rows /\ from # <<cursor_y, cursor_x>> =>
                                View'[c] = View[from]
                IN  Kept(0) \/ Kept(1) \/ \A k \in Slots : buffer'[k] = Blank]_vars
    BY StepKeepsLines DEF SmallEnough, KeptBy
  <1>2. QED
    BY <1>1, ConsoleAlways, PTL DEF Spec, NoLineLost

-----------------------------------------------------------------------------
(* The words of a cell's lines belong to the cell.                         *)
InText(w) == w % config.pitch < cols * CharWidth /\ w \div config.pitch < rows * CharHeight

LEMMA WordsOfCell ==
    ASSUME config \in Modes, NEW c \in Cells, NEW y \in Lines, NEW w \in Nat,
           w - FirstWord(c, y) \in 0 .. CharWidth - 1
    PROVE  InText(w)
  <1> DEFINE d == w - FirstWord(c, y)
             q == c[1] * CharHeight + y
             x == c[2] * CharWidth + d
  <1>1. /\ CharWidth \in Nat \ {0} /\ CharHeight \in Nat \ {0}
        /\ c[1] \in Nat /\ c[1] < rows /\ c[2] \in Nat /\ c[2] < cols
        /\ rows \in Nat /\ cols \in Nat /\ cols * CharWidth <= config.pitch
        /\ config.pitch \in Nat \ {0}
    <2>1. CharWidth \in Nat \ {0} /\ CharHeight \in Nat \ {0}
      BY CellSize
    <2>2. /\ rows \in Nat /\ cols \in Nat /\ cols * CharWidth <= config.width
          /\ config.width \in Nat /\ config.pitch \in Nat \ {0} /\ config.width <= config.pitch
      BY ScreenSize
    <2> HIDE DEF rows, cols, CharWidth, CharHeight
    <2>3. cols * CharWidth \in Nat
      BY <2>1, <2>2
    <2>4. QED
      BY <2>1, <2>2, <2>3 DEF Cells
  <1> HIDE DEF rows, cols, CharWidth, CharHeight
  <1>2. /\ c[1] * CharHeight + CharHeight <= rows * CharHeight /\ c[1] * CharHeight \in Nat
        /\ c[2] * CharWidth + CharWidth <= cols * CharWidth /\ c[2] * CharWidth \in Nat
        /\ rows * CharHeight \in Nat /\ cols * CharWidth \in Nat
    BY <1>1, Rows
  <1>3. q \in Nat /\ q < rows * CharHeight
    BY <1>1, <1>2 DEF Lines
  <1>4. x \in Nat /\ x < cols * CharWidth
    BY <1>1, <1>2
  <1>5. FirstWord(c, y) = q * config.pitch + c[2] * CharWidth /\ q * config.pitch \in Nat
    BY <1>1, <1>3 DEF FirstWord, Word
  <1>6. w = q * config.pitch + x
    <2> HIDE DEF q
    <2>1. FirstWord(c, y) \in Nat
      BY <1>2, <1>5
    <2>2. QED
      BY <1>2, <1>5, <2>1
  <1> HIDE DEF q, x, d
  <1>7. x \in 0 .. config.pitch - 1
    BY <1>1, <1>2, <1>4
  <1>8. w \div config.pitch = q /\ w % config.pitch = x
    BY <1>1, <1>3, <1>6, <1>7, DivisionIs
  <1>9. QED
    BY <1>3, <1>4, <1>8 DEF InText

LEMMA DrawnKeepsMargins ==
    ASSUME TypeOK, NEW picture, DOMAIN picture \subseteq Cells,
           NEW w \in DOMAIN video, ~InText(w)
    PROVE  Drawn(picture)[w] = video[w]
  <1> DEFINE runs == {[at |-> FirstWord(c, y), glyph |-> picture[c], line |-> y] :
                         c \in DOMAIN picture, y \in Lines}
             hit == {r \in runs : w - r.at \in 0 .. CharWidth - 1}
  <1>1. w \in Nat /\ config \in Modes
    BY DEF TypeOK
  <1>2. \A c \in DOMAIN picture, y \in Lines : w - FirstWord(c, y) \notin 0 .. CharWidth - 1
    BY <1>1, WordsOfCell
  <1>3. \A r \in runs : \E c \in DOMAIN picture, y \in Lines : r.at = FirstWord(c, y)
    OBVIOUS
  <1>4. hit = {}
    <2> HIDE DEF runs
    <2>1. QED
      BY <1>2, <1>3
  <1>5. QED
    BY <1>4 DEF Drawn

LEMMA StepKeepsMargins ==
    ASSUME ConsoleInv, [Next]_vars, NEW w \in DOMAIN video, ~InText(w)
    PROVE  /\ video'[w] \in {video[w], Dark}
           /\ video'[w] # video[w] => \A u \in DOMAIN video : video'[u] = Dark
  <1>1. TypeOK /\ <<cursor_y, cursor_x>> \in Cells
    BY DEF ConsoleInv, TypeOK, Cells
  <1>2. \A b : Redraw(b)[w] = video[w]
    BY <1>1, DrawnKeepsMargins DEF Redraw
  <1>3. \A ch : PutOn(ch)[w] = video[w]
    BY <1>1, DrawnKeepsMargins DEF PutOn
  <1>4. ASSUME NEW b, NEW v, NEW cy, NEW cx, Settle(b, v, cy, cx), v[w] = video[w]
        PROVE  video'[w] = video[w]
    BY <1>2, <1>4 DEF Settle
  <1>5. CASE CarriageReturn \/ LineFeed
    BY <1>4, <1>5 DEF CarriageReturn, LineFeed
  <1>6. CASE \E ch \in Chars \ {CR, LF} : PutChar(ch)
    <2>1. PICK ch \in Chars \ {CR, LF} : PutChar(ch)
      BY <1>6
    <2>2. Settle(Put(ch), PutOn(ch), cursor_y, cursor_x + 1)
      BY <2>1 DEF PutChar, Put, PutOn
    <2>3. QED
      BY <1>3, <1>4, <2>2
  <1>7. CASE Clear
    BY <1>7 DEF Clear
  <1>8. CASE PutCharOverruns \/ UNCHANGED vars
    BY <1>8 DEF PutCharOverruns, vars
  <1>9. QED
    BY <1>5, <1>6, <1>7, <1>8 DEF Next

(* What does not belong to a cell keeps the firmware's picture             *)
(* (console.c:1581-1607), in every mode, until clear makes all of it dark. *)
THEOREM MarginsStay == Spec => MarginsKept
  <1>1. ConsoleInv /\ [Next]_vars =>
            [\A w \in DOMAIN video :
                LET x == w % config.pitch
                    y == w \div config.pitch
                IN  ~ (x < cols * CharWidth /\ y < rows * CharHeight) =>
                        video'[w] \in {video[w], Dark}
                        /\ (video'[w] # video[w] => \A u \in DOMAIN video : video'[u] = Dark)]_vars
    BY StepKeepsMargins DEF InText
  <1>2. QED
    BY <1>1, ConsoleAlways, PTL DEF Spec, MarginsKept

-----------------------------------------------------------------------------
(* A word belongs to one line of one cell only.                            *)
WordOf(c, x, y) == Word(c[2] * CharWidth + x, c[1] * CharHeight + y)

LEMMA WordInLine ==
    ASSUME config \in Modes, NEW c \in Cells, NEW x \in 0 .. CharWidth - 1, NEW y \in Lines
    PROVE  /\ WordOf(c, x, y) \in 0 .. config.height * config.pitch - 1
           /\ WordOf(c, x, y) - FirstWord(c, y) = x
           /\ WordOf(c, x, y) \div config.pitch = c[1] * CharHeight + y
           /\ WordOf(c, x, y) % config.pitch = c[2] * CharWidth + x
           /\ c[1] \in Nat /\ c[2] \in Nat /\ c = <<c[1], c[2]>>
  <1> DEFINE q == c[1] * CharHeight + y
             o == c[2] * CharWidth + x
             p == config.pitch
  <1>1. /\ CharWidth \in Nat \ {0} /\ CharHeight \in Nat \ {0}
        /\ c[1] \in Nat /\ c[1] < rows /\ c[2] \in Nat /\ c[2] < cols /\ c = <<c[1], c[2]>>
        /\ rows \in Nat /\ cols \in Nat
        /\ rows * CharHeight <= config.height /\ cols * CharWidth <= config.width
        /\ config.width <= p /\ config.width \in Nat /\ config.height \in Nat
        /\ p \in Nat \ {0}
    <2>1. /\ rows \in Nat \ {0} /\ rows * CharHeight <= config.height
          /\ cols \in Nat \ {0} /\ cols * CharWidth <= config.width
          /\ config.width \in Nat /\ config.height \in Nat
          /\ p \in Nat \ {0} /\ config.width <= p
      BY ScreenSize
    <2> HIDE DEF rows, cols
    <2>2. QED
      BY <2>1, CellSize DEF Cells
  <1> HIDE DEF rows, cols, CharWidth, CharHeight
  <1>2. /\ c[1] * CharHeight + CharHeight <= rows * CharHeight /\ c[1] * CharHeight \in Nat
        /\ c[2] * CharWidth + CharWidth <= cols * CharWidth /\ c[2] * CharWidth \in Nat
        /\ rows * CharHeight \in Nat /\ cols * CharWidth \in Nat
    BY <1>1, Rows
  <1>3. q \in Nat /\ q < config.height /\ o \in 0 .. p - 1
    BY <1>1, <1>2 DEF Lines
  <1>4. WordOf(c, x, y) = q * p + o /\ FirstWord(c, y) = q * p + c[2] * CharWidth
    BY DEF WordOf, FirstWord, Word
  <1> HIDE DEF q
  <1>5. q * p + p <= config.height * p /\ q * p \in Nat /\ config.height * p \in Nat
    BY <1>1, <1>3, Rows
  <1>6. WordOf(c, x, y) \in 0 .. config.height * p - 1 /\ WordOf(c, x, y) - FirstWord(c, y) = x
    BY <1>1, <1>2, <1>3, <1>4, <1>5
  <1>7. WordOf(c, x, y) \div p = q /\ WordOf(c, x, y) % p = o
    <2> HIDE DEF o, p
    <2>1. QED
      BY <1>1, <1>3, <1>4, <1>6, DivisionIs
  <1>8. QED
    BY <1>1, <1>6, <1>7 DEF q

LEMMA OneCellPerWord ==
    ASSUME config \in Modes,
           NEW c \in Cells, NEW x \in 0 .. CharWidth - 1, NEW y \in Lines,
           NEW d \in Cells, NEW z \in Lines,
           WordOf(c, x, y) - FirstWord(d, z) \in 0 .. CharWidth - 1
    PROVE  d = c /\ z = y
  <1> DEFINE u == WordOf(c, x, y) - FirstWord(d, z)
  <1>1. u \in 0 .. CharWidth - 1 /\ CharWidth \in Nat \ {0} /\ CharHeight \in Nat \ {0}
    BY CellSize
  <1> HIDE DEF u
  <1>2. /\ WordOf(d, u, z) \in Int /\ WordOf(d, u, z) - FirstWord(d, z) = u
        /\ WordOf(d, u, z) \div config.pitch = d[1] * CharHeight + z
        /\ WordOf(d, u, z) % config.pitch = d[2] * CharWidth + u
        /\ d[1] \in Nat /\ d[2] \in Nat /\ d = <<d[1], d[2]>>
    BY <1>1, WordInLine
  <1>3. /\ WordOf(c, x, y) \in Int
        /\ WordOf(c, x, y) \div config.pitch = c[1] * CharHeight + y
        /\ WordOf(c, x, y) % config.pitch = c[2] * CharWidth + x
        /\ c[1] \in Nat /\ c[2] \in Nat /\ c = <<c[1], c[2]>>
    BY WordInLine
  <1> HIDE DEF CharWidth, CharHeight
  <1>4. WordOf(d, u, z) = WordOf(c, x, y)
    <2>1. FirstWord(d, z) \in Int
      <3>1. config.pitch \in Nat
        BY ScreenSize
      <3>2. QED
        BY <1>1, <1>2, <3>1 DEF FirstWord, Word, Lines
    <2>2. QED
      BY <1>2, <1>3, <2>1 DEF u
  <1>5. y \in 0 .. CharHeight - 1 /\ z \in 0 .. CharHeight - 1
    BY DEF Lines
  <1>6. c[1] = d[1] /\ y = z
    <2>1. c[1] * CharHeight + y = d[1] * CharHeight + z /\ c[1] * CharHeight + y \in Nat
      BY <1>1, <1>2, <1>3, <1>4, <1>5
    <2>2. (c[1] * CharHeight + y) \div CharHeight = c[1] /\ (c[1] * CharHeight + y) % CharHeight = y
      BY <1>1, <1>3, <1>5, <2>1, DivisionIs
    <2>3. (c[1] * CharHeight + y) \div CharHeight = d[1] /\ (c[1] * CharHeight + y) % CharHeight = z
      BY <1>1, <1>2, <1>5, <2>1, DivisionIs
    <2>4. QED
      BY <2>2, <2>3
  <1>7. c[2] = d[2]
    <2>1. c[2] * CharWidth + x = d[2] * CharWidth + u /\ c[2] * CharWidth + x \in Nat
      BY <1>1, <1>2, <1>3, <1>4
    <2>2. (c[2] * CharWidth + x) \div CharWidth = c[2]
      BY <1>1, <1>3, <2>1, DivisionIs
    <2>3. (c[2] * CharWidth + x) \div CharWidth = d[2]
      BY <1>1, <1>2, <2>1, DivisionIs
    <2>4. QED
      BY <2>2, <2>3
  <1>8. QED
    BY <1>2, <1>3, <1>6, <1>7

(* put_char draws the cells of the picture and no other.                   *)
LEMMA DrawnCell ==
    ASSUME TypeOK, NEW picture, DOMAIN picture \subseteq Cells,
           NEW c \in Cells, NEW x \in 0 .. CharWidth - 1, NEW y \in Lines
    PROVE  Drawn(picture)[WordOf(c, x, y)] =
               IF c \in DOMAIN picture THEN Pixel(picture[c], x, y) ELSE video[WordOf(c, x, y)]
  <1> DEFINE w == WordOf(c, x, y)
             runs == {[at |-> FirstWord(e, z), glyph |-> picture[e], line |-> z] :
                         e \in DOMAIN picture, z \in Lines}
             hit == {r \in runs : w - r.at \in 0 .. CharWidth - 1}
             run == [at |-> FirstWord(c, y), glyph |-> picture[c], line |-> y]
  <1>1. config \in Modes /\ DOMAIN video = 0 .. config.height * config.pitch - 1
    BY DEF TypeOK
  <1>2. w \in DOMAIN video /\ w - FirstWord(c, y) = x
    BY <1>1, WordInLine
  <1>3. \A e \in DOMAIN picture, z \in Lines :
            w - FirstWord(e, z) \in 0 .. CharWidth - 1 => e = c /\ z = y
    BY <1>1, OneCellPerWord
  <1>4. \A r \in hit : c \in DOMAIN picture /\ r = run
    <2> SUFFICES ASSUME NEW r \in hit PROVE c \in DOMAIN picture /\ r = run
      OBVIOUS
    <2>1. PICK e \in DOMAIN picture, z \in Lines :
              r = [at |-> FirstWord(e, z), glyph |-> picture[e], line |-> z]
      OBVIOUS
    <2>2. w - FirstWord(e, z) \in 0 .. CharWidth - 1
      <3>1. r.at = FirstWord(e, z)
        BY <2>1
      <3>2. w - r.at \in 0 .. CharWidth - 1
        OBVIOUS
      <3>3. QED
        BY <3>1, <3>2
    <2>3. QED
      BY <1>3, <2>1, <2>2
  <1>5. c \in DOMAIN picture => run \in hit
    <2> SUFFICES ASSUME c \in DOMAIN picture PROVE run \in hit
      OBVIOUS
    <2>1. run \in runs
      OBVIOUS
    <2>2. w - run.at \in 0 .. CharWidth - 1
      BY <1>2
    <2>3. QED
      BY <2>1, <2>2
  <1>6. Drawn(picture)[w] = IF hit = {} THEN video[w]
                            ELSE LET r == CHOOSE r \in hit : TRUE
                                 IN  Pixel(r.glyph, w - r.at, r.line)
    BY <1>2 DEF Drawn
  <1>7. CASE c \in DOMAIN picture
    <2>1. hit = {run}
      BY <1>4, <1>5, <1>7
    <2> HIDE DEF hit
    <2>2. (CHOOSE r \in hit : TRUE) = run
      BY <2>1
    <2>3. run.glyph = picture[c] /\ run.at = FirstWord(c, y) /\ run.line = y
      OBVIOUS
    <2> HIDE DEF run
    <2>4. Drawn(picture)[w] = Pixel(run.glyph, w - run.at, run.line)
      BY <1>6, <2>1, <2>2
    <2>5. QED
      BY <1>2, <1>7, <2>3, <2>4
  <1>8. CASE c \notin DOMAIN picture
    <2>1. hit = {}
      BY <1>4, <1>8
    <2>2. QED
      BY <1>6, <1>8, <2>1
  <1>9. QED
    BY <1>7, <1>8

-----------------------------------------------------------------------------
(* The characters that are drawn, and a cell that shows one: as its glyph, *)
(* or as the firmware's picture where nothing was ever written.            *)
Drawable == (Chars \cup {Blank}) \ {CR, LF}

Shows(v, c, ch) ==
    \/ \A x \in 0 .. CharWidth - 1, y \in Lines : v[WordOf(c, x, y)] = Pixel(Glyph(ch), x, y)
    \/ ch = Blank /\ \A x \in 0 .. CharWidth - 1, y \in Lines : v[WordOf(c, x, y)] = Leftover

AllShown(b, v) == \A c \in Cells : Shows(v, c, b[Slot(c[1], c[2])])

ScreenInv ==
    /\ ConsoleInv
    /\ buffer \in [Slots -> Drawable]
    /\ SmallEnough => AllShown(buffer, video)

LEMMA PixelIsInk ==
    ASSUME NEW g \in DOMAIN Font, NEW x \in 0 .. CharWidth - 1, NEW y \in Lines
    PROVE  /\ y \div Scale \in 0 .. FontHeight - 1
           /\ Pixel(g, x, y) = IF x \div Scale \in Font[g][y \div Scale] THEN Bright ELSE Dark
  <1>1. FontWidth \in Nat \ {0} /\ FontHeight \in Nat \ {0} /\ Scale \in Nat \ {0}
    BY ModesAssumption
  <1>2. ASSUME NEW n \in Nat \ {0}, NEW a \in 0 .. n * Scale - 1
        PROVE  a \div Scale \in 0 .. n - 1
    <2>1. n * Scale \in Nat /\ a \in Nat
      <3>1. n * Scale \in Nat
        BY <1>1
      <3>2. QED
        BY <3>1
    <2>2. /\ a \in Nat /\ a \div Scale \in Nat /\ a % Scale \in 0 .. Scale - 1
          /\ a = (a \div Scale) * Scale + (a % Scale)
      BY <1>1, <2>1, Division
    <2>3. CASE n <= a \div Scale
      <3>1. n * Scale <= (a \div Scale) * Scale /\ (a \div Scale) * Scale \in Nat
        <4>1. CASE n = a \div Scale
          BY <1>1, <2>2, <4>1
        <4>2. CASE n < a \div Scale
          <5>1. n * Scale + Scale <= (a \div Scale) * Scale /\ (a \div Scale) * Scale \in Nat
            BY <1>1, <2>2, <4>2, Rows
          <5>2. QED
            BY <1>1, <2>1, <5>1
        <4>3. QED
          BY <2>2, <2>3, <4>1, <4>2
      <3>2. QED
        BY <2>1, <2>2, <3>1
    <2>4. QED
      BY <2>2, <2>3
  <1>3. x \div Scale \in 0 .. FontWidth - 1 /\ y \div Scale \in 0 .. FontHeight - 1
    BY <1>1, <1>2 DEF CharWidth, CharHeight, Lines
  <1>4. QED
    BY <1>3, MacrosAssumption DEF Pixel

LEMMA GlyphDrawn ==
    ASSUME NEW ch \in Drawable
    PROVE  Glyph(ch) \in DOMAIN Font
  BY FontAssumption DEF Drawable

LEMMA BlankIsDark ==
    ASSUME NEW x \in 0 .. CharWidth - 1, NEW y \in Lines
    PROVE  Pixel(Glyph(Blank), x, y) = Dark
  <1>1. Glyph(Blank) = Blank /\ Blank \in Drawable
    BY DEF Glyph, Blank, LastGlyph, Drawable, CR, LF
  <1>2. Blank \in DOMAIN Font
    BY <1>1, GlyphDrawn
  <1>3. y \div Scale \in 0 .. FontHeight - 1 /\ Font[Blank][y \div Scale] = {}
    BY <1>2, PixelIsInk, FontAssumption
  <1>4. QED
    BY <1>1, <1>2, <1>3, PixelIsInk

LEMMA ShownMeans == ASSUME ScreenInv PROVE ScreenShowsBuffer
  <1> SUFFICES ASSUME rows <= BufRows, cols <= BufCols, NEW c \in Cells
               PROVE  LET ch == buffer[Slot(c[1], c[2])]
                          ShowsAs(Of(_, _)) ==
                              \A x \in 0 .. CharWidth - 1, y \in Lines :
                                  ScanOut(c[2] * CharWidth + x, c[1] * CharHeight + y) = Of(x, y)
                          Ink(x, y) == IF x \div Scale \in Font[Glyph(ch)][y \div Scale]
                                       THEN Bright ELSE Dark
                      IN  ShowsAs(Ink) \/ (ch = Blank /\ ShowsAs(LAMBDA x, y : Leftover))
    BY DEF ScreenShowsBuffer
  <1>1. \A x, y : ScanOut(c[2] * CharWidth + x, c[1] * CharHeight + y) = video[WordOf(c, x, y)]
    BY DEF ScanOut, WordOf, Word
  <1>2. Slot(c[1], c[2]) \in Slots
    BY CellSlots DEF ScreenInv, SmallEnough
  <1>3. buffer[Slot(c[1], c[2])] \in Drawable
    BY <1>2 DEF ScreenInv
  <1>4. Glyph(buffer[Slot(c[1], c[2])]) \in DOMAIN Font
    BY <1>3, GlyphDrawn
  <1>5. Shows(video, c, buffer[Slot(c[1], c[2])])
    BY DEF ScreenInv, SmallEnough, AllShown
  <1>6. QED
    BY <1>1, <1>4, <1>5, PixelIsInk DEF Shows

(* What each way to draw leaves on the screen.                             *)
LEMMA RedrawShows ==
    ASSUME TypeOK, NEW b
    PROVE  AllShown(b, Redraw(b))
  <1> DEFINE picture == [c \in Cells |-> Glyph(b[Slot(c[1], c[2])])]
  <1>1. DOMAIN picture \subseteq Cells /\ Redraw(b) = Drawn(picture)
    BY DEF Redraw
  <1>2. \A c \in Cells : c \in DOMAIN picture /\ picture[c] = Glyph(b[Slot(c[1], c[2])])
    OBVIOUS
  <1> HIDE DEF picture
  <1>3. QED
    BY <1>1, <1>2, DrawnCell DEF AllShown, Shows

LEMMA PutShows ==
    ASSUME ScreenInv, SmallEnough, NEW ch \in Chars
    PROVE  AllShown(Put(ch), PutOn(ch))
  <1> DEFINE here == <<cursor_y, cursor_x>>
             picture == [c \in {here} |-> Glyph(ch)]
  <1>1. here \in Cells /\ DOMAIN picture = {here} /\ PutOn(ch) = Drawn(picture) /\ TypeOK
        /\ picture[here] = Glyph(ch)
    BY DEF ScreenInv, ConsoleInv, TypeOK, Cells, PutOn
  <1> HIDE DEF picture, here
  <1> SUFFICES ASSUME NEW c \in Cells PROVE Shows(PutOn(ch), c, Put(ch)[Slot(c[1], c[2])])
    BY DEF AllShown
  <1>2. Put(ch)[Slot(c[1], c[2])] = IF c = here THEN ch ELSE buffer[Slot(c[1], c[2])]
    BY PutOnScreen, CellSlots DEF ScreenInv, here
  <1>3. \A x \in 0 .. CharWidth - 1, y \in Lines :
            PutOn(ch)[WordOf(c, x, y)] = IF c = here THEN Pixel(Glyph(ch), x, y)
                                                     ELSE video[WordOf(c, x, y)]
    BY <1>1, DrawnCell
  <1>4. CASE c = here
    BY <1>2, <1>3, <1>4 DEF Shows
  <1>5. CASE c # here
    <2>1. Shows(video, c, buffer[Slot(c[1], c[2])])
      BY DEF ScreenInv, AllShown
    <2>2. QED
      BY <1>2, <1>3, <1>5, <2>1 DEF Shows
  <1>6. QED
    BY <1>4, <1>5

LEMMA AllShownNext ==
    ASSUME config' = config
    PROVE  AllShown(buffer, video)' <=> AllShown(buffer', video')
  BY SameScreen DEF AllShown, Shows, WordOf, Word, Slot

LEMMA SettleShows ==
    ASSUME ScreenInv, NEW b \in [Slots -> Drawable], NEW v, NEW cy, NEW cx,
           Settling(b, v, cy, cx), Settle(b, v, cy, cx), SmallEnough => AllShown(b, v),
           ConsoleInv'
    PROVE  ScreenInv'
  <1>1. config' = config /\ rows' = rows /\ cols' = cols /\ (SmallEnough' <=> SmallEnough)
    BY DEF Settle, rows, cols, SmallEnough
  <1>2. MovedUp(b) \in [Slots -> Drawable]
    <2>1. (BufRows - 1) * BufCols + BufCols = BufRows * BufCols /\ BufRows * BufCols \in Nat
      BY BufferAssumption
    <2>2. \A k \in Slots : k < (BufRows - 1) * BufCols => k + BufCols \in Slots
      BY <2>1, BufferAssumption DEF Slots
    <2>3. QED
      BY <2>2 DEF MovedUp
  <1>3. buffer' \in [Slots -> Drawable]
    BY <1>2 DEF Settle
  <1>4. ASSUME SmallEnough PROVE AllShown(buffer', video')
    <2>1. TypeOK
      BY DEF ScreenInv, ConsoleInv
    <2>2. CASE buffer' = b /\ video' = v
      BY <1>4, <2>2
    <2>3. CASE InBuffer /\ video' = Redraw(buffer')
      BY <2>1, <2>3, RedrawShows
    <2>4. InBuffer
      <3>1. rows \in Nat \ {0} /\ cols \in Nat \ {0} /\ BufCols \in Nat \ {0} /\ BufRows \in Nat \ {0}
        BY <2>1, ScreenSize, BufferAssumption DEF TypeOK
      <3> HIDE DEF rows, cols
      <3>2. rows - 1 \in 0 .. BufRows - 1 /\ cols - 1 \in 0 .. BufCols - 1
        BY <1>4, <3>1 DEF SmallEnough
      <3>3. QED
        BY <3>2, SlotInBuffer DEF InBuffer
    <2>5. QED
      BY <2>2, <2>3, <2>4 DEF Settle
  <1>5. QED
    BY <1>1, <1>3, <1>4, AllShownNext DEF ScreenInv

LEMMA ScreenInit == Init => ScreenInv
  <1> SUFFICES ASSUME Init PROVE ScreenInv
    OBVIOUS
  <1>1. ConsoleInv
    BY ConsoleInit
  <1>2. buffer \in [Slots -> Drawable]
    BY DEF Init, Drawable, Blank, CR, LF
  <1>3. ASSUME SmallEnough, NEW c \in Cells PROVE Shows(video, c, buffer[Slot(c[1], c[2])])
    <2>1. Slot(c[1], c[2]) \in Slots
      BY <1>1, <1>3, CellSlots
    <2>2. buffer[Slot(c[1], c[2])] = Blank
      BY <2>1 DEF Init
    <2>3. \A x \in 0 .. CharWidth - 1, y \in Lines : video[WordOf(c, x, y)] = Leftover
      BY WordInLine DEF Init
    <2>4. QED
      BY <2>2, <2>3 DEF Shows
  <1>4. QED
    BY <1>1, <1>2, <1>3 DEF ScreenInv, AllShown

LEMMA ScreenStep == ScreenInv /\ [Next]_vars => ScreenInv'
  <1> SUFFICES ASSUME ScreenInv, [Next]_vars PROVE ScreenInv'
    OBVIOUS
  <1>1. ConsoleInv /\ ConsoleInv' /\ TypeOK /\ buffer \in [Slots -> Drawable]
        /\ (SmallEnough => AllShown(buffer, video))
    BY ConsoleStep DEF ScreenInv, ConsoleInv
  <1>2. CASE CarriageReturn
    BY <1>1, <1>2, ActionsSettle, SettleShows DEF CarriageReturn
  <1>3. CASE LineFeed
    BY <1>1, <1>3, ActionsSettle, SettleShows DEF LineFeed
  <1>4. ASSUME NEW ch \in Chars \ {CR, LF}, PutChar(ch) PROVE ScreenInv'
    <2>1. /\ Settle(Put(ch), PutOn(ch), cursor_y, cursor_x + 1)
          /\ Slot(cursor_y, cursor_x) \in Slots
      BY <1>4 DEF PutChar, Put, PutOn
    <2>2. Settling(Put(ch), PutOn(ch), cursor_y, cursor_x + 1)
      BY <1>1, <2>1, ActionsSettle
    <2>3. Put(ch) \in [Slots -> Drawable]
      BY <1>1, <2>1 DEF Put, Drawable
    <2>4. SmallEnough => AllShown(Put(ch), PutOn(ch))
      BY PutShows
    <2>5. QED
      BY <1>1, <2>1, <2>2, <2>3, <2>4, SettleShows
  <1>5. CASE PutCharOverruns
    <2>1. UNCHANGED <<config, buffer, video>>
      BY <1>5 DEF PutCharOverruns
    <2>2. QED
      BY <1>1, <2>1, AllShownNext DEF ScreenInv, SmallEnough, rows, cols
  <1>6. CASE Clear
    <2>1. /\ buffer' = [k \in Slots |-> Blank] /\ config' = config
          /\ video' = [w \in DOMAIN video |-> Dark]
      BY <1>6 DEF Clear
    <2>2. buffer' \in [Slots -> Drawable]
      BY <2>1 DEF Drawable, Blank, CR, LF
    <2>3. ASSUME SmallEnough, NEW c \in Cells PROVE Shows(video', c, buffer'[Slot(c[1], c[2])])
      <3>1. buffer'[Slot(c[1], c[2])] = Blank
        BY <1>1, <2>1, <2>3, CellSlots
      <3>2. \A x \in 0 .. CharWidth - 1, y \in Lines : video'[WordOf(c, x, y)] = Dark
        <4>1. config \in Modes /\ DOMAIN video = 0 .. config.height * config.pitch - 1
          BY <1>1 DEF TypeOK
        <4>2. QED
          BY <2>1, <4>1, WordInLine
      <3>3. QED
        BY <3>1, <3>2, BlankIsDark DEF Shows
    <2>4. QED
      BY <1>1, <2>1, <2>2, <2>3, AllShownNext DEF ScreenInv, AllShown, SmallEnough, rows, cols
  <1>7. CASE UNCHANGED vars
    <2>1. UNCHANGED <<config, buffer, video>>
      BY <1>7 DEF vars
    <2>2. QED
      BY <1>1, <2>1, AllShownNext DEF ScreenInv, SmallEnough, rows, cols
  <1>8. QED
    BY <1>2, <1>3, <1>4, <1>5, <1>6, <1>7 DEF Next

(* The picture is the text (console.c:1585-1629, 1641-1648), in every mode *)
(* no larger than the buffer.                                              *)
THEOREM PictureIsText == Spec => []ScreenShowsBuffer
  BY ScreenInit, ScreenStep, ShownMeans, PTL DEF Spec
=============================================================================
