------------------------------- MODULE Printf ------------------------------
(***************************************************************************)
(* Formatted printing (wvprintf and the conversions, printf.c:10-598).     *)
(* Literal text is collected in a buffer, which goes to the printer when   *)
(* it is full and before each conversion; a conversion goes to the printer *)
(* by itself.  One action per way an iteration of the loop over the format *)
(* can go.                                                                 *)
(*                                                                         *)
(* A text is a sequence of characters.  A print job is what a caller asks  *)
(* for, as a sequence of items; the program gets its format and arguments. *)
(***************************************************************************)
EXTENDS Integers, Sequences, SequencesExt

CONSTANTS
    Chars,      \* the characters
    BufLen,     \* BUFFER_LEN
    Half,       \* length modifier -> 2^(w - 1), half the values of its type of w bits
    Jobs,       \* the print jobs
    Items(_)    \* job -> sequence of its items

NUL    == "NUL"
Space  == " "
Dagger == "U+2020"      \* two bytes of spaces, read as one character
Odd    == "odd"         \* some character that is not a digit

Decimal == <<"0", "1", "2", "3", "4", "5", "6", "7", "8", "9">>
Small   == <<"0", "1", "2", "3", "4", "5", "6", "7", "8", "9", "a", "b", "c", "d", "e", "f">>
Capital == <<"0", "1", "2", "3", "4", "5", "6", "7", "8", "9", "A", "B", "C", "D", "E", "F">>
Digits  == Range(Decimal)
Flags   == {"-", "+", Space, "#", "0"}
Numbers == {"d", "i", "u", "o", "x", "X"}
Letters == {"h", "l", "j", "z", "t", "L"}       \* of lengths
Marks   ==
    Flags \cup Range(Small) \cup Range(Capital) \cup Numbers \cup Letters
        \cup {NUL, Dagger, Odd, "%", "*", ".", "c", "s", "?", "("}

Lengths     == {<<"h", "h">>, <<"h">>, <<"l", "l">>, <<"l">>, <<"j">>, <<"z">>, <<"t">>}
NoLength    == <<>>
LongDouble  == <<"L">>

ASSUME CharsAssumption  == Marks \subseteq Chars
ASSUME BufLenAssumption == BufLen \in Nat /\ BufLen > 1
ASSUME HalfAssumption   == Half \in [Lengths \cup {NoLength} -> Nat \ {0}]

VARIABLES
    job,        \* which of the jobs
    fmt,        \* the rest of the format
    args,       \* the arguments not taken yet
    buffer,     \* buffer, up to ptr
    out,        \* what the printer has got
    phase       \* "printing", "done", or "overrun": a bound has been passed

vars == <<job, fmt, args, buffer, out, phase>>
----------------------------------------------------------------------------
(* Texts *)

Copies(c, n) == [k \in 1 .. n |-> c]
Larger(a, b) == IF a > b THEN a ELSE b
After(s, prefix) == SubSeq(s, Len(prefix) + 1, Len(s))
First(s) == IF s = <<>> THEN NUL ELSE s[1]

(* The characters of s before the first one that is outside S.             *)
Leading(s, S) ==
    LET others == {k \in 1 .. Len(s) : s[k] \notin S}
    IN  IF others = {} THEN s ELSE SubSeq(s, 1, Min(others) - 1)

(* What a printer makes of s: it stops at the first NUL.                   *)
Printed(s) == Leading(s, Range(s) \ {NUL})

DigitValue(c) == (CHOOSE k \in 1 .. 16 : c \in {Small[k], Capital[k]}) - 1

Reading(digits, base) ==
    LET value[n \in 0 .. Len(digits)] ==
            IF n = 0 THEN 0 ELSE base * value[n - 1] + DigitValue(digits[n])
    IN  value[Len(digits)]

Number(digits) == Reading(digits, 10)

Numeral(v, base, chars) ==
    LET text[n \in 0 .. v] ==
            IF n < base THEN <<chars[n + 1]>>
            ELSE Append(text[n \div base], chars[(n % base) + 1])
    IN  text[v]
----------------------------------------------------------------------------
(* Arguments.  va_arg reads the low bits of an argument's slot.            *)

AsUnsigned(a, length) == a % (2 * Half[length])

AsSignedUncast(a, length) == AsUnsigned(a, length)  \* plausible bug: sign lost

AsSigned(a, length) ==
    LET u == AsUnsigned(a, length)
    IN  IF u < Half[length] THEN u ELSE u - 2 * Half[length]

(* Conversions.  A specification is a record: flags, width, precise,       *)
(* precision, length, specifier (struct SpecifierInfo).                    *)

(* Lines 32-51: digits of a signed value; the negation of the smallest     *)
(* value is that value again, and its last digit -8 is printed as '(',     *)
(* eight places before '0'.                                                *)
Smallest == -Half[<<"l", "l">>]
SignedDigits(v) ==
    IF v = Smallest
    THEN Append(Numeral((-v) \div 10, 10, Decimal), "(")
    ELSE Numeral(IF v < 0 THEN -v ELSE v, 10, Decimal)

(* Line 175: + binds closer than &, so a digit is val & 0x37.              *)
OctalDigit(v) ==
    LET high == (v \div 16) % 4
    IN  IF high = 3 THEN Decimal[(v % 8) + 1]
        ELSE IF high = 0 /\ v % 8 = 0 THEN NUL ELSE Odd
OctalDigits(v) ==
    LET text[n \in 0 .. v] == IF n = 0 THEN <<>> ELSE Append(text[n \div 8], OctalDigit(n))
    IN  IF v = 0 THEN <<"0">> ELSE text[v]

Sign(v, spec) ==
    IF v < 0 THEN <<"-">>
    ELSE IF "+" \in spec.flags THEN <<"+">>
    ELSE IF Space \in spec.flags THEN <<Space>> ELSE <<>>

Decorator(spec) ==
    IF "#" \notin spec.flags THEN <<>>
    ELSE CASE spec.specifier = "o" -> <<"0">>
           [] spec.specifier \in {"x", "X"} -> <<"0", spec.specifier>>
           [] OTHER -> <<>>

(* Lines 86-88: memmove and memset count bytes, a character has two, and   *)
(* ptr stays: half of the spaces land, in pairs, on the text itself.       *)
(* cells is the end of the buffer, from the place the text should move to. *)
LeftJustified(body, width) ==
    LET n     == Len(body)
        diff  == width - n
        cells == Copies(NUL, diff) \o body
        moved == [k \in 1 .. width |-> IF k <= (n + 1) \div 2 THEN cells[k + diff] ELSE cells[k]]
        set   == [k \in 1 .. width |->
                    CASE k > n /\ k <= n + diff \div 2 -> Dagger
                      [] diff % 2 = 1 /\ k = n + diff \div 2 + 1 -> Space
                      [] OTHER -> moved[k]]
    IN  SubSeq(set, diff + 1, width)

(* The end of the four conversions of numbers (lines 53-98).               *)
Justified(body, spec) ==
    LET missing == spec.width - Len(body)
    IN  CASE missing <= 0        -> body
          [] missing > 0 /\ "0" \in spec.flags -> Copies("0", missing) \o body
          [] missing > 0 /\ "0" \notin spec.flags /\ "-" \in spec.flags ->
                 LeftJustified(body, spec.width)
          [] OTHER               -> Copies(Space, missing) \o body

Value(a, spec) ==
    IF spec.specifier \in {"d", "i"} THEN AsSigned(a, spec.length) ELSE AsUnsigned(a, spec.length)

DigitsOf(v, spec) ==
    CASE spec.specifier \in {"d", "i"} -> SignedDigits(v)
      [] spec.specifier = "u" -> Numeral(v, 10, Decimal)
      [] spec.specifier = "o" -> OctalDigits(v)
      [] spec.specifier = "x" -> Numeral(v, 16, Small)
      [] spec.specifier = "X" -> Numeral(v, 16, Capital)

Body(a, spec) ==
    LET v      == Value(a, spec)
        digits == DigitsOf(v, spec)
    IN  Sign(v, spec) \o Decorator(spec)
            \o Copies("0", spec.precision - Len(digits)) \o digits

NumberText(a, spec) == Justified(Body(a, spec), spec)

(* The digits grow down from the end of a buffer of their own.             *)
NumberFits(a, spec) == Larger(spec.width, Len(Body(a, spec))) < BufLen

(* Lines 298-333.  A precision does not cut the text; one beyond its end   *)
(* copies what lies behind the terminator, and padding on the right then   *)
(* comes too late.  Lengths are compared unsigned, so that a negative      *)
(* precision is a huge one, and a negative width too when the padding goes *)
(* to the left; the loop that pads on the right compares signed (line 318) *)
(* and does nothing.                                                       *)
StringText(s, spec) ==
    LET len     == IF spec.precise THEN Larger(Len(s), spec.precision) ELSE Len(s)
        missing == Copies(Space, spec.width - len)
    IN  IF "-" \notin spec.flags THEN missing \o s
        ELSE IF len > Len(s) THEN s ELSE s \o missing

StringFits(s, spec) ==
    /\ Len(s) < BufLen
    /\ spec.width < BufLen /\ (spec.width < 0 => "-" \in spec.flags)
    /\ spec.precise => spec.precision \in 0 .. BufLen - 1
----------------------------------------------------------------------------
(* The format.  A specification is read part by part: each step takes what *)
(* is read so far, with the rest of the format and the arguments.          *)

ReadFlags(s, a) ==
    [flags |-> Range(Leading(s, Flags)), width |-> 0, precise |-> FALSE, precision |-> 0,
     length |-> NoLength, specifier |-> NUL, fmt |-> After(s, Leading(s, Flags)), args |-> a]

Field(s, a) ==
    IF First(s) = "*"
    THEN [value |-> AsSigned(a[1], NoLength), fmt |-> Tail(s), args |-> Tail(a)]
    ELSE [value |-> Number(Leading(s, Digits)), fmt |-> After(s, Leading(s, Digits)), args |-> a]

ReadWidth(p) ==
    LET width == Field(p.fmt, p.args)
    IN  [p EXCEPT !.width = width.value, !.fmt = width.fmt, !.args = width.args]

ReadPrecision(p) ==
    LET precision == Field(Tail(p.fmt), p.args)
    IN  IF First(p.fmt) # "." THEN p
        ELSE [p EXCEPT !.precise = TRUE, !.precision = precision.value,
                       !.fmt = precision.fmt, !.args = precision.args]

Length(s) ==
    LET two == IF Len(s) > 1 THEN SubSeq(s, 1, 2) ELSE s
    IN  IF two \in {<<"h", "h">>, <<"l", "l">>} THEN two
        ELSE IF First(s) \in {"h", "l", "j", "z", "t", "L"} THEN <<First(s)>> ELSE NoLength

ReadLength(p) == [p EXCEPT !.length = Length(p.fmt), !.fmt = After(p.fmt, Length(p.fmt))]

ReadSpecifier(p) == [p EXCEPT !.specifier = First(p.fmt), !.fmt = SubSeq(p.fmt, 2, Len(p.fmt))]

Parsed(s, a) == ReadSpecifier(ReadLength(ReadPrecision(ReadWidth(ReadFlags(s, a)))))
----------------------------------------------------------------------------
(* What the jobs consist of: text as it stands, or a specification with    *)
(* its parts as they are written (stars are the arguments for the *s).     *)

FormatOf(item) ==
    IF item.kind = "text" THEN item.chars
    ELSE <<"%">> \o item.flags \o item.width \o item.precision \o item.length
             \o <<item.specifier>>

ArgsOf(item) == IF item.kind = "text" THEN <<>> ELSE item.stars \o item.args

(* A width or a precision, as it is written: its value is an int.          *)
IsField(text) ==
    text = <<"*">> \/ (text \in Seq(Digits) /\ Number(text) < Half[NoLength])
StarsIn(item) ==
    (IF item.width = <<"*">> THEN 1 ELSE 0) + (IF item.precision = <<".", "*">> THEN 1 ELSE 0)

(* What a caller of printf may write: a 0 before the width is a flag, a    *)
(* letter that is a length is not a specifier, and every * and every       *)
(* conversion has an argument of its type.  Neither format nor strings     *)
(* have a NUL but the one that ends them.                                  *)
WellFormed(item) ==
    \/ item.kind = "text" /\ item.chars \in Seq(Chars \ {NUL})
    \/ /\ item.kind = "spec"
       /\ item.flags \in Seq(Flags)
       /\ IsField(item.width) /\ First(item.width) # "0"
       /\ item.precision \in Seq(Chars)
       /\ item.precision = <<>> \/ (First(item.precision) = "." /\ IsField(Tail(item.precision)))
       /\ item.length \in Lengths \cup {NoLength, LongDouble}
       /\ item.specifier \in Chars \ (Flags \cup Digits \cup Letters \cup {"*", ".", "%", NUL})
       /\ item.stars \in Seq(-Half[NoLength] .. Half[NoLength] - 1)
       /\ Len(item.stars) = StarsIn(item)
       /\ CASE item.specifier \in Numbers /\ item.length # LongDouble ->
                  item.args \in Seq(Int) /\ Len(item.args) = 1
            [] item.specifier = "c" -> item.args \in Seq(Chars) /\ Len(item.args) = 1
            [] item.specifier = "s" -> item.args \in Seq(Seq(Chars \ {NUL})) /\ Len(item.args) = 1
            [] OTHER                -> item.args = <<>>

ASSUME JobsAssumption ==
    \A j \in Jobs :
        /\ Items(j) \in Seq(Range(Items(j)))
        /\ \A k \in DOMAIN Items(j) : WellFormed(Items(j)[k])

(* Any number fits in the buffer, with its sign and prefix.                *)
ASSUME RoomAssumption ==
    \A length \in DOMAIN Half : Len(Numeral(2 * Half[length] - 1, 8, Decimal)) + 3 < BufLen

JobFormat(items) == FlattenSeq([k \in DOMAIN items |-> FormatOf(items[k])])
JobArgs(items)   == FlattenSeq([k \in DOMAIN items |-> ArgsOf(items[k])])
----------------------------------------------------------------------------
Init ==
    /\ job \in Jobs
    /\ fmt = JobFormat(Items(job)) /\ args = JobArgs(Items(job))
    /\ buffer = <<>> /\ out = <<>>
    /\ phase = "printing"

NotFullLate == Len(buffer) < BufLen     \* plausible bug: no room for the NUL

(* The flush at the top of the loop (lines 341-347).                       *)
NotFull == Len(buffer) < BufLen - 1
Kept == IF NotFull THEN buffer ELSE <<>>
Sent == IF NotFull THEN out ELSE out \o Printed(buffer)

Put(c) == buffer' = Append(Kept, c) /\ out' = Sent

SendAlone(text) ==      \* plausible bug: the text before it comes after it
    buffer' = Kept /\ out' = Sent \o Printed(text)

Send(text) == buffer' = <<>> /\ out' = Sent \o Printed(Kept) \o Printed(text)

Overrun == phase' = "overrun" /\ UNCHANGED <<job, fmt, args, buffer, out>>

(* A specification begins at fmt.  va_arg knows nothing of how many        *)
(* arguments there are: whether they suffice shows when some are spare.    *)
Specified == phase = "printing" /\ First(fmt) = "%" /\ First(Tail(fmt)) # "%"

Taken(spec) ==
    IF \/ spec.specifier \in Numbers /\ spec.length # LongDouble
       \/ spec.specifier \in {"c", "s"}
    THEN 1 ELSE 0

Spare == <<0, 0, 0>>

Missing ==
    LET spec == Parsed(Tail(fmt), args \o Spare)
    IN  Len(spec.args) < Len(Spare) + Taken(spec)

Specs == IF Specified /\ ~Missing THEN {Parsed(Tail(fmt), args)} ELSE {}

NoArgument == Specified /\ Missing /\ Overrun

(* The specification is done with, and takes n arguments.                  *)
Past(spec, n) ==
    /\ fmt' = spec.fmt /\ args' = SubSeq(spec.args, n + 1, Len(spec.args))
    /\ UNCHANGED <<job, phase>>

Literal ==
    /\ phase = "printing" /\ First(fmt) \notin {"%", NUL}
    /\ Put(First(fmt)) /\ fmt' = Tail(fmt)
    /\ UNCHANGED <<job, args, phase>>

(* Lines 353-358: fmt stays on the second %, which the next iteration      *)
(* takes for the beginning of a specification.                             *)
PercentSign ==
    /\ phase = "printing" /\ First(fmt) = "%" /\ First(Tail(fmt)) = "%"
    /\ Put("%") /\ fmt' = Tail(fmt)
    /\ UNCHANGED <<job, args, phase>>

PrintNumber ==
    \E spec \in Specs :
        /\ spec.specifier \in Numbers /\ spec.length # LongDouble /\ NumberFits(spec.args[1], spec)
        /\ Send(NumberText(spec.args[1], spec))
        /\ Past(spec, 1)

NumberOverruns ==
    \E spec \in Specs :
        /\ spec.specifier \in Numbers /\ spec.length # LongDouble /\ ~NumberFits(spec.args[1], spec)
        /\ Overrun

(* Lines 514-515, 554-555: the argument is not taken.                      *)
NoSuchNumber ==
    \E spec \in Specs :
        /\ spec.specifier \in Numbers /\ spec.length = LongDouble
        /\ buffer' = Kept /\ out' = Sent
        /\ Past(spec, 0)

PutCharacter ==
    \E spec \in Specs :
        /\ spec.specifier = "c"
        /\ Put(spec.args[1])
        /\ Past(spec, 1)

PrintString ==
    \E spec \in Specs :
        /\ spec.specifier = "s" /\ StringFits(spec.args[1], spec)
        /\ Send(StringText(spec.args[1], spec))
        /\ Past(spec, 1)

StringOverruns ==
    \E spec \in Specs : spec.specifier = "s" /\ ~StringFits(spec.args[1], spec) /\ Overrun

UnknownSpecifier ==
    \E spec \in Specs :
        /\ spec.specifier \notin Numbers \cup {"c", "s", NUL}
        /\ Put("?")
        /\ Past(spec, 0)

(* The terminator is taken for the specifier, and fmt runs past it.        *)
Unfinished == \E spec \in Specs : spec.specifier = NUL /\ Overrun

End ==
    /\ phase = "printing" /\ fmt = <<>>
    /\ out' = out \o Printed(buffer)
    /\ phase' = "done"
    /\ UNCHANGED <<job, fmt, args, buffer>>

Next ==
    \/ Literal \/ PercentSign \/ PrintNumber \/ NumberOverruns \/ NoSuchNumber
    \/ PutCharacter \/ PrintString \/ StringOverruns \/ UnknownSpecifier
    \/ Unfinished \/ NoArgument \/ End

PrintfSpec == Init /\ [][Next]_vars
----------------------------------------------------------------------------
(* Properties *)

StarOr(text, star) == IF text = <<"*">> THEN star ELSE Number(text)
WidthOf(item) == StarOr(item.width, item.stars[1])
PrecisionOf(item) ==
    IF item.precision = <<>> THEN 0
    ELSE StarOr(Tail(item.precision), item.stars[Len(item.stars)])

SpecOf(item) ==
    [flags |-> Range(item.flags), width |-> WidthOf(item),
     precise |-> item.precision # <<>>, precision |-> PrecisionOf(item),
     length |-> item.length, specifier |-> item.specifier]

(* What an item contributes when it is printed by itself.                  *)
Rendered(item) ==
    IF item.kind = "text" THEN item.chars
    ELSE CASE item.specifier \in Numbers ->
                IF item.length = LongDouble THEN <<>> ELSE NumberText(item.args[1], SpecOf(item))
           [] item.specifier = "c" -> item.args
           [] item.specifier = "s" -> StringText(item.args[1], SpecOf(item))
           [] OTHER                -> <<"?">>

HasPercent(item) == item.kind = "text" /\ "%" \in Range(item.chars)
EndsText(item) ==       \* a NUL, also among the digits of an octal number
    /\ item.kind = "spec"
    /\ item.specifier = "o" \/ (item.specifier = "c" /\ item.args = <<NUL>>)
Plain(items) == \A k \in DOMAIN items : ~HasPercent(items[k]) /\ ~EndsText(items[k])

(* Text and conversions come out once, whole and in the order of the       *)
(* format, however often the buffer was flushed between them               *)
(* (wvprintf, printf.c:339-597), and every conversion gets its argument;   *)
(* for formats without %% and text without NUL.                            *)
TextInOrder ==
    phase = "done" /\ Plain(Items(job)) =>
        /\ out = FlattenSeq([k \in DOMAIN Items(job) |-> Rendered(Items(job)[k])])
        /\ args = <<>>

(* A printed number reads back as the argument at the width of its type,   *)
(* with its sign, base and at least the digits and columns asked for       *)
(* (printf.c:27-160, 228-296); except the smallest number, and except the  *)
(* flags - and 0, which damage the text.                                   *)
Harmless(item) ==
    /\ item.kind = "spec" /\ item.length # LongDouble
    /\ item.specifier \in Numbers \ {"o"}
    /\ Range(item.flags) \cap {"-", "0"} = {}
    /\ ~(item.specifier \in {"d", "i"} /\ AsSigned(item.args[1], item.length) = Smallest)

NumbersReadBack ==
    LET item   == Items(job)[1]
        text   == After(out, Leading(out, {Space}))
        sign   == Leading(text, {"-", "+"})
        hex    == item.specifier \in {"x", "X"}
        marked == hex /\ "#" \in Range(item.flags)
        digits == IF marked THEN SubSeq(text, Len(sign) + 3, Len(text)) ELSE After(text, sign)
        base   == IF hex THEN 16 ELSE 10
        read   == Reading(digits, base)
        signed == item.specifier \in {"d", "i"}
        half   == Half[item.length]
    IN  phase = "done" /\ Len(Items(job)) = 1 /\ Harmless(item) =>
            /\ digits # <<>> /\ Len(digits) >= PrecisionOf(item)
            /\ Len(out) >= WidthOf(item)
            /\ marked => SubSeq(text, Len(sign) + 1, Len(sign) + 2) = <<"0", item.specifier>>
            /\ hex => Range(digits) \subseteq
                          Range(IF item.specifier = "x" THEN Small ELSE Capital)
            /\ ((IF sign = <<"-">> THEN -read ELSE read) - item.args[1]) % (2 * half) = 0
            /\ read \in 0 .. (IF signed THEN half ELSE 2 * half - 1)
            /\ signed /\ sign # <<"-">> => read < half

(* An item that is more than the buffers of the conversions hold.          *)
TooMuch(item) ==
    /\ item.kind = "spec"
    /\ \/ WidthOf(item) >= BufLen \/ PrecisionOf(item) + 3 >= BufLen
       \/ item.specifier = "s" /\ WidthOf(item) < 0 /\ "-" \notin Range(item.flags)
       \/ item.specifier = "s" /\ PrecisionOf(item) < 0
       \/ item.specifier = "s" /\ Len(item.args[1]) >= BufLen

(* Neither the format's buffer nor that of a conversion is left, and       *)
(* neither format nor arguments are read past their end (printf.c:29-98,   *)
(* 300-331, 341-590), unless a width, a precision or a string is as long   *)
(* as the buffer, a number for a string is negative (but a width with -,   *)
(* which is none), or the format has %%: what is behind it is taken for a  *)
(* specification then, of anything or of nothing.                          *)
PrintfInBounds ==
    /\ Len(buffer) < BufLen
    /\ phase = "overrun" =>
           \E k \in DOMAIN Items(job) : TooMuch(Items(job)[k]) \/ HasPercent(Items(job)[k])
=============================================================================
