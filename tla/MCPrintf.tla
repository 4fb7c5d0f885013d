------------------------------ MODULE MCPrintf -----------------------------
(* A buffer of 8 characters, integers of 3 to 8 bits, and four groups of   *)
(* jobs: one number in every combination of parts, one string likewise,    *)
(* every sequence of three items of a pool, and conversions behind %%,     *)
(* which take the arguments of those that follow.                          *)
EXTENDS Printf

MCHalf ==
    [length \in Lengths \cup {NoLength} |->
        CASE length = <<"h", "h">> -> 4
          [] length = <<"h">>      -> 8
          [] length \in {NoLength, <<"l">>} -> 16
          [] OTHER                 -> 128]

MCChars == Marks \cup {"g", "k", "m", "n", "p", "q", "!"}

Text(chars) == [kind |-> "text", chars |-> chars]
Conv(flags, width, precision, length, specifier, stars, values) ==
    [kind |-> "spec", flags |-> flags, width |-> width, precision |-> precision,
     length |-> length, specifier |-> specifier, stars |-> stars, args |-> values]

FlagTexts  == <<<<>>, <<"+">>, <<" ">>, <<"#">>, <<"+", "#">>, <<"-">>, <<"0">>>>
WidthTexts == <<<<>>, <<"3">>, <<"7">>, <<"1", "2">>>>
PrecisionTexts == <<<<>>, <<".", "4">>, <<".", "9">>>>
LengthTexts == <<<<>>, <<"h", "h">>, <<"h">>, <<"z">>>>
Specifiers == <<"d", "u", "o", "x", "X">>
Values     == <<0, 7, 10, 23, 127, 128, 255>>

NumberJob(t) ==
    <<Conv(FlagTexts[t[2]], WidthTexts[t[3]], PrecisionTexts[t[4]], LengthTexts[t[5]],
           Specifiers[t[6]], <<>>, <<Values[t[7]]>>)>>

Strings == <<<<>>, <<"a", "b", "c">>, <<"a", "b", "c", "d", "e", "f", "g">>,
             <<"a", "b", "c", "d", "e", "f", "g", "h">>>>
StringFlags == <<<<>>, <<"-">>>>
StringJob(t) ==
    <<Conv(StringFlags[t[2]], WidthTexts[t[3]], PrecisionTexts[t[4]], <<>>, "s", <<>>,
           <<Strings[t[5]]>>)>>

Pool == <<
    Text(<<"a">>), Text(<<"b", "c", "d">>), Text(<<"e", "f", "g", "h", "i", "j">>),
    Text(<<"%", "%", "!">>), Text(<<"%", "%">>),
    Conv(<<>>, <<>>, <<>>, <<>>, "c", <<>>, <<"k">>),
    Conv(<<>>, <<>>, <<>>, <<>>, "c", <<>>, <<NUL>>),
    Conv(<<>>, <<>>, <<>>, <<"h">>, "d", <<>>, <<12>>),
    Conv(<<"#">>, <<"*">>, <<".", "*">>, <<"l", "l">>, "x", <<6, 3>>, <<171>>),
    Conv(<<>>, <<"*">>, <<>>, <<>>, "s", <<-1>>, <<<<"m", "n">>>>),
    Conv(<<"-">>, <<"*">>, <<>>, <<>>, "s", <<-3>>, <<<<"n", "p">>>>),
    Conv(<<"-">>, <<"4">>, <<>>, <<>>, "s", <<>>, <<<<"p">>>>),
    Conv(<<>>, <<>>, <<>>, <<"L">>, "i", <<>>, <<>>),
    Conv(<<>>, <<>>, <<>>, <<>>, "q", <<>>, <<>>)>>

Escaped == <<Text(<<"%", "%", "d">>), Text(<<"%", "%", "*", "d">>), Text(<<"%", "%", "c", "a">>)>>
Behind  == <<Text(<<"m">>), Conv(<<>>, <<>>, <<>>, <<>>, "d", <<>>, <<3>>),
             Conv(<<>>, <<"*">>, <<>>, <<>>, "u", <<2>>, <<5>>)>>

MCJobs ==
    {1} \X (1 .. 7) \X (1 .. 4) \X (1 .. 3) \X (1 .. 4) \X (1 .. 5) \X (1 .. 7)
        \cup {2} \X (1 .. 2) \X (1 .. 4) \X (1 .. 3) \X (1 .. 4)
        \cup {3} \X (DOMAIN Pool) \X (DOMAIN Pool) \X (DOMAIN Pool)
        \cup {4} \X (DOMAIN Escaped) \X (DOMAIN Behind)

MCItems(t) ==
    CASE t[1] = 1 -> NumberJob(t)
      [] t[1] = 2 -> StringJob(t)
      [] t[1] = 3 -> <<Pool[t[2]], Pool[t[3]], Pool[t[4]]>>
      [] t[1] = 4 -> <<Escaped[t[2]], Behind[t[3]]>>
=============================================================================
