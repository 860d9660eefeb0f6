------------------------------ MODULE MCGcfg ------------------------------
(* Small texts for Gcfg: a structure with a struct section "a" and a map   *)
(* section "n", whose variables are "a" (a string), "n" (a slice of        *)
(* strings), "an" (a bool), "aa" (a number), "nn" (a pointer to a number)   *)
(* and "na" (a slice of numbers).                                          *)
EXTENDS Gcfg, TLC

CONSTANT MaxFree   \* how many characters follow a prefix

OneStruct == {<<"a">>}
OneMap == {<<"n">>}
OneOf(type) == [multi |-> FALSE, ptr |-> FALSE, of |-> type]
SliceOf(type) == [multi |-> TRUE, ptr |-> FALSE, of |-> type]
PointerTo(type) == [multi |-> FALSE, ptr |-> TRUE, of |-> type]
Kinds == (<<"a">> :> OneOf("string")) @@ (<<"n">> :> SliceOf("string"))
         @@ (<<"a", "n">> :> OneOf("bool")) @@ (<<"a", "a">> :> OneOf("scan"))
         @@ (<<"n", "n">> :> PointerTo("scan")) @@ (<<"n", "a">> :> SliceOf("scan"))
OneTrue == {True}

\* ParseInt trims its text; then the number is what digits come first, and all
\* of the text if nothing follows them.
Blanks == {"sp", "cr", "nl"}
ScanNumber(variable, text) ==
    LET digits == After(text, Blanks, 1)
        behind == After(text, {"1"}, digits)
    IN  [out |-> SubSeq(text, digits, behind - 1),
         all |-> After(text, Blanks, behind) > Len(text)]

Texts(S, n) == UNION {[1..k -> S] : k \in 0..n}
Starting(prefix, S, n) == {prefix \o x : x \in Texts(S, n)}

Header == <<"lb", "a", "rb", "nl">>
MapHeader == <<"lb", "n", "quote", "a", "quote", "rb", "nl">>

\* Free text where every character matters; inside a value, the characters
\* scanValString and unquote tell apart, one character longer.
Quoted == {"a", "n", "sp", "cr", "nl", "quote", "back", "semi"}
Numeric == {"1", "a", "sp", "nl", "cr", "quote", "eq"}

AllTexts ==
    Starting(<<>>, Char, MaxFree)
    \cup Starting(Header, Char, MaxFree)
    \cup Starting(<<"lb", "n", "quote">>, Quoted \cup {"rb", "nul"}, MaxFree)
    \cup Starting(Header \o <<"a", "eq">>, Quoted, MaxFree + 1)
    \cup Starting(Header \o <<"a", "n", "eq">>, {"a", "1", "nl", "nul"}, MaxFree)
    \cup Starting(Header \o <<"a", "a", "eq">>, Numeric, MaxFree)
    \cup Starting(Header \o <<"a", "a", "eq", "1", "nl", "a", "a", "eq">>, Numeric, MaxFree)
    \cup Starting(MapHeader \o <<"n", "n", "eq">>, Numeric, MaxFree)
    \cup Starting(MapHeader \o <<"n", "n", "eq", "1", "nl", "n", "n", "eq">>, Numeric, MaxFree)
    \cup Starting(MapHeader \o <<"n", "a", "eq", "1", "nl", "n", "a", "eq">>, Numeric, MaxFree)
    \cup Starting(MapHeader \o <<"n", "eq", "quote">>, Quoted, MaxFree)
    \cup Starting(MapHeader \o <<"n", "nl">>, {"n", "eq", "nl", "nul"}, MaxFree)
    \cup Starting(MapHeader \o <<"a", "eq", "quote", "back">>,
              {"a", "n", "quote", "back", "nl", "cr"}, MaxFree)
=============================================================================
