---------------------------- MODULE MCConnection ----------------------------
EXTENDS Connection

\* Letters stand for classes of characters: "!" is not allowed in a metric
\* name, "." is not in an integer.
Line1 == <<"m", "n", " ", "1", " ", "1", "1">>
Line2 == <<"!", " ", "1", " ", "1">>
Line3 == <<"m", " ", "1", " ", "1", ".">>
Line4 == <<"m", " ", "1", " ", "1", " ", "1">>
Line5 == <<"m", " ", ".", " ", "1">>
Short == <<"m", " ", "1">>
Long  == <<"m", "n", "m", "n", " ", "1", " ", "1", "1">>

\* Two lines, of which the first may be ended by \n alone; and three, among
\* them empty ones.
SomeStreams ==
  {a \o <<"nl">> \o b \o <<"cr", "nl">> : a \in {Line1, Line2, Line4, Short, Long},
                                         b \in {Line1, Line3, Line4, Line5, Long}}
  \cup {<<"cr", "nl", "nl">> \o a \o <<"nl">> : a \in {Line1, Line3, Line4}}

MCInts   == {<<"1">>, <<"1", "1">>}
MCFloats == {<<"1">>, <<"1", ".">>, <<"1", "1">>}
=============================================================================
