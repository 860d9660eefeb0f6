------------------------------- MODULE Gcfg -------------------------------
(***************************************************************************)
(* The reader of configuration files: the scanner of gcfg/scanner and the  *)
(* parser readInto with unquote and set (read.go, set.go), which cacher    *)
(* runs once at its start on its config file (mylib.Load).                 *)
(*                                                                         *)
(* A text is a sequence of characters, one for each class the code tells   *)
(* apart: "a" and "n" are letters ("n" may also be escaped), "1" stands    *)
(* for a digit or '-', "sp" for a blank or a tab, "semi" for ';' and '#',  *)
(* "nul" for a NUL byte or a broken UTF-8 encoding, "bad" for the rest.    *)
(*                                                                         *)
(* readInto looks at one token at a time and asks the scanner for the      *)
(* next: one action per token it looks at, `want` says where it stands.    *)
(* It reads neither the position nor the literal of a scan that reported   *)
(* an error, so the scanner's recovery after an error is left out.         *)
(***************************************************************************)
EXTENDS Integers, Sequences, FiniteSets, FiniteSetsExt

CONSTANTS Sources,  \* the texts a reader is given
          Structs,  \* sections that are a struct field of the configuration
          Maps,     \* sections that are a map of named subsections
          Kind,     \* the type of each variable of a section, see KindAssumption
          Bools,    \* the texts ParseBool accepts
          Scanned(_, _)  \* what fmt.Sscanf makes of a text for a variable, see Converts

EOF == "eof"
Letter == {"a", "n"}
White == {"sp", "cr"}
Char == Letter \cup White \cup
        {"1", "nl", "quote", "back", "semi", "lb", "rb", "eq", "nul", "bad"}

ASSUME SourcesAssumption == Sources \subseteq Seq(Char)

\* A variable holds one value or, if multi, a slice of them; a value is a pointer
\* to its type or not (ptr). "scan" are the types whose texts go to fmt.Sscanf:
\* the integers, and what no other setter takes.
ASSUME KindAssumption == /\ Structs \cap Maps = {}
                         /\ \A f \in DOMAIN Kind :
                          Kind[f] \in [multi : BOOLEAN, ptr : BOOLEAN,
                                      of : {"string", "bool", "scan"}]

VARIABLES src,      \* the text
          t,        \* the token readInto looks at, and where the scanner stands
          want,     \* what readInto expects of it
          sect, sub, name, val,
          config,   \* what set stored, by section, subsection and variable
          result,   \* "reading", then what readInto returned: "ok", "error", "panic"
          stmt,     \* history: where the statement being read starts
          from,     \* history: where the text of its value starts
          first     \* history: how the same text was read before, see Reread

parser == <<t, want, sect, sub, name, val, config, result, stmt, from>>
vars == <<src, parser, first>>

---------------------------------------------------------------------------
(* The scanner of a text x, from position i on. *)

Ch(x, i) == IF i \in DOMAIN x THEN x[i] ELSE EOF

\* The first position from i on whose character is not in S.
After(x, S, i) == Min({j \in i..(Len(x) + 1) : Ch(x, j) \notin S})

\* next() reports a byte that is no character as soon as it is the current one.
Readable(x, i) == \A k \in 1..i : Ch(x, k) # "nul"

\* Mutant: the scanner accepts an escape that unquote does not know.
EscapesAndCR(inVal) == {"back", "quote", "n", "cr"}

Escapes(inVal) == {"back", "quote"} \cup (IF inVal THEN {"n"} ELSE {})

\* One turn of the loop in a string; 0 when there is an error.
StringTurn(x, i) ==
    CASE Ch(x, i) \in {"nl", EOF} -> 0
      [] Ch(x, i) = "back" -> IF Ch(x, i + 1) \in Escapes(FALSE) THEN i + 2 ELSE 0
      [] OTHER -> i + 1

\* The closing quote of a string that goes on at i.
scanString(x, i) ==
    LET s[k \in Nat] == IF k = 0 \/ Ch(x, k) = "quote" THEN k ELSE s[StringTurn(x, k)]
    IN  s[i]

\* Mutant: blanks at the end of a value are kept.
EndAfterAny(x, i, end, inQuote) == IF Ch(x, i) # "cr" THEN i + 1 ELSE end

\* Where the literal ends once the character at i is part of the value.
EndAfter(x, i, end, inQuote) == IF inQuote \/ Ch(x, i) \notin White THEN i + 1 ELSE end

\* In the loop of a value: where the scanner stands, where the literal ends as far
\* as it knows, and whether it is inside quotes. at = 0 is the break with an error.
ValueState == [at : Nat, end : Nat, q : BOOLEAN]

BadValue == [at |-> 0, end |-> 0, q |-> FALSE]

AllOfIt(i, inQuote) == [at |-> i, end |-> i, q |-> inQuote]

ValueEnds(x, v) == v.at = 0 \/ (~v.q /\ Ch(x, v.at) \in {EOF, "nl", "semi"})

ValueTurn(x, v) ==
    LET ch == Ch(x, v.at)
        next == v.at + 1
        broken == IF Ch(x, next) = "cr" THEN next + 1 ELSE next
    IN CASE v.q /\ ch \in {EOF, "nl"} -> BadValue
         [] v.q /\ ch = "back" ->
              IF Ch(x, next) \in Escapes(TRUE) THEN AllOfIt(next + 1, TRUE) ELSE BadValue
         [] ~v.q /\ ch = "back" ->
              IF Ch(x, broken) = "nl" THEN AllOfIt(broken + 1, FALSE) ELSE BadValue
         [] ch = "quote" -> AllOfIt(next, ~v.q)
         [] OTHER -> [at |-> next, end |-> EndAfter(x, v.at, v.end, v.q), q |-> v.q]

\* Where the loop leaves a value that it has in hand as v says.
scanValString(x, v) ==
    LET s[w \in ValueState] == IF ValueEnds(x, w) THEN w ELSE s[ValueTurn(x, w)]
    IN  s[v]

\* Mutant: the literal of a broken line keeps its CR.
KeepCR(b) == b

stripCR(b) ==
    LET c[k \in 0..Len(b)] == IF k = 0 THEN <<>>
                              ELSE IF b[k] # "cr" THEN Append(c[k - 1], b[k])
                              ELSE c[k - 1]
    IN  c[Len(b)]

Token(x, kind, lit, start, at) ==
    [kind |-> IF at > 0 /\ Readable(x, at) THEN kind ELSE "ERROR",
     lit |-> lit, start |-> start, at |-> at]

\* The next token from position i on. A comment is skipped up to the end of
\* its line, and counted to the token after it. A value is scanned when the
\* last token was '=' (s.nextVal).
Scan(x, i, nextVal) ==
    LET blank == After(x, White, i)
        p == IF ~nextVal /\ Ch(x, blank) = "semi"
             THEN After(x, Char \ {"nl"}, blank) ELSE blank
        v == scanValString(x, AllOfIt(p, FALSE))
        id == After(x, Letter \cup {"1"}, p)
        e == scanString(x, p + 1)
        One(kind) == Token(x, kind, <<>>, blank, p + 1)
    IN  IF nextVal THEN Token(x, "STRING", stripCR(SubSeq(x, p, v.end - 1)), blank, v.at)
        ELSE CASE Ch(x, p) \in Letter -> Token(x, "IDENT", SubSeq(x, p, id - 1), blank, id)
               [] Ch(x, p) = "quote" -> Token(x, "STRING", SubSeq(x, p, e), blank,
                                             IF e = 0 THEN 0 ELSE e + 1)
               [] Ch(x, p) = EOF   -> Token(x, "EOF", <<>>, blank, p)
               [] Ch(x, p) = "nl"  -> One("EOL")
               [] Ch(x, p) = "lb"  -> One("LBRACK")
               [] Ch(x, p) = "rb"  -> One("RBRACK")
               [] Ch(x, p) = "eq"  -> One("ASSIGN")
               [] OTHER            -> One("ERROR")

---------------------------------------------------------------------------
(* unquote: the value a literal stands for. *)

UnquoteStep(u, c) ==
    IF u.panic THEN u
    ELSE IF u.esc
    THEN CASE c \in {"back", "quote", "n"} ->
                [u EXCEPT !.esc = FALSE, !.out = Append(@, IF c = "n" THEN "nl" ELSE c)]
           [] c = "nl" /\ ~u.q -> [u EXCEPT !.esc = FALSE]
           [] OTHER -> [u EXCEPT !.panic = TRUE]
    ELSE CASE c = "quote" -> [u EXCEPT !.q = ~@]
           [] c = "back" -> [u EXCEPT !.esc = TRUE]
           [] OTHER -> [u EXCEPT !.out = Append(@, c)]

Unread == [out |-> <<>>, q |-> FALSE, esc |-> FALSE, panic |-> FALSE]

\* The state of the loop after all of a literal.
Unquoted(lit) ==
    LET u[k \in 0..Len(lit)] == IF k = 0 THEN Unread ELSE UnquoteStep(u[k - 1], lit[k])
    IN  u[Len(lit)]

unquote(lit) ==
    LET u == Unquoted(lit)
    IN  [out |-> u.out, panic |-> u.panic \/ u.q \/ u.esc]

---------------------------------------------------------------------------
(* set: what one variable of the file does to the configuration. *)

With(c, key, v) == [k \in DOMAIN c \cup {key} |-> IF k = key THEN v ELSE c[k]]

\* A map section gets its subsection before the variable is looked at.
WithSection(c) == IF sect \in Maps THEN With(c, <<sect, sub>>, <<>>) ELSE c

KnownSection == sect \in Maps \/ (sect \in Structs /\ sub = <<>>)

True == <<"1">>

\* The setters. Sscanf stores what it reads of a text (out, <<>> when there is no
\* value of the type) before ScanFully can say whether that is all of it.
Converts(blank, v) ==
    CASE Kind[name].of = "string" -> ~blank
      [] Kind[name].of = "bool"   -> blank \/ v \in Bools
      [] Kind[name].of = "scan"   -> /\ ~blank
                                     /\ Scanned(name, v).out # <<>> /\ Scanned(name, v).all

Converted(blank, v) ==
    CASE Kind[name].of = "string" -> v
      [] Kind[name].of = "bool"   -> IF blank THEN True ELSE v
      [] Kind[name].of = "scan"   -> Scanned(name, v).out

\* The variable exists, and its type takes the value.
Accepts(blank, v) == /\ name \in DOMAIN Kind
                     /\ (Kind[name].multi /\ blank) \/ Converts(blank, v)

Stored(c, blank, v) ==
    LET key == <<sect, sub, name>>
        old == IF key \in DOMAIN c THEN c[key] ELSE <<>>
    IN  With(c, key, IF ~Kind[name].multi THEN <<Converted(blank, v)>>
                     ELSE IF blank THEN <<>> ELSE Append(old, Converted(blank, v)))

\* A setter that fails has the variable itself in hand, but for an element of a
\* slice and for a pointer that was nil: what Sscanf has read stays in it.
HalfSet(c, key, v) ==
    IF /\ key[3] \in DOMAIN Kind /\ Kind[key[3]].of = "scan" /\ ~Kind[key[3]].multi
       /\ Kind[key[3]].ptr => key \in DOMAIN c
       /\ Scanned(key[3], v).out # <<>>
    THEN With(c, key, <<Scanned(key[3], v).out>>)
    ELSE c

\* readInto goes on with the next statement, or returns the error of set.
Set(blank, v) ==
    IF KnownSection /\ Accepts(blank, v)
    THEN /\ config' = Stored(WithSection(config), blank, v)
         /\ want' = "statement"
         /\ UNCHANGED result
    ELSE /\ config' = IF ~KnownSection THEN config
                     ELSE IF blank THEN WithSection(config)
                     ELSE HalfSet(WithSection(config), <<sect, sub, name>>, v)
         /\ result' = "error"
         /\ UNCHANGED want

---------------------------------------------------------------------------
(* readInto. *)

Fresh == [result |-> "none", config |-> <<>>, refused |-> <<>>, how |-> "none"]

Init == /\ src \in Sources
        /\ t = Scan(src, 1, FALSE)
        /\ want = "statement" /\ result = "reading"
        /\ sect = <<>> /\ sub = <<>> /\ name = <<>> /\ val = <<>> /\ config = <<>>
        /\ stmt = 1 /\ from = 1
        /\ first = Fresh

Looking(w) == result = "reading" /\ want = w

\* The end of a line, or of the text: comments are never returned (mode 0).
AtEnd == t.kind \in {"EOL", "EOF"}

ScanNext == t' = Scan(src, t.at, t.kind = "ASSIGN")

\* The returns with an error, and the panics of unquote.
Fail == /\ result' = "error"
        /\ UNCHANGED <<t, want, sect, sub, name, val, config, from>>

Panic == /\ result' = "panic"
         /\ UNCHANGED <<t, want, sect, sub, name, val, config, stmt, from>>

EndOfText == /\ Looking("statement") /\ t.kind = "EOF"
             /\ result' = "ok"
             /\ UNCHANGED <<t, want, sect, sub, name, val, config, stmt, from>>

\* Mutant: the end of a line is looked at and not consumed.
StayAtEnd == /\ Looking("statement") /\ t.kind = "EOL"
             /\ UNCHANGED <<t, want, sect, sub, name, val, config, result, stmt, from>>

EndOfLine == /\ Looking("statement") /\ t.kind = "EOL"
             /\ ScanNext
             /\ UNCHANGED <<want, sect, sub, name, val, config, result, stmt, from>>

Bracket == /\ Looking("statement") /\ t.kind = "LBRACK"
           /\ ScanNext
           /\ want' = "section"
           /\ stmt' = t.start
           /\ UNCHANGED <<sect, sub, name, val, config, result, from>>

Variable == /\ Looking("statement") /\ t.kind = "IDENT" /\ sect # <<>>
            /\ ScanNext
            /\ name' = t.lit
            /\ want' = "assign"
            /\ stmt' = t.start
            /\ UNCHANGED <<sect, sub, val, config, result, from>>

NotAStatement ==
    /\ Looking("statement")
    /\ \/ t.kind \notin {"EOF", "EOL", "LBRACK", "IDENT"}
       \/ (t.kind = "IDENT" /\ sect = <<>>)
    /\ stmt' = t.start
    /\ Fail

Section == /\ Looking("section") /\ t.kind = "IDENT"
           /\ ScanNext
           /\ sect' = t.lit /\ sub' = <<>>
           /\ want' = "subsection"
           /\ UNCHANGED <<name, val, config, result, stmt, from>>

Subsection == /\ Looking("subsection") /\ t.kind = "STRING"
              /\ LET u == unquote(t.lit)
                 IN  IF u.panic THEN Panic
                     ELSE IF u.out = <<>> THEN Fail /\ UNCHANGED stmt
                     ELSE /\ sub' = u.out
                          /\ ScanNext
                          /\ want' = "bracket"
                          /\ UNCHANGED <<sect, name, val, config, result, stmt, from>>

CloseBracket == /\ \/ Looking("subsection")
                   \/ Looking("bracket")
                /\ t.kind = "RBRACK"
                /\ ScanNext
                /\ want' = "header end"
                /\ UNCHANGED <<sect, sub, name, val, config, result, stmt, from>>

HeaderEnd == /\ Looking("header end") /\ AtEnd
             /\ want' = "statement"
             /\ UNCHANGED <<t, sect, sub, name, val, config, result, stmt, from>>

SetBlank == /\ Looking("assign") /\ AtEnd
            /\ Set(TRUE, <<>>)
            /\ UNCHANGED <<t, sect, sub, name, val, stmt, from>>

Assign == /\ Looking("assign") /\ t.kind = "ASSIGN"
          /\ ScanNext
          /\ from' = t.at
          /\ want' = "value"
          /\ UNCHANGED <<sect, sub, name, val, config, result, stmt>>

\* Mutant: the value is stored before the rest of its line is scanned.
StoreEarly == /\ Looking("value") /\ t.kind = "STRING"
              /\ LET u == unquote(t.lit)
                 IN  IF u.panic THEN Panic
                     ELSE /\ val' = u.out
                          /\ ScanNext
                          /\ want' = "value end"
                          /\ config' = IF KnownSection /\ Accepts(FALSE, u.out)
                                       THEN Stored(config, FALSE, u.out) ELSE config
                          /\ UNCHANGED <<sect, sub, name, result, stmt, from>>

Value == /\ Looking("value") /\ t.kind = "STRING"
         /\ LET u == unquote(t.lit)
            IN  IF u.panic THEN Panic
                ELSE /\ val' = u.out
                     /\ ScanNext
                     /\ want' = "value end"
                     /\ UNCHANGED <<sect, sub, name, config, result, stmt, from>>

SetValue == /\ Looking("value end") /\ AtEnd
            /\ Set(FALSE, val)
            /\ UNCHANGED <<t, sect, sub, name, val, stmt, from>>

\* The token is not what readInto expects there.
Unexpected ==
    /\ \/ Looking("section") /\ t.kind # "IDENT"
       \/ Looking("subsection") /\ t.kind \notin {"STRING", "RBRACK"}
       \/ Looking("bracket") /\ t.kind # "RBRACK"
       \/ Looking("header end") /\ ~AtEnd
       \/ Looking("assign") /\ ~AtEnd /\ t.kind # "ASSIGN"
       \/ Looking("value") /\ t.kind # "STRING"
       \/ Looking("value end") /\ ~AtEnd
    /\ Fail
    /\ UNCHANGED stmt

Read == /\ \/ EndOfText \/ EndOfLine \/ Bracket \/ Variable \/ NotAStatement
           \/ Section \/ Subsection \/ CloseBracket \/ HeaderEnd \/ SetBlank
           \/ Assign \/ Value \/ SetValue \/ Unexpected
        /\ UNCHANGED <<src, first>>

---------------------------------------------------------------------------
(* The same configuration is read again, from the text with CR LF line     *)
(* ends, or, after an error, from what precedes the failing statement.     *)

Dos(x) ==
    LET y[k \in 0..Len(x)] == IF k = 0 THEN <<>>
                              ELSE IF x[k] = "nl" /\ (k = 1 \/ x[k - 1] # "cr")
                              THEN Append(Append(y[k - 1], "cr"), "nl")
                              ELSE Append(y[k - 1], x[k])
    IN  y[Len(x)]

\* The variable and the value that set has refused, if it is set that failed.
Refused == IF want = "value end" /\ AtEnd /\ KnownSection
           THEN <<<<sect, sub, name>>, val>> ELSE <<>>

ReadAs(how) == [result |-> result, config |-> config, refused |-> Refused, how |-> how]

Reread == /\ result # "reading" /\ first.how = "none"
          /\ \/ /\ src' = Dos(src)
                /\ first' = ReadAs("dos")
             \/ /\ result = "error"
                /\ src' = SubSeq(src, 1, stmt - 1)
                /\ first' = ReadAs("cut")
          /\ t' = Scan(src, 1, FALSE)'
          /\ want' = "statement" /\ result' = "reading"
          /\ sect' = <<>> /\ sub' = <<>> /\ name' = <<>> /\ val' = <<>> /\ config' = <<>>
          /\ stmt' = 1 /\ from' = 1

Next == Read \/ Reread

Spec == Init /\ [][Next]_vars /\ WF_vars(Read)

---------------------------------------------------------------------------
(* Properties. *)

\* read.go:18 says of unquote "no error: invalid literals should be caught by
\* scanner": the escapes and quotes of scanString, scanValString and stripCR
\* and those of unquote are two pieces of code that must agree on every text.
NeverPanics == result # "panic"

\* The members of s at the places of T, in their order.
Picked(s, T) ==
    LET Nth(k) == Min({j \in T : Cardinality({h \in T : h <= j}) = k})
    IN  [k \in 1..Cardinality(T) |-> s[Nth(k)]]

\* A run of backslashes before the place k, that escape each other, leaves one.
EscapedAt(x, k) ==
    Cardinality({j \in 1..(k - 1) : \A m \in j..(k - 1) : x[m] = "back"}) % 2 = 1

\* Of the quotes before the place k one is still open.
QuotedAt(x, k) ==
    Cardinality({j \in 1..(k - 1) : x[j] = "quote" /\ ~EscapedAt(x, j)}) % 2 = 1

StopsAt(x, k) == x[k] \in {"nl", "semi"} /\ ~QuotedAt(x, k) /\ ~EscapedAt(x, k)

KeptAt(x, k) == IF EscapedAt(x, k) THEN x[k] # "nl" ELSE x[k] \notin {"quote", "back"}

MeantAt(x, k) == IF EscapedAt(x, k) /\ x[k] = "n" THEN "nl" ELSE x[k]

\* What the text from i on means as a value, said of the whole text at once:
\* CR is nothing, leading and trailing blanks are dropped, quotes keep blanks
\* and comment signs, a backslash escapes one character or joins two lines.
Written(i) ==
    LET rest == SubSeq(src, i, Len(src))
        all == Picked(rest, {k \in DOMAIN rest : rest[k] # "cr"})
        lead == Min({k \in 1..(Len(all) + 1) : k > Len(all) \/ all[k] # "sp"})
        x == SubSeq(all, lead, Len(all))
        end == Min({k \in 1..(Len(x) + 1) : k > Len(x) \/ StopsAt(x, k)})
        last == Max({0} \cup {k \in 1..(end - 1) : QuotedAt(x, k) \/ x[k] # "sp"})
    IN  Picked([k \in 1..last |-> MeantAt(x, k)], {k \in 1..last : KeptAt(x, k)})

\* A value that is about to be set is the one the text means: the literal
\* the scanner cuts out (its end moves behind the reading position, comments
\* and blanks look different inside quotes, CRs are taken out later) and the
\* second pass over it in unquote compose to the meaning of the text.
ValueReadAsWritten == Looking("value end") => val = Written(from)

\* A file saved with CR LF line ends reads as the one with LF (read_test.go
\* has three of its texts with them): same result, same configuration, also
\* after broken lines, comments, blank values and errors.
LineEndingsAgree ==
    first.how = "dos" /\ result # "reading" =>
        result = first.result /\ config = first.config

Values(c) == {<<k, c[k]>> : k \in {k \in DOMAIN c : Len(k) = 3}}

\* The configuration c once set has refused r.
AfterRefusal(c, r) == IF r = <<>> THEN c ELSE HalfSet(c, r[1], r[2])

\* A reading that fails leaves in the configuration exactly the values that
\* the statements before the failing one set, and one thing more: the number
\* that a refused value begins with ("rf = 3x" fails and sets 3). Nothing else
\* of the failing statement is stored, none of the earlier values is lost, and
\* a line that turns out to be broken behind its value has not touched the
\* variable. (There may be an entry for a subsection, see WithSection.)
FailureKeepsPrefix ==
    first.how = "cut" /\ result # "reading" =>
        /\ result = "ok"
        /\ Values(first.config) = Values(AfterRefusal(config, first.refused))

\* readInto returns for every text: the scanner always makes progress.
ReadReturns == <>(result # "reading")
=============================================================================
