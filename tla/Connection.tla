----------------------------- MODULE Connection -----------------------------
(***************************************************************************)
(* One client connection of src/src/cacher/cacher.go: process_connection   *)
(* with its bufio.Scanner and its read deadline, and the checks parse      *)
(* makes of a line before it is fanned out.  What becomes of a line then,  *)
(* and that parse returns, is module Relay's; here parse takes any time.   *)
(***************************************************************************)
EXTENDS Naturals, Sequences, FiniteSets, SequencesExt

CONSTANTS
  Streams,    \* what a client may write, sequences of characters
  Allowed,    \* characters boss.MetricFunc lets pass in a metric name
  Ints,       \* texts strconv.ParseInt takes
  Floats,     \* texts strconv.ParseFloat takes
  MinLen,     \* shortest input parse looks at (15 in the code)
  MaxToken,   \* size of the Scanner's buffer, a line end included (65536)
  Deadline    \* ticks of the read deadline (60 s in the code)

CONSTANTS NL, CR, Blank    \* the characters \n, \r and space

ASSUME ConnectionAssumption ==
  /\ Cardinality({NL, CR, Blank}) = 3
  /\ MinLen \in Nat /\ MaxToken \in Nat \ {0} /\ Deadline \in Nat \ {0}
  /\ << >> \notin Ints /\ << >> \notin Floats
  /\ \A s \in Streams : s \in Seq(Range(s))

VARIABLES
  stream, wrote, open,  \* the client: what it wants to write, how much of it
                        \* it has written, whether it has the connection open
  got, used,            \* Scanner: characters read, characters given out
  err,                  \* Scanner: why it stops, "none" before
  pc,                   \* process_connection
  left,                 \* ticks until the read deadline
  token,                \* what parse was called with
  accepted              \* lines that passed parse's checks

\* History: the tokens, and the ticks the Scanner waited since the last one.
VARIABLES tokens, waited

client  == <<stream, wrote, open>>
handler == <<got, used, err, pc, token, accepted, tokens>>
vars == <<client, handler, left, waited>>

\* How many of a set of numbers are below x, and the member with k below it.
Rank(S, x) == Cardinality({y \in S : y < x})
Nth(S, k)  == CHOOSE x \in S : Rank(S, x) = k

Init ==
  /\ stream \in Streams /\ wrote = 0 /\ open = TRUE
  /\ got = 0 /\ used = 0 /\ err = "none" /\ pc = "scan"
  /\ left = Deadline /\ waited = 0
  /\ token = << >> /\ accepted = << >> /\ tokens = << >>

-----------------------------------------------------------------------------
(* The client, and time *)

Write ==
  /\ open /\ wrote < Len(stream)
  /\ wrote' = wrote + 1
  /\ UNCHANGED <<stream, open, handler, left, waited>>

\* The client closes or dies, in the middle of a line perhaps.
Hangup ==
  /\ open /\ open' = FALSE
  /\ UNCHANGED <<stream, wrote, handler, left, waited>>

-----------------------------------------------------------------------------
(* bufio.Scanner with ScanLines *)

Buffer == SubSeq(stream, used + 1, got)

DropCR(s) == IF s # << >> /\ Last(s) = CR THEN Front(s) ELSE s

HasLine == NL \in Range(Buffer)

LineEnd == Min({i \in DOMAIN Buffer : Buffer[i] = NL})

\* A line without its end; what there is of one when reading has failed.
Token == DropCR(IF HasLine THEN SubSeq(Buffer, 1, LineEnd - 1) ELSE Buffer)

\* Mutant: one character too many is skipped.
AdvanceTooFar == IF HasLine THEN used + LineEnd + 1 ELSE got

Advance == IF HasLine THEN used + LineEnd ELSE got

\* Mutant: an unfinished line is thrown away at the end.
CompleteOnly == HasLine

CanSplit == HasLine \/ (err # "none" /\ Buffer # << >>)

\* A token is found in the buffer: scanner.Scan() is true, parse is called.
Split ==
  /\ pc = "scan" /\ err # "too long" /\ CanSplit
  /\ token' = Token /\ tokens' = Append(tokens, Token)
  /\ used' = Advance
  /\ pc' = "parse"
  /\ UNCHANGED <<client, got, err, left, accepted, waited>>

MustRead == pc = "scan" /\ err = "none" /\ ~HasLine

BufferFull == Len(Buffer) >= MaxToken

\* Mutant: the deadline passes unnoticed.
NeverExpires == FALSE

Expired == left = 0

\* Some of what has arrived is read, as much as there is room for.
Read ==
  /\ MustRead /\ ~BufferFull /\ ~Expired
  /\ \E n \in 1..(wrote - got) :
       /\ Len(Buffer) + n <= MaxToken
       /\ got' = got + n
  /\ UNCHANGED <<client, used, err, pc, token, accepted, tokens, left, waited>>

\* ErrTooLong, the end of the file, or the deadline, which comes before data.
ReadFails ==
  /\ MustRead
  /\ \/ BufferFull /\ err' = "too long"
     \/ ~BufferFull /\ Expired /\ err' = "timeout"
     \/ ~BufferFull /\ ~Expired /\ ~open /\ got = wrote /\ err' = "EOF"
  /\ UNCHANGED <<client, got, used, pc, token, accepted, tokens, left, waited>>

\* Or an error of the connection, a reset say, which loses what was not read yet.
SocketError ==
  /\ MustRead /\ ~BufferFull /\ ~Expired
  /\ err' = "reset"
  /\ UNCHANGED <<client, got, used, pc, token, accepted, tokens, left, waited>>

\* scanner.Scan() is false: the socket is closed.
Close ==
  /\ pc = "scan" /\ err # "none" /\ (err = "too long" \/ ~CanSplit)
  /\ pc' = "closed"
  /\ UNCHANGED <<client, got, used, err, token, accepted, tokens, left, waited>>

-----------------------------------------------------------------------------
(* parse *)

\* strings.Fields: a field begins behind a space or at the start and goes as
\* far as there is none; the Trim before it takes nothing that Fields leaves.
Spaces == {Blank, CR}
Starts(s) == {i \in DOMAIN s : s[i] \notin Spaces /\ (i = 1 \/ s[i - 1] \in Spaces)}
FieldEnd(s, i) == Max({j \in i..Len(s) : \A k \in i..j : s[k] \notin Spaces})
FieldFrom(s, i) == SubSeq(s, i, FieldEnd(s, i))
Fields(s) == [k \in 1..Cardinality(Starts(s)) |-> FieldFrom(s, Nth(Starts(s), k - 1))]

Accepts(s) ==
  /\ Len(s) >= MinLen
  /\ Len(Fields(s)) = 3
  /\ Range(Fields(s)[1]) \subseteq Allowed
  /\ Fields(s)[3] \in Ints /\ Fields(s)[2] \in Floats

\* Mutant: the deadline is left as it was set at the start.
KeepDeadline == UNCHANGED left

RenewDeadline == left' = Deadline

\* parse returns, after whatever time it took.
Parse ==
  /\ pc = "parse"
  /\ accepted' = IF Accepts(token) THEN Append(accepted, Fields(token)) ELSE accepted
  /\ RenewDeadline /\ waited' = 0
  /\ pc' = "scan"
  /\ UNCHANGED <<client, got, used, err, token, tokens>>

\* Time passes while the handler is blocked: in parse, or in a read for which
\* nothing has arrived.
Tick ==
  /\ left > 0
  /\ pc = "parse" \/ (MustRead /\ ~BufferFull /\ open /\ got = wrote)
  /\ left' = left - 1
  /\ waited' = IF pc = "scan" THEN waited + 1 ELSE waited
  /\ UNCHANGED <<client, handler>>

Next == Write \/ Hangup \/ Split \/ Read \/ ReadFails \/ SocketError \/ Close \/ Parse
        \/ Tick

Spec == Init /\ [][Next]_vars

\* The handler runs when it can, parse returns (Relay's ParseReturns) and time
\* goes on; the client need not write on nor hang up, and no error need come.
FairSpec ==
  Spec /\ WF_vars(Split) /\ WF_vars(Read) /\ WF_vars(ReadFails)
       /\ WF_vars(Close) /\ WF_vars(Parse) /\ WF_vars(Tick)
-----------------------------------------------------------------------------
(* Properties *)

\* The lines s says, and what is left behind the last of them.
Breaks(s)  == {0} \cup {i \in DOMAIN s : s[i] = NL}
LinesOf(s) ==
  [k \in 1..(Cardinality(Breaks(s)) - 1) |->
     DropCR(SubSeq(s, Nth(Breaks(s), k - 1) + 1, Nth(Breaks(s), k) - 1))]
RestOf(s)  == SubSeq(s, Max(Breaks(s)) + 1, Len(s))

Written == SubSeq(stream, 1, wrote)

\* However the network cuts the stream up, parse is called with the client's
\* lines, in order, each once.  Only the last call may be for the beginning of
\* a line, which the end of the file, the deadline or an error cut off; the end
\* of the file leaves nothing out, and the handler stops behind such a line.
LinesFaithful ==
  /\ \/ IsPrefix(tokens, LinesOf(Written))
     \/ /\ err \in {"EOF", "timeout", "reset"}
        /\ IsPrefix(Front(tokens), LinesOf(Written))
        /\ LET n == Len(tokens) IN
           IsPrefix(Last(tokens),
                    Append(LinesOf(Written), DropCR(RestOf(Written)))[n])
  /\ pc = "closed" /\ err = "EOF" =>
       tokens = LinesOf(Written)
                  \o IF RestOf(Written) = << >> THEN << >> ELSE <<DropCR(RestOf(Written))>>
  /\ pc = "closed" /\ err = "too long" =>
       \E i \in DOMAIN LinesOf(stream \o <<NL>>) :
         Len(LinesOf(stream \o <<NL>>)[i]) >= MaxToken - 1

\* A client is not cut off for the time parse was blocked: when the deadline
\* strikes, the handler has waited for a line for all of it.
TimeoutEarned ==
  [][err = "none" /\ err' = "timeout" => waited = Deadline]_vars

\* A line that was cut off may pass parse's checks, but then only its last
\* field is cut: no metric name and no value that the client did not write.
MetricNeverCut ==
  \A i \in DOMAIN accepted :
    \E j \in DOMAIN LinesOf(stream \o <<NL>>) :
      LET fs == Fields(LinesOf(stream \o <<NL>>)[j]) IN
      /\ Len(fs) >= 3
      /\ accepted[i][1] = fs[1] /\ accepted[i][2] = fs[2]
      /\ IsPrefix(accepted[i][3], fs[3])

\* A client that dies or falls silent does not keep its handler for ever.
ConnectionEnds == <>(pc = "closed")
=============================================================================
