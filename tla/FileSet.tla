------------------------------- MODULE FileSet -------------------------------
(***************************************************************************)
(* The positions of src/src/code.google.com/p/gcfg/token/position.go and   *)
(* serialize.go: a FileSet whose methods goroutines may call concurrently, *)
(* the files in it with their tables of lines, and the cache of the file   *)
(* looked up last, which lookups write while they hold only a read lock.   *)
(* File.Position takes no lock: each use it makes of a table is a step of  *)
(* its own, and a change may come between any two.  A use reads the slice  *)
(* header whole: what a torn header would do is not modelled.              *)
(***************************************************************************)
EXTENDS Integers, Sequences, FiniteSets, SequencesExt

CONSTANTS
  Readers,   \* goroutines that look positions up
  Callers,   \* those of them that call File.Position too
  Handles,   \* Files that may come to be, numbers from 1 on
  MaxFiles,  \* bound: files of a set
  Sizes,     \* inputs: size of AddFile
  Gaps,      \* inputs: how far base of AddFile is beyond Base()
  Tables,    \* inputs: tables of SetLines
  Infos,     \* inputs: offset and line of AddLineInfo
  MaxInfos,  \* bound: alternative lines of a file
  MaxPos     \* bound: positions looked up

ASSUME FileSetAssumption ==
  /\ Callers \subseteq Readers
  /\ Handles = 1..Cardinality(Handles)
  /\ Sizes \subseteq Nat /\ Gaps \subseteq Int /\ Tables \subseteq Seq(Nat)
  /\ Infos \subseteq [Offset : Nat, Line : Nat] /\ MaxFiles \in Nat
  /\ MaxInfos \in Nat /\ MaxPos \in Nat

VARIABLES
  base, files, last,  \* the FileSet; files and last hold handles, last 0 for nil
  file,               \* the Files made so far, by handle
  saved,              \* what Write encoded
  reader              \* lookups: the locals of file() and of File.info.  History:
                      \* table, the lines there were at the call; seen, how many
                      \* infos there were when they were searched; kept, nothing
                      \* has replaced the lines since the call

set  == <<base, files, last>>
vars == <<set, file, saved, reader>>

Idle == [pc |-> "idle", p |-> 0, f |-> 0, i |-> 0, line |-> 0, column |-> 0,
         table |-> << >>, seen |-> 0, kept |-> TRUE]

Init ==
  /\ base = 1 /\ files = << >> /\ last = 0 /\ file = << >>
  /\ saved = [base |-> 1, files |-> << >>]
  /\ reader = [r \in Readers |-> Idle]

\* Lookups that hold set.mutex; what changes the set waits for them.
ReadersInside == \E r \in Readers : reader[r].pc \in {"search", "found"}

-----------------------------------------------------------------------------
(* Changes, each under the lock *)

\* Mutant: no position for the end of the file.
WithoutEOF(b, size) == b + size

NextBase(b, size) == b + size + 1

AddFile(gap, size) ==
  /\ ~ReadersInside /\ Len(files) < MaxFiles /\ Len(file) + 1 \in Handles
  /\ gap >= 0 /\ size >= 0      \* it panics otherwise
  /\ file' = Append(file, [base |-> base + gap, size |-> size, lines |-> <<0>>,
                           infos |-> << >>])
  /\ files' = Append(files, Len(file) + 1)
  /\ last' = Len(file) + 1
  /\ base' = NextBase(base + gap, size)
  /\ UNCHANGED <<saved, reader>>

\* Mutant: a line is taken wherever it lies.
Anywhere(lines, offset) == TRUE

ComesAfter(lines, offset) == lines # << >> => Last(lines) < offset

\* A line that does not come after the ones there are, or lies beyond the file,
\* is ignored.
AddLine(f, offset) ==
  /\ ~ReadersInside
  /\ ComesAfter(file[f].lines, offset)
  /\ offset < file[f].size
  /\ file' = [file EXCEPT ![f].lines = Append(@, offset)]
  /\ UNCHANGED <<set, saved, reader>>

\* Inside File.info, without the lock.
Unlocked == {"column", "infos", "count"}

\* SetLines, which looks at the new table before it takes the lock.
SetLines(f, lines) ==
  /\ ~ReadersInside
  /\ \A i \in DOMAIN lines :
       lines[i] < file[f].size /\ (i > 1 => lines[i - 1] < lines[i])
  /\ file' = [file EXCEPT ![f].lines = lines]
  /\ reader' = [r \in Readers |->
       IF reader[r].f = f /\ reader[r].pc \in Unlocked
       THEN [reader[r] EXCEPT !.kept = FALSE] ELSE reader[r]]
  /\ UNCHANGED <<set, saved>>

\* && binds tighter than ||: the first info is taken whatever its offset.
AddLineInfo(f, alt) ==
  /\ ~ReadersInside
  /\ file[f].infos # << >> =>
       Last(file[f].infos).Offset < alt.Offset /\ alt.Offset < file[f].size
  /\ file' = [file EXCEPT ![f].infos = Append(@, alt)]
  /\ UNCHANGED <<set, saved, reader>>

\* The slices are copied under the lock and encoded after it: append, the only
\* write to a table, leaves the part they show as it is.
WriteSet ==
  /\ ~ReadersInside
  /\ saved' = [base |-> base, files |-> [i \in DOMAIN files |-> file[files[i]]]]
  /\ UNCHANGED <<set, file, reader>>

\* Mutant: the cache is kept.
KeepLast == UNCHANGED last

ResetLast == last' = 0

\* What was written is read back, into new Files; the old ones live on with
\* whoever holds them.
ReadSet ==
  /\ ~ReadersInside /\ Len(file) + Len(saved.files) \in Handles
  /\ base' = saved.base
  /\ file' = file \o saved.files
  /\ files' = [i \in DOMAIN saved.files |-> Len(file) + i]
  /\ ResetLast
  /\ UNCHANGED <<saved, reader>>

-----------------------------------------------------------------------------
(* Lookups; indices count from 0 as in the code *)

\* The loop of searchInts: where it ends, less one, from any <<i, j>> on.
Bisection(a, x) ==
  LET bisect[r \in (0..Len(a)) \X (0..Len(a))] ==
        LET i == r[1]  j == r[2]  h == i + (j - i) \div 2 IN
        IF i >= j THEN i - 1
        ELSE IF a[h + 1] <= x THEN bisect[<<h + 1, j>>] ELSE bisect[<<i, h>>]
  IN bisect

searchInts(a, x) == Bisection(a, x)[<<0, Len(a)>>]

searchFiles(p) == searchInts([k \in DOMAIN files |-> file[files[k]].base], p)

searchLineInfos(infos, x) == searchInts([k \in DOMAIN infos |-> infos[k].Offset], x)

Holds(f, p) == file[f].base <= p /\ p <= file[f].base + file[f].size

\* The read lock is taken and the cache looked at; p # NoPos.
Lookup(r, p) ==
  /\ reader[r].pc = "idle"
  /\ reader' = [reader EXCEPT ![r] = [Idle EXCEPT !.p = p,
       !.pc = IF last # 0 /\ Holds(last, p) THEN "found" ELSE "search",
       !.f  = IF last # 0 /\ Holds(last, p) THEN last ELSE 0]]
  /\ UNCHANGED <<set, file, saved>>

\* All files are searched, and the cache is written, by any number of readers.
Search(r) ==
  LET i == searchFiles(reader[r].p)
      f == IF i >= 0 /\ Holds(files[i + 1], reader[r].p) THEN files[i + 1] ELSE 0
  IN
  /\ reader[r].pc = "search"
  /\ reader' = [reader EXCEPT ![r].pc = "found", ![r].f = f]
  /\ last' = IF f = 0 THEN last ELSE f
  /\ UNCHANGED <<base, files, file, saved>>

Column(lines, i, offset) == offset - lines[i + 1] + 1

\* What is added to the line: an alternative line is counted on from the line it
\* was given for.
CountedOn(lines, alt) ==
  LET i == searchInts(lines, alt.Offset) IN IF i >= 0 THEN alt.Line - i - 1 ELSE 0

\* File.info under the read lock; line 0 where there are no lines.
info(f, offset) ==
  LET i == searchInts(file[f].lines, offset)
      k == searchLineInfos(file[f].infos, offset)
  IN [Line   |-> (IF i >= 0 THEN i + 1 ELSE 0)
                   + (IF k >= 0 THEN CountedOn(file[f].lines, file[f].infos[k + 1]) ELSE 0),
      Column |-> IF i >= 0 THEN Column(file[f].lines, i, offset) ELSE 0]

\* FileSet.File and Position return; the answer is f and info.
Return(r) ==
  /\ reader[r].pc \in {"found", "done", "panic"}
  /\ reader' = [reader EXCEPT ![r] = Idle]
  /\ UNCHANGED <<set, file, saved>>

\* File.Position, without a lock: the line is found in one table ...
FindLine(r, f, p) ==
  /\ reader[r].pc = "idle" /\ Holds(f, p)
  /\ LET i == searchInts(file[f].lines, p - file[f].base) IN
     reader' = [reader EXCEPT ![r] = [Idle EXCEPT
       !.pc = IF i >= 0 THEN "column" ELSE "infos", !.p = p, !.f = f, !.i = i,
       !.line = IF i >= 0 THEN i + 1 ELSE 0, !.table = file[f].lines]]
  /\ UNCHANGED <<set, file, saved>>

\* ... its column from the table that is there then ...
FindColumn(r) ==
  LET at == reader[r]  lines == file[at.f].lines IN
  /\ at.pc = "column"
  /\ reader' = [reader EXCEPT ![r] =
       IF at.i < Len(lines)
       THEN [at EXCEPT !.pc = "infos", !.column = Column(lines, at.i, at.p - file[at.f].base)]
       ELSE [at EXCEPT !.pc = "panic"]]
  /\ UNCHANGED <<set, file, saved>>

\* ... the alternative line from the infos, which only grow ...
FindInfo(r) ==
  LET at == reader[r]
      i  == searchLineInfos(file[at.f].infos, at.p - file[at.f].base)
  IN
  /\ at.pc = "infos"
  /\ reader' = [reader EXCEPT ![r] = [at EXCEPT
       !.pc = IF i >= 0 THEN "count" ELSE "done", !.i = i,
       !.seen = Len(file[at.f].infos)]]
  /\ UNCHANGED <<set, file, saved>>

\* ... and where it counts from is searched for in the lines once more.
CountOn(r) ==
  LET at == reader[r] IN
  /\ at.pc = "count"
  /\ reader' = [reader EXCEPT ![r] = [at EXCEPT !.pc = "done",
       !.line = @ + CountedOn(file[at.f].lines, file[at.f].infos[at.i + 1])]]
  /\ UNCHANGED <<set, file, saved>>

Change ==
  \/ \E gap \in Gaps, size \in Sizes : AddFile(gap, size)
  \/ \E f \in DOMAIN file :
       \/ \E offset \in 0..file[f].size : AddLine(f, offset)
       \/ \E lines \in Tables : SetLines(f, lines)
       \/ Len(file[f].infos) < MaxInfos /\ \E alt \in Infos : AddLineInfo(f, alt)
  \/ WriteSet
  \/ ReadSet

Next ==
  \/ Change
  \/ \E r \in Readers :
       \/ \E p \in 1..MaxPos : Lookup(r, p)
       \/ r \in Callers /\ \E f \in DOMAIN file, p \in 1..MaxPos : FindLine(r, f, p)
       \/ Search(r)
       \/ FindColumn(r)
       \/ FindInfo(r)
       \/ CountOn(r)
       \/ Return(r)

Spec == Init /\ [][Next]_vars

-----------------------------------------------------------------------------
(* Properties *)

\* Whatever is added, written and read back: the files' ranges lie one behind
\* the other, the ends of files included, below the base of the next.
RangesDisjoint ==
  \A i \in DOMAIN files :
    /\ file[files[i]].base + file[files[i]].size < base
    /\ \A j \in DOMAIN files : i < j =>
         file[files[i]].base + file[files[i]].size < file[files[j]].base

\* The last line start at or before offset, from the table as a whole.
LineOf(lines, offset) == Cardinality({i \in DOMAIN lines : lines[i] <= offset})

\* The line and column the tables of a file give an offset.
AnswerOf(lines, infos, offset) ==
  LET n    == LineOf(lines, offset)
      alts == {k \in DOMAIN infos : infos[k].Offset <= offset}
      alt  == infos[Max(alts)]
      from == LineOf(lines, alt.Offset)
  IN [Line   |-> IF alts # {} /\ from > 0 THEN alt.Line + n - from ELSE n,
      Column |-> IF n > 0 THEN offset - lines[n] + 1 ELSE 0]

\* f and info(f, p) answer p: f is the file of the set that holds p, 0 where none
\* does, and line and column are what the tables of f say.
Answers(f, p) ==
  /\ f = 0 => \A i \in DOMAIN files : ~Holds(files[i], p)
  /\ f # 0 =>
       LET offset == p - file[f].base IN
       /\ f \in Range(files) /\ Holds(f, p)
       /\ info(f, offset) = AnswerOf(file[f].lines, file[f].infos, offset)

\* "Methods of file sets are synchronized; multiple goroutines may invoke them
\* concurrently": however lookups write the cache under one another, each
\* answers the file of the set that holds its position, if one does, and there
\* the line and column its tables say.
LookupRight ==
  \A r \in Readers : reader[r].pc = "found" => Answers(reader[r].f, reader[r].p)

\* File.Position has ended with what these lines say, and the infos it saw.
AnswersFrom(at, lines) ==
  [Line |-> at.line, Column |-> at.column] =
    AnswerOf(lines, SubSeq(file[at.f].infos, 1, at.seen), at.p - file[at.f].base)

\* Every info up to the position, of those the lookup saw, is given for an offset
\* before the last line there was at the call.
Settled(at) ==
  \A k \in 1..at.seen :
    LET offset == file[at.f].infos[k].Offset IN
    offset <= at.p - file[at.f].base => at.table # << >> /\ offset < Last(at.table)

\* File.Position takes no lock.  While lines are only added it does not panic, and
\* where no info up to the position lies on or behind the last line, it answers
\* what the lines at the call say, however many are added between its steps.
\* Elsewhere it need not: with the line 0 and the line 7 given for offset 1, the
\* line that begins at 1, added behind the first search, makes it answer 6.
SettledPositionsRight ==
  \A r \in Readers : reader[r].kept =>
    /\ reader[r].pc # "panic"
    /\ reader[r].pc = "done" /\ Settled(reader[r]) => AnswersFrom(reader[r], reader[r].table)
=============================================================================
