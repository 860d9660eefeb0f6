--------------------------- MODULE FileSetProofs ---------------------------
(***************************************************************************)
(* Theorems about file sets, for any number of files of any size, tables   *)
(* of any length and any use of Write and Read: no two files of a set      *)
(* share a position, the positions of their ends included; every lookup    *)
(* answers the file, line and column of its position; and the bisection    *)
(* they rest on finds what it should in every ascending table.             *)
(***************************************************************************)
EXTENDS FileSet, TLAPS, SequenceTheorems, FiniteSetTheorems, WellFoundedInduction

Info == [Offset : Nat, Line : Nat]
File == [base : Int, size : Nat, lines : Seq(Nat), infos : Seq(Info)]

\* The ranges of the files fs lie one behind the other, below b.
Apart(b, fs) ==
  \A i \in DOMAIN fs :
    /\ fs[i].base + fs[i].size < b
    /\ \A j \in DOMAIN fs : i < j => fs[i].base + fs[i].size < fs[j].base

SetInv ==
  /\ base \in Int /\ file \in Seq(File) /\ files \in Seq(DOMAIN file)
  /\ saved \in [base : Int, files : Seq(File)]
  /\ RangesDisjoint
  /\ Apart(saved.base, saved.files)     \* so that Read may make files of them

-----------------------------------------------------------------------------
LEMMA Appended ==
  ASSUME NEW S, NEW q \in Seq(S), NEW x \in S
  PROVE  /\ Append(q, x) \in Seq(S) /\ Len(q) \in Nat
         /\ DOMAIN q = 1..Len(q) /\ DOMAIN Append(q, x) = 1..(Len(q) + 1)
         /\ \A i \in 1..Len(q) : Append(q, x)[i] = q[i]
         /\ Append(q, x)[Len(q) + 1] = x
BY AppendProperties

LEMMA FileFields ==
  ASSUME NEW f \in File
  PROVE  f.base \in Int /\ f.size \in Nat /\ f.lines \in Seq(Nat) /\ f.infos \in Seq(Info)
BY DEF File

\* One file with another table.
LEMMA OneReplaced ==
  ASSUME NEW q \in Seq(File), NEW f \in DOMAIN q, NEW new \in File,
         new.base = q[f].base, new.size = q[f].size
  PROVE  LET changed == [q EXCEPT ![f] = new] IN
         /\ changed \in Seq(File) /\ DOMAIN changed = DOMAIN q
         /\ \A g \in DOMAIN q : changed[g].base = q[g].base /\ changed[g].size = q[g].size
<1>1. [q EXCEPT ![f] = new] \in Seq(File)
  OBVIOUS
<1> QED  BY <1>1

\* Arithmetic, away from the records it is about.
LEMMA Beyond ==
  ASSUME NEW e \in Int, NEW b \in Int, NEW gap \in Nat, NEW size \in Nat, e < b
  PROVE  e < b + gap /\ e < b + gap + size + 1
OBVIOUS

LEMMA InitSetInv == Init => SetInv
BY DEF Init, SetInv, RangesDisjoint, Apart

\* A change of tables leaves the ranges where they are.
LEMMA SameRanges ==
  ASSUME SetInv, UNCHANGED <<base, files, saved>>,
         file' \in Seq(File), DOMAIN file' = DOMAIN file,
         \A f \in DOMAIN file : file'[f].base = file[f].base /\ file'[f].size = file[f].size
  PROVE  SetInv'
<1>1. \A i \in DOMAIN files : files[i] \in DOMAIN file
  BY DEF SetInv
<1>2. RangesDisjoint'
  BY <1>1 DEF SetInv, RangesDisjoint
<1> QED  BY <1>2 DEF SetInv, Apart

LEMMA AddFileKeeps ==
  ASSUME SetInv, NEW gap \in Gaps, NEW size \in Sizes, AddFile(gap, size)
  PROVE  SetInv'
<1> DEFINE new == [base |-> base + gap, size |-> size, lines |-> <<0>>, infos |-> << >>]
<1>1. /\ gap \in Int /\ gap >= 0 /\ size \in Nat
      /\ file' = Append(file, new) /\ files' = Append(files, Len(file) + 1)
      /\ base' = base + gap + size + 1 /\ saved' = saved
      /\ base \in Int /\ gap \in Nat
  BY FileSetAssumption DEF AddFile, NextBase, SetInv
<1>2. new \in File /\ new.base = base + gap /\ new.size = size
  BY <1>1 DEF SetInv, File
<1> HIDE DEF new
<1>3. /\ file' \in Seq(File) /\ Len(file) \in Nat /\ DOMAIN file = 1..Len(file)
      /\ DOMAIN file' = 1..(Len(file) + 1)
      /\ \A f \in 1..Len(file) : file'[f] = file[f]
      /\ file'[Len(file) + 1] = new
  BY <1>1, <1>2, Appended DEF SetInv
<1>4. files \in Seq(1..(Len(file) + 1)) /\ \A i \in DOMAIN files : files[i] \in 1..Len(file)
  BY <1>3 DEF SetInv
<1>5. /\ files' \in Seq(DOMAIN file') /\ Len(files) \in Nat /\ DOMAIN files = 1..Len(files)
      /\ DOMAIN files' = 1..(Len(files) + 1)
      /\ \A i \in 1..Len(files) : files'[i] = files[i]
      /\ files'[Len(files) + 1] = Len(file) + 1
  <2>1. Len(file) + 1 \in 1..(Len(file) + 1)  BY <1>3
  <2> QED  BY <1>1, <1>3, <1>4, <2>1, Appended
<1>6. \A i \in 1..Len(files) : /\ file'[files'[i]] = file[files[i]]
                               /\ file[files[i]].base \in Int /\ file[files[i]].size \in Nat
  <2>1. \A i \in 1..Len(files) : files[i] \in 1..Len(file) /\ file[files[i]] \in File
    BY <1>3, <1>4, <1>5 DEF SetInv
  <2> QED  BY <1>3, <1>5, <2>1, FileFields
<1>7. file'[files'[Len(files) + 1]] = new
  BY <1>3, <1>5
<1>8. RangesDisjoint'
  <2>1. \A i \in 1..Len(files) : /\ file[files[i]].base + file[files[i]].size \in Int
                                 /\ file[files[i]].base + file[files[i]].size < base
    <3>1. RangesDisjoint  BY DEF SetInv
    <3>2. \A i \in 1..Len(files) : file[files[i]].base + file[files[i]].size < base
      BY <1>5, <3>1 DEF RangesDisjoint
    <3> QED  BY <1>6, <3>2
  <2>a. \A i \in 1..Len(files) :
          /\ file[files[i]].base + file[files[i]].size < base + gap
          /\ file[files[i]].base + file[files[i]].size < base'
    BY <1>1, <2>1, Beyond
  <2>2. ASSUME NEW i \in DOMAIN files'
        PROVE  file'[files'[i]].base + file'[files'[i]].size < base'
    <3>1. CASE i \in 1..Len(files)
      BY <1>6, <2>a, <3>1
    <3>2. CASE i = Len(files) + 1
      BY <1>1, <1>2, <1>7, <3>2 DEF SetInv
    <3> QED  BY <1>5, <3>1, <3>2
  <2>3. ASSUME NEW i \in DOMAIN files', NEW j \in DOMAIN files', i < j
        PROVE  file'[files'[i]].base + file'[files'[i]].size < file'[files'[j]].base
    <3>1. i \in 1..Len(files)
      BY <1>5, <2>3
    <3>2. CASE j \in 1..Len(files)
      BY <1>5, <1>6, <2>3, <3>1, <3>2 DEF SetInv, RangesDisjoint
    <3>3. CASE j = Len(files) + 1
      BY <1>2, <1>6, <1>7, <2>a, <3>1, <3>3
    <3> QED  BY <1>5, <3>2, <3>3
  <2> QED  BY <2>2, <2>3 DEF RangesDisjoint
<1> QED  BY <1>1, <1>3, <1>5, <1>8 DEF SetInv, Apart

LEMMA WriteSetKeeps ==
  ASSUME SetInv, WriteSet
  PROVE  SetInv'
<1>1. saved' = [base |-> base, files |-> [i \in DOMAIN files |-> file[files[i]]]]
      /\ UNCHANGED <<base, files, file>>
  BY DEF WriteSet, set
<1>2. DOMAIN files = 1..Len(files) /\ Len(files) \in Nat
      /\ \A i \in DOMAIN files : file[files[i]] \in File
  BY DEF SetInv
<1>3. [i \in DOMAIN files |-> file[files[i]]] \in Seq(File)
  BY <1>2
<1>4. saved' \in [base : Int, files : Seq(File)]
  BY <1>1, <1>3 DEF SetInv
<1>5. Apart(saved'.base, saved'.files)
  BY <1>1 DEF SetInv, RangesDisjoint, Apart
<1> QED  BY <1>1, <1>4, <1>5 DEF SetInv, RangesDisjoint

LEMMA ReadSetKeeps ==
  ASSUME SetInv, ReadSet
  PROVE  SetInv'
<1> DEFINE n == Len(file)  sf == saved.files
<1>1. /\ base' = saved.base /\ file' = file \o sf /\ saved' = saved
      /\ files' = [i \in DOMAIN sf |-> n + i]
  BY DEF ReadSet
<1>2. /\ sf \in Seq(File) /\ n \in Nat /\ Len(sf) \in Nat /\ DOMAIN sf = 1..Len(sf)
      /\ saved.base \in Int
  BY DEF SetInv
<1>3. /\ file' \in Seq(File) /\ DOMAIN file' = 1..(n + Len(sf))
      /\ \A i \in 1..Len(sf) : file'[n + i] = sf[i]
  BY <1>1, <1>2 DEF SetInv
<1> HIDE DEF n, sf
<1>4. files' \in Seq(DOMAIN file')
  <2>1. \A i \in 1..Len(sf) : n + i \in DOMAIN file'
    BY <1>2, <1>3
  <2> QED  BY <1>1, <1>2, <2>1
<1>5. DOMAIN files' = DOMAIN sf /\ \A i \in DOMAIN sf : file'[files'[i]] = sf[i]
  BY <1>1, <1>2, <1>3
<1>6. Apart(base', sf)
  BY <1>1 DEF SetInv, sf
<1>7. RangesDisjoint'
  BY <1>5, <1>6 DEF RangesDisjoint, Apart
<1> QED  BY <1>1, <1>2, <1>3, <1>4, <1>7 DEF SetInv, Apart

LEMMA NextSetInv == SetInv /\ [Next]_vars => SetInv'
<1> SUFFICES ASSUME SetInv, [Next]_vars PROVE SetInv'  OBVIOUS
<1>f. \A f \in DOMAIN file : /\ file[f] \in File /\ file[f].size \in Nat
                             /\ file[f].lines \in Seq(Nat) /\ file[f].infos \in Seq(Info)
  <2>1. \A f \in DOMAIN file : file[f] \in File
    BY DEF SetInv
  <2> QED  BY <2>1, FileFields
<1>1. ASSUME NEW gap \in Gaps, NEW size \in Sizes, AddFile(gap, size) PROVE SetInv'
  BY <1>1, AddFileKeeps
<1>2. ASSUME NEW f \in DOMAIN file, NEW offset \in 0..file[f].size, AddLine(f, offset)
      PROVE  SetInv'
  <2>1. Append(file[f].lines, offset) \in Seq(Nat)
    <3>1. offset \in Nat  BY <1>f
    <3> QED  BY <1>f, <3>1
  <2>2. file' = [file EXCEPT ![f].lines = Append(@, offset)] /\ UNCHANGED <<base, files, saved>>
    BY <1>2 DEF AddLine, set
  <2>3. /\ [file[f] EXCEPT !.lines = Append(file[f].lines, offset)] \in File
        /\ [file[f] EXCEPT !.lines = Append(file[f].lines, offset)].base = file[f].base
        /\ [file[f] EXCEPT !.lines = Append(file[f].lines, offset)].size = file[f].size
    BY <1>f, <2>1 DEF File
  <2>4. /\ file' \in Seq(File) /\ DOMAIN file' = DOMAIN file
        /\ \A g \in DOMAIN file : file'[g].base = file[g].base /\ file'[g].size = file[g].size
    BY <2>2, <2>3, OneReplaced DEF SetInv
  <2> QED  BY <2>2, <2>4, SameRanges
<1>3. ASSUME NEW f \in DOMAIN file, NEW lines \in Tables, SetLines(f, lines) PROVE SetInv'
  <2>1. lines \in Seq(Nat)
    BY FileSetAssumption
  <2>2. file' = [file EXCEPT ![f].lines = lines] /\ UNCHANGED <<base, files, saved>>
    BY <1>3 DEF SetLines, set
  <2>3. /\ [file[f] EXCEPT !.lines = lines] \in File
        /\ [file[f] EXCEPT !.lines = lines].base = file[f].base
        /\ [file[f] EXCEPT !.lines = lines].size = file[f].size
    BY <1>f, <2>1 DEF File
  <2>4. /\ file' \in Seq(File) /\ DOMAIN file' = DOMAIN file
        /\ \A g \in DOMAIN file : file'[g].base = file[g].base /\ file'[g].size = file[g].size
    BY <2>2, <2>3, OneReplaced DEF SetInv
  <2> QED  BY <2>2, <2>4, SameRanges
<1>4. ASSUME NEW f \in DOMAIN file, NEW alt \in Infos, AddLineInfo(f, alt) PROVE SetInv'
  <2>1. Append(file[f].infos, alt) \in Seq(Info)
    BY <1>f, FileSetAssumption DEF Info
  <2>2. file' = [file EXCEPT ![f].infos = Append(@, alt)] /\ UNCHANGED <<base, files, saved>>
    BY <1>4 DEF AddLineInfo, set
  <2>3. /\ [file[f] EXCEPT !.infos = Append(file[f].infos, alt)] \in File
        /\ [file[f] EXCEPT !.infos = Append(file[f].infos, alt)].base = file[f].base
        /\ [file[f] EXCEPT !.infos = Append(file[f].infos, alt)].size = file[f].size
    BY <1>f, <2>1 DEF File
  <2>4. /\ file' \in Seq(File) /\ DOMAIN file' = DOMAIN file
        /\ \A g \in DOMAIN file : file'[g].base = file[g].base /\ file'[g].size = file[g].size
    BY <2>2, <2>3, OneReplaced DEF SetInv
  <2> QED  BY <2>2, <2>4, SameRanges
<1>5. CASE WriteSet
  BY <1>5, WriteSetKeeps
<1>6. CASE ReadSet
  BY <1>6, ReadSetKeeps
<1>7. CASE UNCHANGED <<base, files, file, saved>>
  BY <1>7, SameRanges DEF SetInv
<1>8. ASSUME NEW r \in Readers,
             \/ \E p \in 1..MaxPos : Lookup(r, p)
             \/ \E f \in DOMAIN file, p \in 1..MaxPos : FindLine(r, f, p)
             \/ Search(r) \/ FindColumn(r) \/ FindInfo(r) \/ CountOn(r) \/ Return(r)
      PROVE  UNCHANGED <<base, files, file, saved>>
  BY <1>8 DEF Lookup, FindLine, Search, FindColumn, FindInfo, CountOn, Return, set
<1> QED
  BY <1>1, <1>2, <1>3, <1>4, <1>5, <1>6, <1>7, <1>8 DEF Next, Change, vars, set

\* Whatever files are added, and whatever is written and read back, no position
\* belongs to two files of the set and none to a file still to be added.
THEOREM PositionsUnambiguous == Spec => []RangesDisjoint
<1>1. Spec => []SetInv
  BY InitSetInv, NextSetInv, PTL DEF Spec
<1> QED  BY <1>1, PTL DEF SetInv

-----------------------------------------------------------------------------
(* The bisection, by induction over what is left to search: a least *)
(* counterexample would have one with less left.                    *)

LEMMA Least ==
  ASSUME NEW T \in SUBSET Nat, T # {}
  PROVE  \E x \in T : \A y \in T : x <= y
<1>1. PICK x \in T : \A y \in T : <<y, x>> \notin OpToRel(<, Nat)
  BY WFMin, NatLessThanWellFounded
<1>2. \A y \in T : ~(y < x)
  BY <1>1 DEF OpToRel
<1> QED  BY <1>2


Ranges(a) == (0..Len(a)) \X (0..Len(a))

\* One turn of the loop: what bisect is at <<i, j>> if it is g further on.
Turn(a, x, g, i, j) ==
  LET h == i + (j - i) \div 2 IN
  IF i >= j THEN i - 1
  ELSE IF a[h + 1] <= x THEN g[<<h + 1, j>>] ELSE g[<<i, h>>]

Turned(a, x, g) == [r \in Ranges(a) |-> Turn(a, x, g, r[1], r[2])]

\* What satisfies the recursive definition at all satisfies it as chosen.
LEMMA Unfolded ==
  ASSUME NEW a, NEW x
  PROVE  Bisection(a, x) = CHOOSE g : g = Turned(a, x, g)
BY DEF Turned, Turn, Ranges, Bisection

LEMMA Unfold ==
  ASSUME NEW a, NEW x, NEW g, g = Turned(a, x, g)
  PROVE  Bisection(a, x) = Turned(a, x, Bisection(a, x))
BY Unfolded

LEMMA TurnedAt ==
  ASSUME NEW a, NEW x, NEW g, NEW i \in 0..Len(a), NEW j \in 0..Len(a)
  PROVE  Turned(a, x, g)[<<i, j>>] = Turn(a, x, g, i, j)
BY DEF Turned, Ranges

Ascending(a) == \A i, j \in DOMAIN a : i < j => a[i] < a[j]

LEMMA Middle ==
  ASSUME NEW i \in Nat, NEW j \in Nat, i < j
  PROVE  i + (j - i) \div 2 \in i..(j - 1)
<1> DEFINE d == j - i
<1>1. d \in Nat /\ d > 0 /\ j = i + d  OBVIOUS
<1>2. d \div 2 \in 0..(d - 1)  BY <1>1
<1> QED  BY <1>1, <1>2

\* The elements of a up to x are the first n.
UpTo(a, x, n) == n \in 0..Len(a) /\ \A k \in 1..Len(a) : a[k] <= x <=> k <= n

\* Where the elements up to x end.
LEMMA Split ==
  ASSUME NEW a \in Seq(Int), Ascending(a), NEW x \in Int
  PROVE  \E n : UpTo(a, x, n)
<1> DEFINE T == {n \in 0..Len(a) : \A k \in 1..Len(a) : k > n => a[k] > x}
<1>1. Len(a) \in T /\ T \subseteq Nat  OBVIOUS
<1>2. PICK n \in T : \A m \in T : n <= m  BY <1>1, Least
<1>3. DOMAIN a = 1..Len(a) /\ \A k \in 1..Len(a) : a[k] \in Int  OBVIOUS
<1>4. ASSUME NEW k \in 1..Len(a), k <= n PROVE a[k] <= x
  <2>a. n \in Nat /\ Len(a) \in Nat /\ n <= Len(a) /\ n >= 1  BY <1>2, <1>4
  <2>b. n - 1 \in 0..Len(a) /\ ~(n <= n - 1)  BY <2>a
  <2>1. n - 1 \in 0..Len(a) /\ n - 1 \notin T  BY <1>2, <2>b
  <2>2. PICK m \in 1..Len(a) : m > n - 1 /\ ~(a[m] > x)  BY <2>1
  <2>3. m = n  BY <1>2, <2>2
  <2>4. k = n \/ a[k] < a[n]  BY <1>3, <1>4, <2>3 DEF Ascending
  <2> QED  BY <1>3, <2>2, <2>3, <2>4
<1>5. ASSUME NEW k \in 1..Len(a), k > n PROVE ~(a[k] <= x)
  <2>1. a[k] > x  BY <1>2, <1>5
  <2> QED  BY <1>3, <2>1
<1>6. n \in 0..Len(a)  BY <1>2
<1>7. \A k \in 1..Len(a) : a[k] <= x <=> k <= n  BY <1>4, <1>5, <1>6
<1> QED  BY <1>6, <1>7 DEF UpTo

\* Where the loop ends from <<i, j>> on, when n elements are up to x.
End(n, i, j) ==
  IF i >= j \/ n <= i THEN i - 1 ELSE IF n <= j THEN n - 1 ELSE j - 1

LEMMA EndSame ==
  ASSUME NEW n \in Nat, NEW i \in Nat, NEW j \in Nat, NEW h \in Nat, i <= h, h < j
  PROVE  End(n, i, j) = IF h + 1 <= n THEN End(n, h + 1, j) ELSE End(n, i, h)
BY DEF End

\* g is right wherever the loop has less to do than from <<i, j>> on.
RightBelow(a, n, g, i, j) ==
  \A k, l \in 0..Len(a) : i < j /\ l - k < j - i => g[<<k, l>>] = End(n, k, l)

LEMMA EndTurns ==
  ASSUME NEW a \in Seq(Int), NEW x \in Int, NEW n, UpTo(a, x, n),
         NEW i \in 0..Len(a), NEW j \in 0..Len(a), NEW g, RightBelow(a, n, g, i, j)
  PROVE  Turn(a, x, g, i, j) = End(n, i, j)
<1>n. n \in 0..Len(a) /\ Len(a) \in Nat  BY DEF UpTo
<1>1. CASE i >= j  BY <1>1 DEF Turn, End
<1>2. CASE i < j
  <2> DEFINE h == i + (j - i) \div 2
  <2>1. h \in i..(j - 1)  BY <1>2, Middle
  <2> HIDE DEF h
  <2>2. /\ h \in 0..Len(a) /\ h + 1 \in 0..Len(a) /\ h + 1 \in 1..Len(a)
        /\ j - (h + 1) < j - i /\ h - i < j - i
    BY <2>1
  <2>3. g[<<h + 1, j>>] = End(n, h + 1, j) /\ g[<<i, h>>] = End(n, i, h)
    BY <1>2, <2>2 DEF RightBelow
  <2>4. a[h + 1] <= x <=> h + 1 <= n  BY <2>2 DEF UpTo
  <2>5. Turn(a, x, g, i, j) = IF h + 1 <= n THEN End(n, h + 1, j) ELSE End(n, i, h)
    BY <1>2, <2>3, <2>4 DEF Turn, h
  <2>6. i \in Nat /\ j \in Nat /\ h \in Nat /\ n \in Nat /\ i <= h /\ h < j
    BY <2>1, <1>n
  <2>7. End(n, i, j) = IF h + 1 <= n THEN End(n, h + 1, j) ELSE End(n, i, h)
    BY <2>6, EndSame
  <2> QED  BY <2>5, <2>7
<1> QED  BY <1>1, <1>2

\* searchInts, for every ascending a, empty ones included: the last index, from
\* 0, of an element up to x; -1 where there is none.
THEOREM SearchRight ==
  ASSUME NEW a \in Seq(Int), Ascending(a), NEW x \in Int
  PROVE  \E n : UpTo(a, x, n) /\ searchInts(a, x) = n - 1
<1>1. PICK n : UpTo(a, x, n)
  BY Split
<1>n. n \in 0..Len(a) /\ Len(a) \in Nat  BY <1>1 DEF UpTo
<1> DEFINE e == [r \in Ranges(a) |-> End(n, r[1], r[2])]
           B == Bisection(a, x)
<1>2. \A d, f \in 0..Len(a) : e[<<d, f>>] = End(n, d, f)
  BY DEF Ranges
<1>3. e = Turned(a, x, e)
  <2> HIDE DEF e
  <2>1. \A i, j \in 0..Len(a) : Turn(a, x, e, i, j) = End(n, i, j)
    <3> SUFFICES ASSUME NEW i \in 0..Len(a), NEW j \in 0..Len(a)
                 PROVE  Turn(a, x, e, i, j) = End(n, i, j)
      OBVIOUS
    <3>1. RightBelow(a, n, e, i, j)  BY <1>2 DEF RightBelow
    <3> QED  BY <1>1, <3>1, EndTurns
  <2>2. \A r \in Ranges(a) : Turn(a, x, e, r[1], r[2]) = End(n, r[1], r[2])
    BY <2>1 DEF Ranges
  <2> QED  BY <2>2 DEF Turned, e
<1>4. B = Turned(a, x, B)
  <2> HIDE DEF e
  <2> QED  BY <1>3, Unfold
<1> HIDE DEF e, B
<1>5. \A i, j \in 0..Len(a) : B[<<i, j>>] = Turn(a, x, B, i, j)
  <2> DEFINE C == Turned(a, x, B)
  <2>1. \A i, j \in 0..Len(a) : C[<<i, j>>] = Turn(a, x, B, i, j)  BY TurnedAt
  <2> HIDE DEF C
  <2>2. B = C  BY <1>4 DEF C
  <2> QED  BY <2>1, <2>2
<1> DEFINE Wrong == {d \in Nat : \E i, j \in 0..Len(a) :
                       d = (IF i < j THEN j - i ELSE 0) /\ B[<<i, j>>] # End(n, i, j)}
<1>6. Wrong = {}
  <2> SUFFICES ASSUME Wrong # {} PROVE FALSE  OBVIOUS
  <2>1. PICK d \in Wrong : \A f \in Wrong : d <= f  BY Least
  <2>2. PICK i \in 0..Len(a), j \in 0..Len(a) :
          d = (IF i < j THEN j - i ELSE 0) /\ B[<<i, j>>] # End(n, i, j)
    BY <2>1
  <2>3. ASSUME NEW k \in 0..Len(a), NEW l \in 0..Len(a), i < j, l - k < j - i
        PROVE  B[<<k, l>>] = End(n, k, l)
    <3> DEFINE f == IF k < l THEN l - k ELSE 0
    <3>1. i \in Int /\ j \in Int /\ k \in Int /\ l \in Int  OBVIOUS
    <3>2. f \in Nat /\ f < d  BY <2>2, <2>3, <3>1, SMTT(20)
    <3>3. f \notin Wrong
      <4>1. d \in Nat /\ ~(d <= f)  BY <2>1, <3>2
      <4> QED  BY <2>1, <4>1
    <3> QED  BY <3>2, <3>3
  <2>4. Turn(a, x, B, i, j) = End(n, i, j)
    <3>1. RightBelow(a, n, B, i, j)  BY <2>3 DEF RightBelow
    <3> QED  BY <1>1, <3>1, EndTurns
  <2> QED  BY <1>5, <2>2, <2>4
<1>7. B[<<0, Len(a)>>] = End(n, 0, Len(a))
  <2>1. 0 \in 0..Len(a) /\ Len(a) \in 0..Len(a) /\ Len(a) \in Nat  OBVIOUS
  <2> DEFINE f == IF 0 < Len(a) THEN Len(a) - 0 ELSE 0
  <2>2. f \in Nat /\ f \notin Wrong  BY <1>6, <2>1
  <2> QED  BY <2>1, <2>2
<1>8. End(n, 0, Len(a)) = n - 1  BY <1>n DEF End
<1> QED  BY <1>1, <1>7, <1>8 DEF searchInts, B

\* What searchInts finds, said with LineOf.
LEMMA Counted ==
  ASSUME NEW a \in Seq(Int), Ascending(a), NEW x \in Int
  PROVE  /\ searchInts(a, x) = LineOf(a, x) - 1
         /\ UpTo(a, x, LineOf(a, x))
<1>1. PICK n : UpTo(a, x, n) /\ searchInts(a, x) = n - 1  BY SearchRight
<1>2. n \in 0..Len(a) /\ Len(a) \in Nat /\ DOMAIN a = 1..Len(a)  BY <1>1 DEF UpTo
<1>3. {i \in DOMAIN a : a[i] <= x} = 1..n  BY <1>1, <1>2 DEF UpTo
<1>4. Cardinality(1..n) = n  BY <1>2, FS_Interval
<1> QED  BY <1>1, <1>3, <1>4 DEF LineOf

\* An element more at the end, larger than what was the last.
LEMMA AppendAscending ==
  ASSUME NEW S, NEW a \in Seq(S), NEW x \in S, S \subseteq Int, Ascending(a),
         a # << >> => a[Len(a)] < x
  PROVE  Ascending(Append(a, x))
<1> DEFINE b == Append(a, x)
<1>a. /\ Len(a) \in Nat /\ DOMAIN a = 1..Len(a) /\ DOMAIN b = 1..(Len(a) + 1)
      /\ \A i \in 1..Len(a) : b[i] = a[i]
      /\ b[Len(a) + 1] = x
  BY Appended
<1>b. \A i \in 1..Len(a) : a[i] \in S  OBVIOUS
<1>1. /\ Len(a) \in Nat /\ DOMAIN a = 1..Len(a) /\ DOMAIN b = 1..(Len(a) + 1)
      /\ \A i \in 1..Len(a) : b[i] = a[i] /\ a[i] \in Int
      /\ b[Len(a) + 1] = x
  BY <1>a, <1>b
<1>2. Len(a) # 0 => a # << >>  OBVIOUS
<1> HIDE DEF b
<1>3. ASSUME NEW i \in DOMAIN b, NEW j \in DOMAIN b, i < j PROVE b[i] < b[j]
  <2>1. i \in 1..Len(a) /\ Len(a) # 0  BY <1>1, <1>3
  <2>2. CASE j \in 1..Len(a)  BY <1>1, <1>3, <2>1, <2>2 DEF Ascending
  <2>3. CASE j = Len(a) + 1
    <3>1. a[Len(a)] < x /\ Len(a) \in 1..Len(a)  BY <1>1, <1>2, <2>1
    <3>2. i = Len(a) \/ a[i] < a[Len(a)]  BY <1>1, <2>1, <3>1 DEF Ascending
    <3>3. x \in Int  OBVIOUS
    <3> QED  BY <1>1, <2>1, <2>3, <3>1, <3>2, <3>3
  <2> QED  BY <1>1, <2>2, <2>3
<1> QED  BY <1>3 DEF Ascending, b

\* Each larger than the one before it: all ascend.
LEMMA Neighbours ==
  ASSUME NEW a \in Seq(Nat), \A i \in DOMAIN a : i > 1 => a[i - 1] < a[i]
  PROVE  Ascending(a)
<1> DEFINE T == {j \in DOMAIN a : \E i \in DOMAIN a : i < j /\ ~(a[i] < a[j])}
<1>1. Len(a) \in Nat /\ DOMAIN a = 1..Len(a) /\ \A i \in DOMAIN a : a[i] \in Nat
  OBVIOUS
<1>2. T = {}
  <2> SUFFICES ASSUME T # {} PROVE FALSE  OBVIOUS
  <2>1. T \in SUBSET Nat  BY <1>1
  <2>2. PICK j \in T : \A k \in T : j <= k  BY <2>1, Least
  <2>3. PICK i \in DOMAIN a : i < j /\ ~(a[i] < a[j])  BY <2>2
  <2>a. i \in Nat /\ j \in Nat /\ i >= 1 /\ j <= Len(a) /\ j \in DOMAIN a  BY <1>1, <2>2, SMTT(20)
  <2>b. j > 1 /\ j - 1 \in 1..Len(a) /\ ~(j <= j - 1)  BY <1>1, <2>a, <2>3
  <2>4. j - 1 \in DOMAIN a /\ j - 1 \notin T /\ j > 1  BY <1>1, <2>2, <2>b
  <2>5. a[j - 1] < a[j]  BY <2>a, <2>4
  <2>6. i # j - 1  BY <2>3, <2>5
  <2>7. i < j - 1  BY <2>a, <2>3, <2>6
  <2>8. a[i] < a[j - 1]  BY <2>3, <2>4, <2>7
  <2> QED  BY <1>1, <2>a, <2>3, <2>4, <2>5, <2>8, SMTT(20)
<1> QED  BY <1>2 DEF Ascending

-----------------------------------------------------------------------------
(* Lookups *)

OffsetsOf(infos) == [k \in DOMAIN infos |-> infos[k].Offset]

InOrder(f) == Ascending(f.lines) /\ Ascending(OffsetsOf(f.infos))

Locals == [pc : {"idle", "search", "found", "column", "infos", "count", "done", "panic"},
           p : Int, f : Nat, i : Int, line : Int, column : Int,
           table : Seq(Nat), seen : Nat, kept : BOOLEAN]

\* A lookup without the lock has a file, and indices into what there was.
InPlace(l) ==
  /\ l.pc \in Unlocked \cup {"done"} => l.f \in DOMAIN file /\ l.seen <= Len(file[l.f].infos)
  /\ l.pc = "column" => l.i \in 0..(Len(l.table) - 1)
  /\ l.pc = "count" => l.i \in 0..(l.seen - 1)

\* f is the file of the set that holds p, 0 where there is none.
Found(f, p) ==
  /\ f = 0 => \A i \in DOMAIN files : ~Holds(files[i], p)
  /\ f # 0 => f \in Range(files) /\ Holds(f, p)

LookInv ==
  /\ last \in Range(files) \cup {0}
  /\ \A f \in DOMAIN file : InOrder(file[f])
  /\ \A i \in DOMAIN saved.files : InOrder(saved.files[i])
  /\ reader \in [Readers -> Locals]
  /\ \A r \in Readers :
       /\ reader[r].pc = "found" => Found(reader[r].f, reader[r].p)
       /\ InPlace(reader[r])

LEMMA InfosTyped ==
  ASSUME NEW infos \in Seq(Info)
  PROVE  /\ DOMAIN infos = 1..Len(infos) /\ Len(infos) \in Nat
         /\ \A k \in 1..Len(infos) : infos[k].Offset \in Nat /\ infos[k].Line \in Nat
         /\ OffsetsOf(infos) \in Seq(Int) /\ Len(OffsetsOf(infos)) = Len(infos)
         /\ \A k \in 1..Len(infos) : OffsetsOf(infos)[k] = infos[k].Offset
<1>1. DOMAIN infos = 1..Len(infos) /\ Len(infos) \in Nat
      /\ \A k \in 1..Len(infos) : infos[k] \in Info
  OBVIOUS
<1>2. \A x \in Info : x.Offset \in Nat /\ x.Line \in Nat  BY DEF Info
<1>3. \A k \in 1..Len(infos) : infos[k].Offset \in Nat /\ infos[k].Line \in Nat
  BY <1>1, <1>2
<1> QED  BY <1>1, <1>3 DEF OffsetsOf

LEMMA Handle ==
  ASSUME SetInv, NEW f \in DOMAIN file
  PROVE  /\ f \in Nat \ {0} /\ file[f] \in File
         /\ file[f].base \in Int /\ file[f].size \in Nat
         /\ file[f].lines \in Seq(Nat) /\ file[f].infos \in Seq(Info)
<1>1. file \in Seq(File)  BY DEF SetInv
<1>2. file[f] \in File /\ f \in Nat \ {0}  BY <1>1
<1> QED  BY <1>2, FileFields

LEMMA HandlesOfSet ==
  ASSUME SetInv
  PROVE  /\ Range(files) \subseteq DOMAIN file /\ Len(files) \in Nat
         /\ DOMAIN files = 1..Len(files)
         /\ \A i \in DOMAIN files : files[i] \in DOMAIN file /\ files[i] \in Range(files)
<1>1. files \in Seq(DOMAIN file)  BY DEF SetInv
<1> QED  BY <1>1 DEF Range

\* The file found by bisection is the one that holds p, if one does.
LEMMA SearchFinds ==
  ASSUME SetInv, NEW p \in Int,
         NEW i, i = searchFiles(p),
         NEW f, f = IF i >= 0 /\ Holds(files[i + 1], p) THEN files[i + 1] ELSE 0
  PROVE  Found(f, p) /\ f \in Nat
<1> DEFINE b == [k \in DOMAIN files |-> file[files[k]].base]
<1>1. /\ DOMAIN files = 1..Len(files) /\ Len(files) \in Nat
      /\ \A k \in DOMAIN files : /\ files[k] \in Range(files) /\ files[k] \in Nat \ {0}
                                 /\ file[files[k]].base \in Int
                                 /\ file[files[k]].size \in Nat
  BY Handle, HandlesOfSet
<1>2. b \in Seq(Int) /\ Len(b) = Len(files) /\ \A k \in 1..Len(files) : b[k] = file[files[k]].base
  BY <1>1
<1>3. \A k, l \in DOMAIN files : k < l => file[files[k]].base + file[files[k]].size < file[files[l]].base
  BY DEF SetInv, RangesDisjoint
<1> HIDE DEF b
<1>4. Ascending(b)
  <2> SUFFICES ASSUME NEW k \in 1..Len(files), NEW l \in 1..Len(files), k < l
               PROVE  b[k] < b[l]
    BY <1>2 DEF Ascending
  <2>1. file[files[k]].base + file[files[k]].size < file[files[l]].base
    BY <1>1, <1>3
  <2>2. file[files[k]].base < file[files[l]].base
    <3> DEFINE u == file[files[k]].base  v == file[files[k]].size  w == file[files[l]].base
    <3>1. u \in Int /\ v \in Nat /\ w \in Int /\ u + v < w  BY <1>1, <2>1
    <3> HIDE DEF u, v, w
    <3>2. u < w  BY <3>1
    <3> QED  BY <3>2 DEF u, w
  <2> QED  BY <1>2, <2>2
<1>5. PICK n : UpTo(b, p, n) /\ searchInts(b, p) = n - 1  BY <1>2, <1>4, SearchRight
<1>6. i = n - 1 /\ n \in 0..Len(files)
      /\ \A k \in 1..Len(files) : file[files[k]].base <= p <=> k <= n
  BY <1>2, <1>5 DEF UpTo, searchFiles, b
<1>7. ASSUME NEW k \in DOMAIN files, Holds(files[k], p) PROVE k = n
  <2>1. file[files[k]].base <= p /\ p <= file[files[k]].base + file[files[k]].size
    BY <1>7 DEF Holds
  <2>2. k <= n /\ n \in DOMAIN files  BY <1>1, <1>6, <2>1
  <2>3. file[files[n]].base <= p  BY <1>1, <1>6, <2>2
  <2>4. ~(k < n)  BY <1>1, <1>3, <2>1, <2>2, <2>3, SMTT(20)
  <2> QED  BY <1>1, <1>6, <2>2, <2>4
<1>8. CASE i >= 0 /\ Holds(files[i + 1], p)
  <2>1. i + 1 = n /\ n \in DOMAIN files  BY <1>1, <1>6, <1>8
  <2>2. f = files[n] /\ Holds(files[n], p)  BY <1>8, <2>1
  <2> QED  BY <1>1, <2>1, <2>2 DEF Found
<1>9. CASE ~(i >= 0 /\ Holds(files[i + 1], p))
  <2>1. \A k \in DOMAIN files : ~Holds(files[k], p)
    <3> SUFFICES ASSUME NEW k \in DOMAIN files, Holds(files[k], p) PROVE FALSE  OBVIOUS
    <3>1. k = n /\ k = i + 1 /\ i >= 0  BY <1>1, <1>6, <1>7
    <3> QED  BY <1>9, <3>1
  <2> QED  BY <1>9, <2>1 DEF Found
<1> QED  BY <1>8, <1>9

ColumnOf(lines, offset) ==
  IF LineOf(lines, offset) > 0 THEN offset - lines[LineOf(lines, offset)] + 1 ELSE 0

\* What an alternative line adds to the line.
Added(lines, alt) ==
  IF LineOf(lines, alt.Offset) > 0 THEN alt.Line - LineOf(lines, alt.Offset) ELSE 0

LEMMA LineOfTyped ==
  ASSUME NEW lines \in Seq(Nat), Ascending(lines), NEW x \in Int
  PROVE  /\ LineOf(lines, x) \in 0..Len(lines) /\ LineOf(lines, x) \in Nat
         /\ LineOf(lines, x) - 1 = searchInts(lines, x)
         /\ ColumnOf(lines, x) \in Int
<1>1. lines \in Seq(Int)  OBVIOUS
<1> DEFINE n == LineOf(lines, x)
<1>2. searchInts(lines, x) = n - 1 /\ UpTo(lines, x, n)  BY <1>1, Counted
<1>3. n \in 0..Len(lines) /\ Len(lines) \in Nat  BY <1>2 DEF UpTo
<1> HIDE DEF n
<1>4. n > 0 => lines[n] \in Nat
  <2>1. n > 0 => n \in 1..Len(lines)  BY <1>3
  <2> QED  BY <2>1
<1>5. ColumnOf(lines, x) \in Int  BY <1>3, <1>4 DEF ColumnOf, n
<1> QED  BY <1>2, <1>3, <1>5 DEF n

LEMMA CountedOnRight ==
  ASSUME NEW lines \in Seq(Nat), Ascending(lines), NEW alt \in Info
  PROVE  CountedOn(lines, alt) = Added(lines, alt) /\ Added(lines, alt) \in Int
<1>1. alt.Offset \in Nat /\ alt.Line \in Nat  BY DEF Info
<1> DEFINE n == LineOf(lines, alt.Offset)
<1>2. n \in Nat /\ searchInts(lines, alt.Offset) = n - 1
  <2>1. alt.Offset \in Int  BY <1>1
  <2> QED  BY <2>1, LineOfTyped
<1> HIDE DEF n
<1> QED  BY <1>1, <1>2 DEF CountedOn, Added, n

\* The answer, with the info that is the last one up to the offset.
LEMMA AnswerIs ==
  ASSUME NEW lines \in Seq(Nat), Ascending(lines), NEW infos \in Seq(Info), NEW offset \in Int,
         NEW k \in 0..Len(infos),
         \A j \in 1..Len(infos) : infos[j].Offset <= offset <=> j <= k
  PROVE  AnswerOf(lines, infos, offset) =
           [Line   |-> LineOf(lines, offset) + (IF k > 0 THEN Added(lines, infos[k]) ELSE 0),
            Column |-> ColumnOf(lines, offset)]
<1> DEFINE n    == LineOf(lines, offset)
           alts == {j \in DOMAIN infos : infos[j].Offset <= offset}
           alt  == infos[Max(alts)]
           from == LineOf(lines, alt.Offset)
<1>1. n \in Nat  BY LineOfTyped
<1>2. Len(infos) \in Nat /\ DOMAIN infos = 1..Len(infos)  OBVIOUS
<1>3. alts = 1..k  BY <1>2
<1> HIDE DEF alts
<1>4. CASE k = 0
  <2>1. alts = {}  BY <1>3, <1>4
  <2> QED  BY <1>1, <1>4, <2>1 DEF AnswerOf, ColumnOf, alts
<1>5. CASE k # 0
  <2>1. k \in alts /\ k > 0 /\ k \in 1..Len(infos)  BY <1>2, <1>3, <1>5
  <2>2. Max(alts) = k
    <3>1. \A y \in alts : k >= y  BY <1>3
    <3>2. \A x \in alts : (\A y \in alts : x >= y) => x = k
      BY <1>2, <1>3, <2>1
    <3> QED  BY <2>1, <3>1, <3>2 DEF Max
  <2>3. infos[k] \in Info /\ infos[k].Line \in Nat /\ infos[k].Offset \in Int
    BY <2>1, InfosTyped
  <2> DEFINE m == LineOf(lines, infos[k].Offset)
  <2>4. m \in Nat  BY <2>3, LineOfTyped
  <2>5. AnswerOf(lines, infos, offset) =
          [Line   |-> IF m > 0 THEN infos[k].Line + n - m ELSE n,
           Column |-> ColumnOf(lines, offset)]
    BY <2>1, <2>2 DEF AnswerOf, ColumnOf, alts
  <2>6. Added(lines, infos[k]) = IF m > 0 THEN infos[k].Line - m ELSE 0  BY DEF Added
  <2> HIDE DEF n, m
  <2>7. (IF m > 0 THEN infos[k].Line + n - m ELSE n)
          = n + (IF m > 0 THEN infos[k].Line - m ELSE 0)
    BY <1>1, <2>3, <2>4
  <2> QED  BY <2>1, <2>5, <2>6, <2>7 DEF n
<1> QED  BY <1>4, <1>5

\* Which info the search in them finds.
LEMMA InfoFound ==
  ASSUME NEW infos \in Seq(Info), Ascending(OffsetsOf(infos)), NEW offset \in Int
  PROVE  \E k \in 0..Len(infos) :
           /\ searchLineInfos(infos, offset) = k - 1
           /\ \A j \in 1..Len(infos) : infos[j].Offset <= offset <=> j <= k
<1> DEFINE O == OffsetsOf(infos)
<1>1. /\ O \in Seq(Int) /\ Len(O) = Len(infos) /\ Len(infos) \in Nat
      /\ \A j \in 1..Len(infos) : O[j] = infos[j].Offset
  BY InfosTyped
<1>2. searchLineInfos(infos, offset) = searchInts(O, offset)
  BY DEF searchLineInfos, OffsetsOf
<1> HIDE DEF O
<1>3. PICK k : UpTo(O, offset, k) /\ searchInts(O, offset) = k - 1
  BY <1>1, SearchRight DEF O
<1>4. k \in 0..Len(infos) /\ \A j \in 1..Len(infos) : infos[j].Offset <= offset <=> j <= k
  BY <1>1, <1>3 DEF UpTo
<1> QED  BY <1>2, <1>3, <1>4

\* What info says of a position that its file holds.
LEMMA InfoRight ==
  ASSUME SetInv, LookInv, NEW f \in DOMAIN file, NEW p \in Int, f \in Range(files), Holds(f, p)
  PROVE  Answers(f, p)
<1> DEFINE lines == file[f].lines  infos == file[f].infos  off == p - file[f].base
<1>1. lines \in Seq(Nat) /\ infos \in Seq(Info) /\ off \in Int /\ f # 0
  BY Handle
<1>2. Ascending(lines) /\ Ascending(OffsetsOf(infos))  BY DEF LookInv, InOrder
<1> HIDE DEF lines, infos, off
<1> DEFINE n == LineOf(lines, off)
<1>3. PICK k \in 0..Len(infos) :
        /\ searchLineInfos(infos, off) = k - 1
        /\ \A j \in 1..Len(infos) : infos[j].Offset <= off <=> j <= k
  BY <1>1, <1>2, InfoFound
<1>4. n \in Nat /\ searchInts(lines, off) = n - 1  BY <1>1, <1>2, LineOfTyped
<1>5. k \in Nat /\ k - 1 + 1 = k /\ n - 1 + 1 = n /\ (n - 1 >= 0 <=> n > 0) /\ (k - 1 >= 0 <=> k > 0)
      /\ (n > 0 \/ n = 0)
  BY <1>1, <1>4
<1>6. k > 0 => CountedOn(lines, infos[k]) = Added(lines, infos[k])
  <2>1. k > 0 => k \in 1..Len(infos)  BY <1>1
  <2>2. k > 0 => infos[k] \in Info  BY <1>1, <2>1
  <2> QED  BY <1>1, <1>2, <2>2, CountedOnRight
<1>7. info(f, off) = [Line   |-> n + (IF k > 0 THEN Added(lines, infos[k]) ELSE 0),
                      Column |-> ColumnOf(lines, off)]
  <2>1. info(f, off) =
          [Line   |-> (IF n > 0 THEN n ELSE 0)
                        + (IF k > 0 THEN CountedOn(lines, infos[k]) ELSE 0),
           Column |-> IF n > 0 THEN Column(lines, n - 1, off) ELSE 0]
    BY <1>3, <1>4, <1>5 DEF info, lines, infos
  <2>2. (IF n > 0 THEN n ELSE 0) = n  BY <1>5
  <2>3. (IF n > 0 THEN Column(lines, n - 1, off) ELSE 0) = ColumnOf(lines, off)
    BY <1>5 DEF Column, ColumnOf
  <2> QED  BY <1>6, <2>1, <2>2, <2>3
<1>8. info(f, off) = AnswerOf(lines, infos, off)
  BY <1>1, <1>2, <1>3, <1>7, AnswerIs
<1> QED  BY <1>1, <1>8 DEF Answers, lines, infos, off

-----------------------------------------------------------------------------
(* Lookups stay right *)

LEMMA InitLookInv == Init => LookInv
<1> SUFFICES ASSUME Init PROVE LookInv  OBVIOUS
<1>1. Idle \in Locals /\ Idle.pc = "idle"  BY DEF Idle, Locals
<1>2. file = << >> /\ saved.files = << >> /\ DOMAIN << >> = {}  BY DEF Init
<1> QED  BY <1>1, <1>2 DEF Init, LookInv, InPlace, Unlocked

\* More lines after those there were.
Grown(table, lines) ==
  Len(table) <= Len(lines) /\ \A k \in 1..Len(table) : lines[k] = table[k]

\* A change of the files comes when no lookup holds the lock.  For one without it
\* it leaves the infos it saw where they were, and at most tells that the lines
\* were replaced.
Forgets(l, m) == m = l \/ m = [l EXCEPT !.kept = FALSE]

Growth ==
  \A f \in DOMAIN file :
    /\ f \in DOMAIN file' /\ file'[f].base = file[f].base
    /\ Len(file[f].infos) <= Len(file'[f].infos)
    /\ \A k \in 1..Len(file[f].infos) : file'[f].infos[k] = file[f].infos[k]

\* Lookups in the middle of a file keep it as long as it only grows.
Steady ==
  \A r \in Readers :
    /\ Forgets(reader[r], reader'[r])
    /\ reader'[r].kept /\ reader[r].pc \in Unlocked =>
         Grown(file[reader[r].f].lines, file'[reader[r].f].lines)

LEMMA Forgotten ==
  ASSUME NEW l \in Locals, NEW m, Forgets(l, m)
  PROVE  /\ m \in Locals /\ m.pc = l.pc /\ m.p = l.p /\ m.f = l.f /\ m.i = l.i
         /\ m.line = l.line /\ m.column = l.column /\ m.table = l.table /\ m.seen = l.seen
BY DEF Locals, Forgets

LEMMA ChangeKeeps ==
  ASSUME SetInv, LookInv, SetInv', ~ReadersInside, last' \in Range(files') \cup {0}, Growth,
         reader' \in [Readers -> Locals], \A r \in Readers : Forgets(reader[r], reader'[r]),
         \A f \in DOMAIN file' : InOrder(file'[f]),
         \A i \in DOMAIN saved'.files : InOrder(saved'.files[i])
  PROVE  LookInv'
<1>1. ASSUME NEW r \in Readers PROVE reader'[r].pc # "found" /\ InPlace(reader[r])'
  <2>1. /\ reader[r] \in Locals /\ reader[r].pc # "found" /\ InPlace(reader[r])
        /\ Forgets(reader[r], reader'[r])
    BY DEF LookInv, ReadersInside
  <2>2. PICK l \in Locals, m \in Locals : l = reader[r] /\ m = reader'[r]
    BY <2>1
  <2>3. m.pc = l.pc /\ m.f = l.f /\ m.i = l.i /\ m.table = l.table /\ m.seen = l.seen
    BY <2>1, <2>2, Forgotten
  <2>4. \A f \in DOMAIN file : /\ f \in DOMAIN file'
                               /\ Len(file[f].infos) \in Nat /\ Len(file'[f].infos) \in Nat
                               /\ Len(file[f].infos) <= Len(file'[f].infos)
    <3> SUFFICES ASSUME NEW f \in DOMAIN file
                 PROVE  /\ f \in DOMAIN file'
                        /\ Len(file[f].infos) \in Nat /\ Len(file'[f].infos) \in Nat
                        /\ Len(file[f].infos) <= Len(file'[f].infos)
      OBVIOUS
    <3>1. f \in DOMAIN file' /\ Len(file[f].infos) <= Len(file'[f].infos)  BY DEF Growth
    <3>2. file[f].infos \in Seq(Info)  BY Handle
    <3>3. file \in Seq(File) /\ file' \in Seq(File)  BY DEF SetInv
    <3>4. file'[f] \in File  BY <3>1, <3>3
    <3>5. file'[f].infos \in Seq(Info)  BY <3>4, FileFields
    <3> QED  BY <3>1, <3>2, <3>5
  <2>5. l.seen \in Nat  BY DEF Locals
  <2>6. InPlace(l)  BY <2>1, <2>2
  <2>7. InPlace(m)'
    <3>1. m.pc \in Unlocked \cup {"done"} =>
            m.f \in DOMAIN file' /\ m.seen <= Len(file'[m.f].infos)
      <4> SUFFICES ASSUME m.pc \in Unlocked \cup {"done"}
                   PROVE  m.f \in DOMAIN file' /\ m.seen <= Len(file'[m.f].infos)
        OBVIOUS
      <4>1. l.f \in DOMAIN file /\ l.seen <= Len(file[l.f].infos)  BY <2>3, <2>6 DEF InPlace
      <4> QED  BY <2>3, <2>4, <2>5, <4>1
    <3>2. m.pc = "column" => m.i \in 0..(Len(m.table) - 1)  BY <2>3, <2>6 DEF InPlace
    <3>3. m.pc = "count" => m.i \in 0..(m.seen - 1)  BY <2>3, <2>6 DEF InPlace
    <3> QED  BY <3>1, <3>2, <3>3 DEF InPlace
  <2>8. m.pc # "found"  BY <2>1, <2>2, <2>3
  <2> QED  BY <2>2, <2>7, <2>8 DEF InPlace
<1> QED  BY <1>1 DEF LookInv

LEMMA LocalsTyped ==
  ASSUME LookInv, NEW r \in Readers
  PROVE  /\ reader[r] \in Locals /\ reader[r].p \in Int /\ reader[r].f \in Nat
         /\ reader[r].i \in Int /\ reader[r].table \in Seq(Nat) /\ reader[r].column \in Int
         /\ reader[r].line \in Int /\ reader[r].seen \in Nat /\ InPlace(reader[r])
<1>1. reader[r] \in Locals /\ InPlace(reader[r])  BY DEF LookInv
<1>2. \A l \in Locals : /\ l.p \in Int /\ l.f \in Nat /\ l.i \in Int
                        /\ l.table \in Seq(Nat) /\ l.column \in Int
                        /\ l.line \in Int /\ l.seen \in Nat
  BY DEF Locals
<1> QED  BY <1>1, <1>2

LEMMA SameLocals ==
  ASSUME LookInv, reader' = reader
  PROVE  reader' \in [Readers -> Locals] /\ \A r \in Readers : Forgets(reader[r], reader'[r])
BY DEF LookInv, Forgets

\* A change to the tables of one file.
LEMMA TableGrowth ==
  ASSUME SetInv, NEW f \in DOMAIN file, NEW new, file' = [file EXCEPT ![f] = new],
         new.base = file[f].base, Len(file[f].infos) <= Len(new.infos),
         \A k \in 1..Len(file[f].infos) : new.infos[k] = file[f].infos[k]
  PROVE  /\ Growth /\ DOMAIN file' = DOMAIN file /\ file'[f] = new
         /\ \A g \in DOMAIN file \ {f} : file'[g] = file[g]
<1>1. /\ DOMAIN file' = DOMAIN file /\ file'[f] = new
      /\ \A g \in DOMAIN file \ {f} : file'[g] = file[g]
  BY DEF SetInv
<1>2. \A g \in DOMAIN file : Len(file[g].infos) <= Len(file[g].infos)
  <2>1. \A g \in DOMAIN file : Len(file[g].infos) \in Nat
    <3> SUFFICES ASSUME NEW g \in DOMAIN file PROVE Len(file[g].infos) \in Nat  OBVIOUS
    <3>1. file[g].infos \in Seq(Info)  BY Handle
    <3> QED  BY <3>1
  <2> QED  BY <2>1
<1>3. ASSUME NEW g \in DOMAIN file
      PROVE  /\ g \in DOMAIN file' /\ file'[g].base = file[g].base
             /\ Len(file[g].infos) <= Len(file'[g].infos)
             /\ \A k \in 1..Len(file[g].infos) : file'[g].infos[k] = file[g].infos[k]
  <2>1. CASE g = f  BY <1>1, <2>1
  <2>2. CASE g # f  BY <1>1, <1>2, <2>2
  <2> QED  BY <2>1, <2>2
<1> QED  BY <1>1, <1>3 DEF Growth

LEMMA TablesKeep ==
  ASSUME SetInv, LookInv, SetInv', ~ReadersInside, NEW f \in DOMAIN file, NEW new, InOrder(new),
         file' = [file EXCEPT ![f] = new], UNCHANGED <<set, saved>>,
         new.base = file[f].base, Len(file[f].infos) <= Len(new.infos),
         \A k \in 1..Len(file[f].infos) : new.infos[k] = file[f].infos[k],
         reader' \in [Readers -> Locals], \A r \in Readers : Forgets(reader[r], reader'[r])
  PROVE  LookInv'
<1>1. /\ Growth /\ DOMAIN file' = DOMAIN file /\ file'[f] = new
      /\ \A g \in DOMAIN file \ {f} : file'[g] = file[g]
  BY TableGrowth
<1>2. \A g \in DOMAIN file' : InOrder(file'[g])  BY <1>1 DEF LookInv
<1>3. last' \in Range(files') \cup {0} /\ \A i \in DOMAIN saved'.files : InOrder(saved'.files[i])
  BY DEF LookInv, set
<1> QED  BY <1>1, <1>2, <1>3, ChangeKeeps

\* A change that leaves the lines of every file alone.
LEMMA SameLines ==
  ASSUME SetInv, LookInv, reader' = reader,
         \A f \in DOMAIN file : file'[f].lines = file[f].lines
  PROVE  Steady
<1> SUFFICES ASSUME NEW r \in Readers
             PROVE  /\ Forgets(reader[r], reader'[r])
                    /\ reader[r].pc \in Unlocked =>
                         Grown(file[reader[r].f].lines, file'[reader[r].f].lines)
  BY DEF Steady
<1>1. Forgets(reader[r], reader'[r])  BY DEF Forgets
<1>2. ASSUME reader[r].pc \in Unlocked
      PROVE  Grown(file[reader[r].f].lines, file'[reader[r].f].lines)
  <2>1. reader[r].f \in DOMAIN file  BY <1>2 DEF LookInv, InPlace
  <2>2. file[reader[r].f].lines \in Seq(Nat)  BY <2>1, Handle
  <2>3. Len(file[reader[r].f].lines) \in Nat  BY <2>2
  <2> QED  BY <2>1, <2>3 DEF Grown
<1> QED  BY <1>1, <1>2

LEMMA InfosThere ==
  ASSUME SetInv, NEW f \in DOMAIN file
  PROVE  Len(file[f].infos) \in Nat /\ Len(file[f].infos) <= Len(file[f].infos)
<1>1. file[f].infos \in Seq(Info)  BY Handle
<1>2. Len(file[f].infos) \in Nat  BY <1>1
<1> QED  BY <1>2

LEMMA AddFileLooks ==
  ASSUME SetInv, LookInv, SetInv', NEW gap \in Gaps, NEW size \in Sizes, AddFile(gap, size)
  PROVE  LookInv' /\ Growth /\ Steady
<1> DEFINE new == [base |-> base + gap, size |-> size, lines |-> <<0>>, infos |-> << >>]
<1>1. /\ gap \in Int /\ gap >= 0 /\ size \in Nat /\ base \in Int
      /\ file' = Append(file, new) /\ files' = Append(files, Len(file) + 1)
      /\ last' = Len(file) + 1 /\ saved' = saved /\ reader' = reader /\ ~ReadersInside
  BY FileSetAssumption DEF AddFile, SetInv
<1>2. new \in File /\ InOrder(new)
  <2>1. base + gap \in Int /\ <<0>> \in Seq(Nat) /\ << >> \in Seq(Info)  BY <1>1
  <2>2. Ascending(<<0>>)  BY DEF Ascending
  <2>3. Ascending(OffsetsOf(<< >>))  BY DEF Ascending, OffsetsOf
  <2> QED  BY <1>1, <2>1, <2>2, <2>3 DEF File, InOrder
<1> HIDE DEF new
<1>3. /\ DOMAIN file = 1..Len(file) /\ DOMAIN file' = 1..(Len(file) + 1)
      /\ Len(file) \in Nat
      /\ \A f \in 1..Len(file) : file'[f] = file[f]
      /\ file'[Len(file) + 1] = new
  BY <1>1, <1>2, Appended DEF SetInv
<1>4. \A f \in DOMAIN file' : InOrder(file'[f])
  <2> SUFFICES ASSUME NEW f \in 1..(Len(file) + 1) PROVE InOrder(file'[f])  BY <1>3
  <2>1. f \in 1..Len(file) \/ f = Len(file) + 1  BY <1>3
  <2> QED  BY <1>2, <1>3, <2>1 DEF LookInv
<1>5. last' \in Range(files')
  <2>1. files \in Seq(DOMAIN file)  BY DEF SetInv
  <2>2. files \in Seq(Nat) /\ Len(file) + 1 \in Nat  BY <2>1, <1>3
  <2>3. /\ DOMAIN files' = 1..(Len(files) + 1) /\ Len(files) \in Nat
        /\ files'[Len(files) + 1] = Len(file) + 1
    BY <1>1, <2>2, Appended
  <2>4. Len(files) + 1 \in DOMAIN files'  BY <2>3
  <2> QED  BY <1>1, <2>3, <2>4 DEF Range
<1>6. Growth  BY <1>3, InfosThere DEF Growth
<1>7. \A i \in DOMAIN saved'.files : InOrder(saved'.files[i])  BY <1>1 DEF LookInv
<1>8. Steady  BY <1>1, <1>3, SameLines
<1> QED  BY <1>1, <1>4, <1>5, <1>6, <1>7, <1>8, SameLocals, ChangeKeeps

LEMMA AddLineLooks ==
  ASSUME SetInv, LookInv, SetInv', NEW f \in DOMAIN file, NEW offset \in 0..file[f].size,
         AddLine(f, offset)
  PROVE  LookInv' /\ Growth /\ Steady
<1> DEFINE new == [file[f] EXCEPT !.lines = Append(@, offset)]
<1>1. /\ file[f] \in File /\ file[f].lines \in Seq(Nat) /\ file[f].size \in Nat
      /\ InOrder(file[f]) /\ offset \in Nat
  BY Handle DEF LookInv
<1>2. file[f].lines # << >> => file[f].lines[Len(file[f].lines)] < offset
  BY DEF AddLine, ComesAfter, Last
<1>3. Ascending(Append(file[f].lines, offset))
  <2>1. Nat \subseteq Int  OBVIOUS
  <2> QED  BY <1>1, <1>2, <2>1, AppendAscending DEF InOrder
<1>4. InOrder(new) /\ new.base = file[f].base /\ new.infos = file[f].infos
  <2>1. new.lines = Append(file[f].lines, offset) /\ new.infos = file[f].infos
        /\ new.base = file[f].base
    BY <1>1 DEF File
  <2> QED  BY <1>1, <1>3, <2>1 DEF InOrder
<1>5. file' = [file EXCEPT ![f] = new] /\ UNCHANGED <<set, saved, reader>> /\ ~ReadersInside
  BY DEF AddLine
<1>6. Len(file[f].infos) <= Len(new.infos)  BY <1>4, InfosThere
<1>7. Grown(file[f].lines, new.lines)
  <2>1. new.lines = Append(file[f].lines, offset)  BY <1>1 DEF File
  <2>2. Len(Append(file[f].lines, offset)) = Len(file[f].lines) + 1 /\ Len(file[f].lines) \in Nat
    BY <1>1
  <2>3. \A k \in 1..Len(file[f].lines) : Append(file[f].lines, offset)[k] = file[f].lines[k]
    BY <1>1, Appended
  <2> QED  BY <2>1, <2>2, <2>3 DEF Grown
<1> HIDE DEF new
<1>8. /\ Growth /\ DOMAIN file' = DOMAIN file /\ file'[f] = new
      /\ \A g \in DOMAIN file \ {f} : file'[g] = file[g]
  BY <1>4, <1>5, <1>6, TableGrowth
<1>9. Steady
  <2> SUFFICES ASSUME NEW r \in Readers
               PROVE  /\ Forgets(reader[r], reader'[r])
                      /\ reader[r].pc \in Unlocked =>
                           Grown(file[reader[r].f].lines, file'[reader[r].f].lines)
    BY DEF Steady
  <2>1. Forgets(reader[r], reader'[r])  BY <1>5 DEF Forgets
  <2>2. ASSUME reader[r].pc \in Unlocked
        PROVE  Grown(file[reader[r].f].lines, file'[reader[r].f].lines)
    <3>1. reader[r].f \in DOMAIN file  BY <2>2 DEF LookInv, InPlace
    <3>2. file[reader[r].f].lines \in Seq(Nat)  BY <3>1, Handle
    <3>3. Len(file[reader[r].f].lines) \in Nat  BY <3>2
    <3>4. CASE reader[r].f = f  BY <1>7, <1>8, <3>4
    <3>5. CASE reader[r].f # f  BY <1>8, <3>1, <3>3, <3>5 DEF Grown
    <3> QED  BY <3>4, <3>5
  <2> QED  BY <2>1, <2>2
<1> QED  BY <1>4, <1>5, <1>6, <1>8, <1>9, SameLocals, TablesKeep

LEMMA SetLinesLooks ==
  ASSUME SetInv, LookInv, SetInv', NEW f \in DOMAIN file, NEW lines \in Tables, SetLines(f, lines)
  PROVE  LookInv' /\ Growth /\ Steady
<1> DEFINE new == [file[f] EXCEPT !.lines = lines]
<1>1. file[f] \in File /\ InOrder(file[f]) /\ lines \in Seq(Nat)
  BY Handle, FileSetAssumption DEF LookInv
<1>2. Ascending(lines)  BY <1>1, Neighbours DEF SetLines
<1>3. InOrder(new) /\ new.base = file[f].base /\ new.infos = file[f].infos
  <2>1. new.lines = lines /\ new.infos = file[f].infos /\ new.base = file[f].base
    BY <1>1 DEF File
  <2> QED  BY <1>1, <1>2, <2>1 DEF InOrder
<1>4. file' = [file EXCEPT ![f] = new] /\ UNCHANGED <<set, saved>> /\ ~ReadersInside
  BY DEF SetLines
<1>5. Len(file[f].infos) <= Len(new.infos)  BY <1>3, InfosThere
<1>6. reader' \in [Readers -> Locals] /\ \A r \in Readers : Forgets(reader[r], reader'[r])
  <2>1. \A l \in Locals : [l EXCEPT !.kept = FALSE] \in Locals  BY DEF Locals
  <2>2. \A r \in Readers : reader[r] \in Locals  BY DEF LookInv
  <2>3. reader' = [r \in Readers |->
          IF reader[r].f = f /\ reader[r].pc \in Unlocked
          THEN [reader[r] EXCEPT !.kept = FALSE] ELSE reader[r]]
    BY DEF SetLines
  <2> QED  BY <2>1, <2>2, <2>3 DEF Forgets
<1> HIDE DEF new
<1>7. /\ Growth /\ DOMAIN file' = DOMAIN file /\ file'[f] = new
      /\ \A g \in DOMAIN file \ {f} : file'[g] = file[g]
  BY <1>3, <1>4, <1>5, TableGrowth
<1>8. Steady
  <2> SUFFICES ASSUME NEW r \in Readers, reader'[r].kept, reader[r].pc \in Unlocked
               PROVE  Grown(file[reader[r].f].lines, file'[reader[r].f].lines)
    BY <1>6 DEF Steady
  <2>1. reader[r].f # f
    <3>1. reader[r] \in Locals  BY LocalsTyped
    <3>2. [reader[r] EXCEPT !.kept = FALSE].kept = FALSE  BY <3>1 DEF Locals
    <3> QED  BY <3>2 DEF SetLines
  <2>2. reader[r].f \in DOMAIN file  BY DEF LookInv, InPlace
  <2>3. file[reader[r].f].lines \in Seq(Nat)  BY <2>2, Handle
  <2>4. Len(file[reader[r].f].lines) \in Nat  BY <2>3
  <2> QED  BY <1>7, <2>1, <2>2, <2>4 DEF Grown
<1> QED  BY <1>3, <1>4, <1>5, <1>6, <1>7, <1>8, TablesKeep

LEMMA AddLineInfoLooks ==
  ASSUME SetInv, LookInv, SetInv', NEW f \in DOMAIN file, NEW alt \in Infos, AddLineInfo(f, alt)
  PROVE  LookInv' /\ Growth /\ Steady
<1> DEFINE infos == file[f].infos
           more == Append(infos, alt)
           new == [file[f] EXCEPT !.infos = Append(@, alt)]
<1>1. file[f] \in File /\ infos \in Seq(Info) /\ InOrder(file[f]) /\ alt \in Info
  BY Handle, FileSetAssumption DEF LookInv, Info
<1>2. infos # << >> => infos[Len(infos)].Offset < alt.Offset
  BY DEF AddLineInfo, Last
<1> HIDE DEF infos
<1>3. /\ more \in Seq(Info) /\ Len(infos) \in Nat
      /\ DOMAIN infos = 1..Len(infos) /\ DOMAIN more = 1..(Len(infos) + 1)
      /\ \A i \in 1..Len(infos) : more[i] = infos[i]
      /\ more[Len(infos) + 1] = alt
  BY <1>1, Appended
<1>4. /\ OffsetsOf(infos) \in Seq(Int) /\ Len(OffsetsOf(infos)) = Len(infos)
      /\ \A k \in 1..Len(infos) : OffsetsOf(infos)[k] = infos[k].Offset
      /\ alt.Offset \in Int
  BY <1>1, InfosTyped DEF Info
<1>5. OffsetsOf(more) = Append(OffsetsOf(infos), alt.Offset)
  <2>1. /\ DOMAIN Append(OffsetsOf(infos), alt.Offset) = 1..(Len(infos) + 1)
        /\ \A k \in 1..Len(infos) :
             Append(OffsetsOf(infos), alt.Offset)[k] = OffsetsOf(infos)[k]
        /\ Append(OffsetsOf(infos), alt.Offset)[Len(infos) + 1] = alt.Offset
        /\ Append(OffsetsOf(infos), alt.Offset) \in Seq(Int)
    BY <1>4, Appended
  <2> DEFINE q == Append(OffsetsOf(infos), alt.Offset)
  <2> HIDE DEF q
  <2>2. q \in Seq(Int) /\ DOMAIN q = 1..(Len(infos) + 1)  BY <2>1 DEF q
  <2>3. \A k \in 1..(Len(infos) + 1) : q[k] = more[k].Offset
    <3> SUFFICES ASSUME NEW k \in 1..(Len(infos) + 1) PROVE q[k] = more[k].Offset
      OBVIOUS
    <3>1. k \in 1..Len(infos) \/ k = Len(infos) + 1  BY <1>3
    <3> QED  BY <1>3, <1>4, <2>1, <3>1 DEF q
  <2>4. q = [k \in 1..(Len(infos) + 1) |-> more[k].Offset]  BY <2>2, <2>3
  <2>5. OffsetsOf(more) = [k \in 1..(Len(infos) + 1) |-> more[k].Offset]
    BY <1>3 DEF OffsetsOf
  <2> QED  BY <2>4, <2>5 DEF q
<1>6. Ascending(OffsetsOf(more))
  <2>1. Ascending(OffsetsOf(infos))  BY <1>1 DEF InOrder, infos
  <2>2. OffsetsOf(infos) # << >> =>
          OffsetsOf(infos)[Len(OffsetsOf(infos))] < alt.Offset
    <3> SUFFICES ASSUME OffsetsOf(infos) # << >>
                 PROVE  OffsetsOf(infos)[Len(infos)] < alt.Offset
      BY <1>4
    <3>1. Len(infos) \in 1..Len(infos)  BY <1>3, <1>4
    <3>2. infos # << >>  BY <3>1
    <3> QED  BY <1>2, <1>4, <3>1, <3>2
  <2>3. Int \subseteq Int  OBVIOUS
  <2> QED  BY <1>4, <1>5, <2>1, <2>2, <2>3, AppendAscending
<1>7. /\ InOrder(new) /\ new.base = file[f].base /\ new.infos = more
      /\ new.lines = file[f].lines
  <2>1. new.lines = file[f].lines /\ new.infos = more /\ new.base = file[f].base
    BY <1>1 DEF File, infos
  <2> QED  BY <1>1, <1>6, <2>1 DEF InOrder
<1>8. file' = [file EXCEPT ![f] = new] /\ UNCHANGED <<set, saved, reader>> /\ ~ReadersInside
  BY DEF AddLineInfo
<1>9. /\ Len(file[f].infos) <= Len(new.infos)
      /\ \A k \in 1..Len(file[f].infos) : new.infos[k] = file[f].infos[k]
  <2>1. Len(more) = Len(infos) + 1  BY <1>1 DEF infos
  <2> QED  BY <1>3, <1>7, <2>1 DEF infos
<1> HIDE DEF new, more
<1>10. /\ Growth /\ DOMAIN file' = DOMAIN file /\ file'[f] = new
       /\ \A g \in DOMAIN file \ {f} : file'[g] = file[g]
  BY <1>7, <1>8, <1>9, TableGrowth
<1>11. Steady
  <2>1. \A g \in DOMAIN file : file'[g].lines = file[g].lines  BY <1>7, <1>10
  <2> QED  BY <1>8, <2>1, SameLines
<1> QED  BY <1>7, <1>8, <1>9, <1>10, <1>11, SameLocals, TablesKeep

LEMMA WriteSetLooks ==
  ASSUME SetInv, LookInv, SetInv', WriteSet
  PROVE  LookInv' /\ Growth /\ Steady
<1>1. /\ saved'.files = [i \in DOMAIN files |-> file[files[i]]]
      /\ UNCHANGED <<base, files, last, file, reader>> /\ ~ReadersInside
  BY DEF WriteSet, set
<1>2. \A i \in DOMAIN saved'.files : InOrder(saved'.files[i])
  BY <1>1, HandlesOfSet DEF LookInv
<1>3. Growth  BY <1>1, InfosThere DEF Growth
<1>4. last' \in Range(files') \cup {0} /\ \A f \in DOMAIN file' : InOrder(file'[f])
  BY <1>1 DEF LookInv
<1>5. Steady  BY <1>1, SameLines
<1> QED  BY <1>1, <1>2, <1>3, <1>4, <1>5, SameLocals, ChangeKeeps

LEMMA ReadSetLooks ==
  ASSUME SetInv, LookInv, SetInv', ReadSet
  PROVE  LookInv' /\ Growth /\ Steady
<1>1. /\ file' = file \o saved.files /\ last' = 0 /\ ~ReadersInside
      /\ UNCHANGED <<saved, reader>>
  BY DEF ReadSet, ResetLast
<1>2. PICK p \in Seq(File), q \in Seq(File) : p = file /\ q = saved.files
  BY DEF SetInv
<1>3. /\ DOMAIN p = 1..Len(p) /\ DOMAIN q = 1..Len(q) /\ Len(p) \in Nat /\ Len(q) \in Nat
      /\ DOMAIN (p \o q) = 1..(Len(p) + Len(q))
      /\ \A i \in 1..(Len(p) + Len(q)) :
           (p \o q)[i] = IF i <= Len(p) THEN p[i] ELSE q[i - Len(p)]
  BY ConcatProperties
<1>4. ASSUME NEW f \in DOMAIN file' PROVE InOrder(file'[f])
  <2>1. f \in 1..(Len(p) + Len(q)) /\ file'[f] = (p \o q)[f]  BY <1>1, <1>2, <1>3, <1>4
  <2>2. CASE f <= Len(p)
    BY <1>2, <1>3, <2>1, <2>2 DEF LookInv
  <2>3. CASE ~(f <= Len(p))
    <3>1. f - Len(p) \in 1..Len(q)  BY <1>3, <2>1, <2>3
    <3>2. file'[f] = q[f - Len(p)]  BY <1>3, <2>1, <2>3
    <3> QED  BY <1>2, <1>3, <3>1, <3>2 DEF LookInv
  <2> QED  BY <2>2, <2>3
<1>5. Growth /\ Steady
  <2>1. \A f \in DOMAIN file : f \in DOMAIN file' /\ file'[f] = file[f]
    BY <1>1, <1>2, <1>3
  <2> QED  BY <1>1, <2>1, InfosThere, SameLines DEF Growth
<1>6. \A i \in DOMAIN saved'.files : InOrder(saved'.files[i])  BY <1>1 DEF LookInv
<1> QED  BY <1>1, <1>4, <1>5, <1>6, SameLocals, ChangeKeeps

\* A lookup's step: its own locals, and the cache to a file of the set.
LEMMA ReaderKeeps ==
  ASSUME LookInv, UNCHANGED <<base, files, file, saved>>, last' \in Range(files) \cup {0},
         NEW r \in Readers, NEW l \in Locals, reader' = [reader EXCEPT ![r] = l],
         l.pc = "found" => Found(l.f, l.p), InPlace(l)
  PROVE  LookInv'
<1>1. reader' \in [Readers -> Locals] /\ reader'[r] = l
      /\ \A q \in Readers \ {r} : reader'[q] = reader[q]
  BY DEF LookInv
<1>2. ASSUME NEW f, NEW p, Found(f, p) PROVE Found(f, p)'
  BY <1>2 DEF Found, Holds
<1>3. ASSUME NEW q \in Readers, reader'[q].pc = "found"
      PROVE  Found(reader'[q].f, reader'[q].p)
  BY <1>1, <1>3 DEF LookInv
<1>4. ASSUME NEW q \in Readers, reader'[q].pc = "found"
      PROVE  Found(reader[q].f, reader[q].p)'
  <2>1. PICK f, p : f = reader'[q].f /\ p = reader'[q].p  OBVIOUS
  <2>2. Found(f, p)  BY <1>3, <1>4, <2>1
  <2>3. Found(f, p)'  BY <1>2, <2>2
  <2> QED  BY <2>1, <2>3 DEF Found, Holds
<1>5. ASSUME NEW q \in Readers PROVE InPlace(reader[q])'
  <2>1. PICK m : m = reader'[q]  OBVIOUS
  <2>2. InPlace(m)  BY <1>1, <2>1 DEF LookInv
  <2>3. InPlace(m)'  BY <2>2 DEF InPlace
  <2> QED  BY <2>1, <2>3 DEF InPlace
<1> QED  BY <1>1, <1>4, <1>5 DEF LookInv

LEMMA LookupLooks ==
  ASSUME SetInv, LookInv, NEW r \in Readers, NEW p \in 1..MaxPos, Lookup(r, p)
  PROVE  LookInv'
<1> DEFINE hit == last # 0 /\ Holds(last, p)
           at == IF hit THEN "found" ELSE "search"
           f == IF hit THEN last ELSE 0
           l == [Idle EXCEPT !.p = p, !.pc = at, !.f = f]
<1>1. last \in Range(files) \cup {0} /\ last \in Nat /\ p \in Int
  <2>1. last \in Range(files) \cup {0}  BY DEF LookInv
  <2>2. last \in Range(files) => last \in Nat  BY HandlesOfSet, Handle
  <2>3. MaxPos \in Nat  BY FileSetAssumption
  <2> QED  BY <2>1, <2>2, <2>3
<1>2. /\ reader' = [reader EXCEPT ![r] = l] /\ UNCHANGED <<base, files, file, saved>>
      /\ last' = last
  BY DEF Lookup, set
<1>a. at \in {"found", "search"} /\ f \in Nat /\ (at = "found" => Found(f, p))
  BY <1>1 DEF Found
<1> HIDE DEF hit, at, f
<1>3. l \in Locals /\ l.p = p /\ l.pc = at /\ l.f = f
  <2>i. Idle \in Locals  BY DEF Idle, Locals
  <2>1. PICK b \in Locals : b = Idle  BY <2>i
  <2>2. << >> \in Seq(Nat) /\ 0 \in Int  OBVIOUS
  <2>3. LET n == [b EXCEPT !.p = p, !.pc = at, !.f = f] IN
        n \in Locals /\ n.p = p /\ n.pc = at /\ n.f = f
    BY <1>1, <1>a DEF Locals
  <2>4. l = [b EXCEPT !.p = p, !.pc = at, !.f = f]  BY <2>1
  <2> HIDE DEF l
  <2> QED  BY <2>3, <2>4
<1>4. (l.pc = "found" => Found(l.f, l.p)) /\ InPlace(l)
  BY <1>a, <1>3 DEF InPlace, Unlocked
<1> HIDE DEF l
<1> QED  BY <1>1, <1>2, <1>3, <1>4, ReaderKeeps

LEMMA SearchLooks ==
  ASSUME SetInv, LookInv, NEW r \in Readers, Search(r)
  PROVE  LookInv'
<1> DEFINE i == searchFiles(reader[r].p)
           f == IF i >= 0 /\ Holds(files[i + 1], reader[r].p) THEN files[i + 1] ELSE 0
           l == [reader[r] EXCEPT !.pc = "found", !.f = f]
<1>1. reader[r] \in Locals /\ reader[r].p \in Int  BY LocalsTyped
<1>2. Found(f, reader[r].p) /\ f \in Nat  BY <1>1, SearchFinds
<1>3. /\ reader' = [reader EXCEPT ![r].pc = "found", ![r].f = f]
      /\ last' = (IF f = 0 THEN last ELSE f) /\ UNCHANGED <<base, files, file, saved>>
  BY DEF Search
<1> HIDE DEF f
<1>4. reader' = [reader EXCEPT ![r] = l]  BY <1>3 DEF LookInv
<1>5. l \in Locals /\ l.p = reader[r].p /\ l.f = f /\ l.pc = "found"
  BY <1>1, <1>2 DEF Locals
<1>6. last' \in Range(files) \cup {0}
  BY <1>2, <1>3 DEF Found, LookInv
<1>7. InPlace(l)  BY <1>5 DEF InPlace, Unlocked
<1> HIDE DEF l
<1> QED  BY <1>2, <1>3, <1>4, <1>5, <1>6, <1>7, ReaderKeeps

LEMMA ReturnLooks ==
  ASSUME LookInv, NEW r \in Readers, Return(r)
  PROVE  LookInv'
<1>1. Idle \in Locals /\ Idle.pc = "idle" /\ InPlace(Idle)
  BY DEF Idle, Locals, InPlace, Unlocked
<1>2. last' \in Range(files) \cup {0}  BY DEF Return, set, LookInv
<1> QED  BY <1>1, <1>2, ReaderKeeps DEF Return, set

-----------------------------------------------------------------------------
(* Lookups without the lock *)

\* Where nothing replaced the lines: what a lookup has found so far is what the
\* lines at the call say.
Going(l) ==
  l.kept =>
    LET infos == file[l.f].infos  off == l.p - file[l.f].base IN
    /\ l.pc # "panic"
    /\ l.pc \in Unlocked => Ascending(l.table) /\ Grown(l.table, file[l.f].lines)
    /\ l.pc = "column" => l.line = l.i + 1 /\ l.line = LineOf(l.table, off)
    /\ l.pc \in {"infos", "count"} =>
         l.line = LineOf(l.table, off) /\ l.column = ColumnOf(l.table, off)
    /\ l.pc = "count" => \A k \in 1..l.seen : infos[k].Offset <= off <=> k <= l.i + 1
    /\ l.pc = "done" /\ Settled(l) => AnswersFrom(l, l.table)

LEMMA FindLineLooks ==
  ASSUME SetInv, LookInv, NEW r \in Readers, NEW f \in DOMAIN file, NEW p \in 1..MaxPos,
         FindLine(r, f, p)
  PROVE  LookInv' /\ Going(reader'[r]) /\ file' = file
<1> DEFINE lines == file[f].lines
           off == p - file[f].base
           i == searchInts(lines, off)
           pc == IF i >= 0 THEN "column" ELSE "infos"
           line == IF i >= 0 THEN i + 1 ELSE 0
           l == [Idle EXCEPT !.pc = pc, !.p = p, !.f = f, !.i = i, !.line = line, !.table = lines]
<1>1. /\ p \in Int /\ f \in Nat /\ lines \in Seq(Nat) /\ off \in Int /\ Ascending(lines)
      /\ Len(file[f].infos) \in Nat
  <2>1. MaxPos \in Nat  BY FileSetAssumption
  <2>2. file[f].base \in Int /\ f \in Nat /\ lines \in Seq(Nat) /\ Ascending(lines)
    BY Handle DEF LookInv, InOrder
  <2> QED  BY <2>1, <2>2, InfosThere
<1>2. reader' = [reader EXCEPT ![r] = l] /\ UNCHANGED <<base, files, last, file, saved>>
  BY DEF FindLine, set
<1> HIDE DEF i, lines, off
<1> DEFINE n == LineOf(lines, off)
<1>3. n \in 0..Len(lines) /\ i = n - 1 /\ Len(lines) \in Nat
  <2>1. n \in 0..Len(lines) /\ n - 1 = searchInts(lines, off)  BY <1>1, LineOfTyped
  <2>2. Len(lines) \in Nat  BY <1>1
  <2> QED  BY <2>1, <2>2 DEF i
<1> HIDE DEF n
<1>4. /\ pc \in {"column", "infos"} /\ i \in Int /\ line = n
      /\ (pc = "column" => i \in 0..(Len(lines) - 1) /\ line = i + 1)
      /\ (pc = "infos" => n = 0)
  BY <1>3
<1> HIDE DEF pc, line
<1>5. /\ l \in Locals /\ l.f = f /\ l.i = i /\ l.table = lines /\ l.pc = pc /\ l.line = line
      /\ l.p = p /\ l.column = 0 /\ l.seen = 0
  <2>i. Idle \in Locals /\ Idle.column = 0 /\ Idle.seen = 0  BY DEF Idle, Locals
  <2>1. PICK b \in Locals : b = Idle  BY <2>i
  <2>2. LET m == [b EXCEPT !.pc = pc, !.p = p, !.f = f, !.i = i, !.line = line, !.table = lines] IN
        /\ m \in Locals /\ m.pc = pc /\ m.p = p /\ m.f = f /\ m.i = i /\ m.line = line
        /\ m.table = lines /\ m.column = b.column /\ m.seen = b.seen
    <3>1. n \in Int  BY <1>3
    <3> QED  BY <1>1, <1>4, <3>1 DEF Locals
  <2>3. l = [b EXCEPT !.pc = pc, !.p = p, !.f = f, !.i = i, !.line = line, !.table = lines]
    BY <2>1
  <2> HIDE DEF l
  <2> QED  BY <2>i, <2>1, <2>2, <2>3
<1>6. last' \in Range(files) \cup {0}  BY <1>2 DEF LookInv
<1> HIDE DEF l
<1>7. InPlace(l)  BY <1>1, <1>4, <1>5 DEF InPlace, Unlocked
<1>8. LookInv'  BY <1>2, <1>4, <1>5, <1>6, <1>7, ReaderKeeps
<1>9. Going(l)
  <2>1. Grown(lines, lines)  BY <1>3 DEF Grown
  <2>2. pc = "infos" => l.column = ColumnOf(lines, off)
    BY <1>4, <1>5 DEF ColumnOf, n
  <2> QED  BY <1>1, <1>4, <1>5, <2>1, <2>2 DEF Going, Unlocked, lines, off, n
<1>10. reader'[r] = l  BY <1>2 DEF LookInv
<1> QED  BY <1>2, <1>8, <1>9, <1>10

LEMMA FindColumnLooks ==
  ASSUME SetInv, LookInv, NEW r \in Readers, FindColumn(r), Going(reader[r])
  PROVE  LookInv' /\ Going(reader'[r]) /\ file' = file
<1> DEFINE at == reader[r]
           lines == file[at.f].lines
           off == at.p - file[at.f].base
           col == Column(lines, at.i, off)
           l == IF at.i < Len(lines) THEN [at EXCEPT !.pc = "infos", !.column = col]
                                     ELSE [at EXCEPT !.pc = "panic"]
<1>1. /\ at \in Locals /\ at.f \in DOMAIN file /\ at.i \in 0..(Len(at.table) - 1)
      /\ at.table \in Seq(Nat) /\ at.seen <= Len(file[at.f].infos) /\ at.pc = "column"
      /\ at.p \in Int /\ at.i \in Int
  BY LocalsTyped DEF InPlace, FindColumn, Unlocked
<1>2. lines \in Seq(Nat) /\ off \in Int
  <2>1. file[at.f].base \in Int /\ lines \in Seq(Nat)  BY <1>1, Handle
  <2> QED  BY <1>1, <2>1
<1> HIDE DEF lines, off
<1>3. Len(at.table) \in Nat /\ Len(lines) \in Nat  BY <1>1, <1>2
<1>4. at.i < Len(lines) => col = off - lines[at.i + 1] + 1 /\ col \in Int
  <2>1. at.i < Len(lines) => at.i + 1 \in 1..Len(lines)
    BY <1>1, <1>3
  <2>2. at.i < Len(lines) => lines[at.i + 1] \in Nat  BY <1>2, <2>1
  <2> QED  BY <1>2, <2>2 DEF Column
<1> HIDE DEF col
<1>5. reader' = [reader EXCEPT ![r] = l] /\ UNCHANGED <<base, files, last, file, saved>>
  BY DEF FindColumn, col, off, lines, set
<1>6. /\ l \in Locals /\ l.pc = (IF at.i < Len(lines) THEN "infos" ELSE "panic")
      /\ l.column = (IF at.i < Len(lines) THEN col ELSE at.column)
      /\ l.p = at.p /\ l.f = at.f /\ l.line = at.line /\ l.table = at.table
      /\ l.seen = at.seen /\ l.kept = at.kept
  BY <1>1, <1>4 DEF Locals
<1>7. last' \in Range(files) \cup {0}  BY <1>5 DEF LookInv
<1> HIDE DEF l
<1>8. InPlace(l)  BY <1>1, <1>6 DEF InPlace, Unlocked
<1>9. LookInv'  BY <1>5, <1>6, <1>7, <1>8, ReaderKeeps
<1>10. Going(l)
  <2> SUFFICES ASSUME at.kept PROVE Going(l)  BY <1>6 DEF Going
  <2>1. /\ Ascending(at.table) /\ Grown(at.table, lines) /\ at.line = at.i + 1
        /\ at.line = LineOf(at.table, off)
    BY <1>1 DEF Going, Unlocked, lines, off
  <2>2. at.i + 1 \in 1..Len(at.table) /\ at.i + 1 > 0  BY <1>1, <1>3
  <2>3. at.i < Len(lines) /\ lines[at.i + 1] = at.table[at.i + 1]
    BY <1>1, <1>3, <2>1, <2>2 DEF Grown
  <2>4. col = ColumnOf(at.table, off)  BY <1>4, <2>1, <2>2, <2>3 DEF ColumnOf
  <2> QED  BY <1>6, <2>1, <2>3, <2>4 DEF Going, Unlocked, lines, off
<1>11. reader'[r] = l  BY <1>5 DEF LookInv
<1> QED  BY <1>5, <1>9, <1>10, <1>11

LEMMA Seen ==
  ASSUME NEW infos \in Seq(Info), NEW n \in Nat, n <= Len(infos)
  PROVE  /\ SubSeq(infos, 1, n) \in Seq(Info) /\ Len(SubSeq(infos, 1, n)) = n
         /\ \A k \in 1..n : SubSeq(infos, 1, n)[k] = infos[k]
<1>1. n \in 0..Len(infos) /\ Len(infos) \in Nat  OBVIOUS
<1>2. SubSeq(infos, 1, n) = [k \in 1..n |-> infos[k]]  BY <1>1
<1>3. \A k \in 1..n : infos[k] \in Info  BY <1>1
<1>4. [k \in 1..n |-> infos[k]] \in Seq(Info)  BY <1>3
<1> QED  BY <1>2, <1>4

\* A table to which lines were only added has every line up to an offset that
\* lies before its last line of old.
LEMMA GrownLineOf ==
  ASSUME NEW table \in Seq(Nat), NEW lines \in Seq(Nat), Ascending(lines), Grown(table, lines),
         NEW x \in Int, table # << >>, x < table[Len(table)]
  PROVE  LineOf(lines, x) = LineOf(table, x)
<1>1. /\ Len(table) \in Nat /\ Len(lines) \in Nat /\ Len(table) <= Len(lines)
      /\ DOMAIN table = 1..Len(table) /\ DOMAIN lines = 1..Len(lines)
      /\ Len(table) \in 1..Len(table) /\ \A k \in 1..Len(lines) : lines[k] \in Nat
      /\ \A k \in 1..Len(table) : lines[k] = table[k]
  BY DEF Grown
<1>2. ASSUME NEW k \in 1..Len(lines), lines[k] <= x PROVE k <= Len(table)
  <2> SUFFICES ASSUME Len(table) < k PROVE FALSE  BY <1>1
  <2>1. Len(table) \in DOMAIN lines /\ k \in DOMAIN lines  BY <1>1
  <2>2. lines[Len(table)] < lines[k]  BY <2>1 DEF Ascending
  <2>3. lines[Len(table)] = table[Len(table)] /\ lines[Len(table)] \in Int /\ lines[k] \in Int
    BY <1>1, <2>1
  <2> QED  BY <1>2, <2>2, <2>3
<1>3. {k \in DOMAIN lines : lines[k] <= x} = {k \in DOMAIN table : table[k] <= x}
  BY <1>1, <1>2
<1> QED  BY <1>3 DEF LineOf

LEMMA FindInfoLooks ==
  ASSUME SetInv, LookInv, NEW r \in Readers, FindInfo(r), Going(reader[r])
  PROVE  LookInv' /\ Going(reader'[r]) /\ file' = file
<1> DEFINE at == reader[r]
           infos == file[at.f].infos
           off == at.p - file[at.f].base
           i == searchLineInfos(infos, off)
           pc == IF i >= 0 THEN "count" ELSE "done"
           seen == Len(infos)
           l == [at EXCEPT !.pc = pc, !.i = i, !.seen = seen]
<1>1. /\ at \in Locals /\ at.f \in DOMAIN file /\ at.pc = "infos" /\ at.table \in Seq(Nat)
      /\ at.p \in Int
  BY LocalsTyped DEF InPlace, FindInfo, Unlocked
<1>2. infos \in Seq(Info) /\ off \in Int /\ Ascending(OffsetsOf(infos)) /\ seen \in Nat
  <2>1. file[at.f].base \in Int /\ infos \in Seq(Info)  BY <1>1, Handle
  <2> QED  BY <1>1, <2>1 DEF LookInv, InOrder
<1>3. reader' = [reader EXCEPT ![r] = l] /\ UNCHANGED <<base, files, last, file, saved>>
  BY DEF FindInfo, set
<1> HIDE DEF infos, off
<1>4. PICK k \in 0..Len(infos) :
        /\ i = k - 1
        /\ \A j \in 1..Len(infos) : infos[j].Offset <= off <=> j <= k
  BY <1>2, InfoFound
<1> HIDE DEF i
<1>5. /\ i \in Int /\ pc \in {"count", "done"} /\ (pc = "count" => i \in 0..(seen - 1))
      /\ (pc = "done" => k = 0) /\ k = i + 1
  BY <1>2, <1>4
<1> HIDE DEF pc
<1>6. seen = Len(infos)  OBVIOUS
<1> HIDE DEF seen
<1>7. /\ l \in Locals /\ l.pc = pc /\ l.i = i /\ l.seen = seen
      /\ l.p = at.p /\ l.f = at.f /\ l.line = at.line /\ l.column = at.column
      /\ l.table = at.table /\ l.kept = at.kept
  BY <1>1, <1>2, <1>5 DEF Locals
<1>8. last' \in Range(files) \cup {0}  BY <1>3 DEF LookInv
<1> HIDE DEF l
<1>9. InPlace(l)
  <2>1. l.seen <= Len(file[l.f].infos)  BY <1>2, <1>6, <1>7 DEF infos
  <2> QED  BY <1>1, <1>5, <1>7, <2>1 DEF InPlace, Unlocked
<1>10. LookInv'  BY <1>3, <1>5, <1>7, <1>8, <1>9, ReaderKeeps
<1>11. Going(l)
  <2> SUFFICES ASSUME at.kept PROVE Going(l)  BY <1>7 DEF Going
  <2>1. /\ Ascending(at.table) /\ Grown(at.table, file[at.f].lines)
        /\ at.line = LineOf(at.table, off) /\ at.column = ColumnOf(at.table, off)
    BY <1>1 DEF Going, Unlocked, off
  <2>2. CASE pc = "count"
    <3>1. \A j \in 1..l.seen : file[l.f].infos[j].Offset <= off <=> j <= l.i + 1
      BY <1>4, <1>5, <1>6, <1>7 DEF infos
    <3> QED  BY <1>7, <2>1, <2>2, <3>1 DEF Going, Unlocked, off
  <2>3. CASE pc = "done"
    <3>1. /\ SubSeq(infos, 1, seen) \in Seq(Info) /\ Len(SubSeq(infos, 1, seen)) = seen
          /\ \A j \in 1..seen : SubSeq(infos, 1, seen)[j] = infos[j]
      BY <1>2, <1>6, Seen
    <3> DEFINE q == SubSeq(infos, 1, seen)
    <3> HIDE DEF q
    <3>2. 0 \in 0..Len(q) /\ \A j \in 1..Len(q) : q[j].Offset <= off <=> j <= 0
      BY <1>2, <1>4, <1>5, <1>6, <2>3, <3>1 DEF q
    <3>3. AnswerOf(at.table, q, off) =
            [Line   |-> LineOf(at.table, off) + (IF 0 > 0 THEN Added(at.table, q[0]) ELSE 0),
             Column |-> ColumnOf(at.table, off)]
      BY <1>1, <1>2, <2>1, <3>1, <3>2, AnswerIs DEF q
    <3>4. LineOf(at.table, off) \in Nat  BY <1>1, <1>2, <2>1, LineOfTyped
    <3>5. AnswerOf(at.table, q, off) = [Line |-> at.line, Column |-> at.column]
      BY <2>1, <3>3, <3>4
    <3>6. AnswersFrom(l, l.table)
      BY <1>7, <3>5 DEF AnswersFrom, q, infos, off
    <3> QED  BY <1>7, <2>3, <3>6 DEF Going, Unlocked
  <2> QED  BY <1>5, <2>2, <2>3
<1>12. reader'[r] = l  BY <1>3 DEF LookInv
<1> QED  BY <1>3, <1>10, <1>11, <1>12

LEMMA CountOnLooks ==
  ASSUME SetInv, LookInv, NEW r \in Readers, CountOn(r), Going(reader[r])
  PROVE  LookInv' /\ Going(reader'[r]) /\ file' = file
<1> DEFINE at == reader[r]
           infos == file[at.f].infos
           lines == file[at.f].lines
           off == at.p - file[at.f].base
           alt == infos[at.i + 1]
           more == CountedOn(lines, alt)
           line == at.line + more
           l == [at EXCEPT !.pc = "done", !.line = line]
<1>1. /\ at \in Locals /\ at.f \in DOMAIN file /\ at.pc = "count" /\ at.table \in Seq(Nat)
      /\ at.p \in Int /\ at.line \in Int /\ at.seen \in Nat /\ at.i \in 0..(at.seen - 1)
      /\ at.seen <= Len(infos)
  BY LocalsTyped DEF InPlace, CountOn, Unlocked
<1>2. /\ infos \in Seq(Info) /\ off \in Int /\ lines \in Seq(Nat) /\ Ascending(lines)
      /\ Len(infos) \in Nat
  <2>1. file[at.f].base \in Int /\ infos \in Seq(Info) /\ lines \in Seq(Nat)  BY <1>1, Handle
  <2> QED  BY <1>1, <2>1 DEF LookInv, InOrder
<1>3. reader' = [reader EXCEPT ![r] = l] /\ UNCHANGED <<base, files, last, file, saved>>
  BY DEF CountOn, set
<1> HIDE DEF infos, off, lines
<1>4. at.i + 1 \in 1..Len(infos) /\ at.i + 1 \in 1..at.seen  BY <1>1, <1>2
<1>5. alt \in Info  BY <1>2, <1>4
<1> HIDE DEF alt
<1>6. more = Added(lines, alt) /\ more \in Int  BY <1>2, <1>5, CountedOnRight
<1> HIDE DEF more
<1>a. line \in Int  BY <1>1, <1>6
<1> HIDE DEF line
<1>b. line = at.line + more  BY DEF line
<1>7. /\ l \in Locals /\ l.pc = "done" /\ l.line = at.line + more
      /\ l.p = at.p /\ l.f = at.f /\ l.column = at.column /\ l.seen = at.seen
      /\ l.table = at.table /\ l.kept = at.kept
  BY <1>1, <1>a, <1>b DEF Locals
<1>8. last' \in Range(files) \cup {0}  BY <1>3 DEF LookInv
<1> HIDE DEF l
<1>9. InPlace(l)  BY <1>1, <1>7 DEF InPlace, Unlocked, infos
<1>10. LookInv'  BY <1>3, <1>7, <1>8, <1>9, ReaderKeeps
<1>11. Going(l)
  <2> SUFFICES ASSUME at.kept, Settled(l) PROVE AnswersFrom(l, l.table)
    BY <1>7 DEF Going, Unlocked
  <2>1. /\ Ascending(at.table) /\ Grown(at.table, lines)
        /\ at.line = LineOf(at.table, off) /\ at.column = ColumnOf(at.table, off)
        /\ \A j \in 1..at.seen : infos[j].Offset <= off <=> j <= at.i + 1
    BY <1>1 DEF Going, Unlocked, off, lines, infos
  <2>2. /\ alt.Offset \in Nat /\ alt.Offset <= off
        /\ at.table # << >> /\ alt.Offset < at.table[Len(at.table)]
    <3>1. alt.Offset \in Nat  BY <1>5 DEF Info
    <3>2. alt.Offset <= off  BY <1>4, <2>1, <1>1 DEF alt
    <3>3. at.table # << >> /\ alt.Offset < Last(at.table)
      BY <1>4, <1>7, <3>2 DEF Settled, alt, infos, off
    <3> QED  BY <3>1, <3>2, <3>3 DEF Last
  <2>3. LineOf(lines, alt.Offset) = LineOf(at.table, alt.Offset)
    BY <1>1, <1>2, <2>1, <2>2, GrownLineOf
  <2>4. more = Added(at.table, alt)  BY <1>6, <2>3 DEF Added
  <2>5. /\ SubSeq(infos, 1, at.seen) \in Seq(Info) /\ Len(SubSeq(infos, 1, at.seen)) = at.seen
        /\ \A j \in 1..at.seen : SubSeq(infos, 1, at.seen)[j] = infos[j]
    BY <1>1, <1>2, Seen
  <2> DEFINE q == SubSeq(infos, 1, at.seen)  k == at.i + 1
  <2> HIDE DEF q
  <2>6. /\ k \in 0..Len(q) /\ k > 0 /\ q[k] = alt
        /\ \A j \in 1..Len(q) : q[j].Offset <= off <=> j <= k
    BY <1>1, <1>4, <2>1, <2>5 DEF q, alt
  <2>7. q \in Seq(Info)  BY <2>5 DEF q
  <2> HIDE DEF k
  <2>8. AnswerOf(at.table, q, off) =
          [Line   |-> LineOf(at.table, off) + (IF k > 0 THEN Added(at.table, q[k]) ELSE 0),
           Column |-> ColumnOf(at.table, off)]
    BY <1>1, <1>2, <2>1, <2>6, <2>7, AnswerIs
  <2>9. AnswerOf(at.table, q, off) = [Line |-> l.line, Column |-> l.column]
    BY <1>7, <2>1, <2>4, <2>6, <2>8
  <2> QED  BY <1>7, <2>9 DEF AnswersFrom, q, infos, off
<1>12. reader'[r] = l  BY <1>3 DEF LookInv
<1> QED  BY <1>3, <1>10, <1>11, <1>12

UnlockedInv == \A r \in Readers : Going(reader[r])

\* Growth leaves what a lookup has found as right as it was.
LEMMA GrowthGoes ==
  ASSUME SetInv, SetInv', Growth, NEW l \in Locals, InPlace(l), Going(l), l.kept,
         l.pc \in Unlocked => Grown(file[l.f].lines, file'[l.f].lines)
  PROVE  Going(l)'
<1>1. CASE l.pc \notin Unlocked \cup {"done"}
  BY <1>1 DEF Going, Unlocked
<1>2. CASE l.pc \in Unlocked \cup {"done"}
  <2> DEFINE old == file[l.f]  new == file'[l.f]
  <2>1. /\ l.f \in DOMAIN file /\ l.seen <= Len(old.infos) /\ l.f \in DOMAIN file'
        /\ new.base = old.base /\ Len(old.infos) <= Len(new.infos)
        /\ \A k \in 1..Len(old.infos) : new.infos[k] = old.infos[k]
    BY <1>2 DEF InPlace, Growth
  <2>2. old.infos \in Seq(Info) /\ new.infos \in Seq(Info)
        /\ old.lines \in Seq(Nat) /\ new.lines \in Seq(Nat) /\ l.seen \in Nat
        /\ l.table \in Seq(Nat)
    <3>1. old.infos \in Seq(Info) /\ old.lines \in Seq(Nat)  BY <2>1, Handle
    <3>2. file' \in Seq(File)  BY DEF SetInv
    <3>3. new \in File  BY <2>1, <3>2
    <3>4. new.infos \in Seq(Info) /\ new.lines \in Seq(Nat)  BY <3>3, FileFields
    <3> QED  BY <3>1, <3>4 DEF Locals
  <2> HIDE DEF old, new
  <2>3. Len(old.infos) \in Nat /\ Len(new.infos) \in Nat /\ Len(l.table) \in Nat
        /\ Len(old.lines) \in Nat /\ Len(new.lines) \in Nat
    BY <2>2
  <2>4. \A k \in 1..l.seen : new.infos[k] = old.infos[k]  BY <2>1, <2>2, <2>3
  <2>5. ASSUME l.pc \in Unlocked PROVE Grown(l.table, new.lines)
    <3>1. Grown(l.table, old.lines) /\ Grown(old.lines, new.lines)
      BY <2>5 DEF Going, old, new
    <3> QED  BY <2>3, <3>1 DEF Grown
  <2>6. ASSUME l.pc = "done", Settled(l)' PROVE AnswersFrom(l, l.table)'
    <3>1. Settled(l)  BY <2>1, <2>4, <2>6 DEF Settled, old, new
    <3>2. AnswersFrom(l, l.table)  BY <2>6, <3>1 DEF Going
    <3>3. SubSeq(new.infos, 1, l.seen) = SubSeq(old.infos, 1, l.seen)
      <4> DEFINE p == SubSeq(new.infos, 1, l.seen)  q == SubSeq(old.infos, 1, l.seen)
      <4>1. l.seen <= Len(new.infos)  BY <2>1, <2>2, <2>3
      <4>2. /\ p \in Seq(Info) /\ q \in Seq(Info) /\ Len(p) = l.seen /\ Len(q) = l.seen
            /\ \A k \in 1..l.seen : p[k] = q[k]
        BY <2>1, <2>2, <2>4, <4>1, Seen
      <4> HIDE DEF p, q
      <4>3. p = q  BY <4>2, SeqEqual
      <4> QED  BY <4>3 DEF p, q
    <3> QED  BY <2>1, <3>2, <3>3 DEF AnswersFrom, old, new
  <2>7. l.pc = "count" => \A k \in 1..l.seen : new.infos[k].Offset <= l.p - new.base <=> k <= l.i + 1
    BY <2>1, <2>4 DEF Going, old, new
  <2> QED  BY <2>1, <2>5, <2>6, <2>7 DEF Going, old, new, Unlocked
<1> QED  BY <1>1, <1>2

LEMMA ChangeGoes ==
  ASSUME SetInv, LookInv, SetInv', UnlockedInv, Growth, Steady
  PROVE  UnlockedInv'
<1> SUFFICES ASSUME NEW r \in Readers PROVE Going(reader[r])'  BY DEF UnlockedInv
<1>1. reader[r] \in Locals /\ InPlace(reader[r]) /\ Going(reader[r])
      /\ Forgets(reader[r], reader'[r])
  BY LocalsTyped DEF UnlockedInv, Steady
<1>2. PICK l \in Locals, m \in Locals : l = reader[r] /\ m = reader'[r]
  BY <1>1, Forgotten
<1>3. CASE m.kept
  <2>1. m = l
    <3>1. [l EXCEPT !.kept = FALSE].kept = FALSE  BY DEF Locals
    <3> QED  BY <1>1, <1>2, <1>3, <3>1 DEF Forgets
  <2>2. InPlace(m) /\ Going(m)  BY <1>1, <1>2, <2>1
  <2>3. m.pc \in Unlocked => Grown(file[m.f].lines, file'[m.f].lines)
    BY <1>2, <1>3, <2>1 DEF Steady
  <2>4. Going(m)'  BY <1>3, <2>2, <2>3, GrowthGoes
  <2> QED  BY <1>2, <2>4 DEF Going, Settled, AnswersFrom
<1>4. CASE ~m.kept
  BY <1>2, <1>4 DEF Going
<1> QED  BY <1>3, <1>4

\* A step of a lookup leaves the others' alone.
LEMMA ReaderGoes ==
  ASSUME LookInv, UnlockedInv, file' = file, NEW r \in Readers, NEW l \in Locals,
         reader' = [reader EXCEPT ![r] = l], Going(l)
  PROVE  UnlockedInv'
<1> SUFFICES ASSUME NEW q \in Readers PROVE Going(reader[q])'  BY DEF UnlockedInv
<1>1. Going(reader'[q])  BY DEF UnlockedInv, LookInv
<1>2. PICK m : m = reader'[q]  OBVIOUS
<1>3. Going(m)  BY <1>1, <1>2
<1>4. Going(m)'  BY <1>3 DEF Going, Settled, AnswersFrom
<1> QED  BY <1>2, <1>4 DEF Going, Settled, AnswersFrom

\* Neither has a lookup that holds the lock, or has returned, found anything yet.
LEMMA OutsideGoes ==
  ASSUME NEW l, l.pc \in {"idle", "search", "found"}
  PROVE  Going(l)
BY DEF Going, Unlocked

LEMMA StepGoes ==
  ASSUME LookInv, UnlockedInv, LookInv', file' = file, NEW r \in Readers, Going(reader'[r]),
         \A q \in Readers \ {r} : reader'[q] = reader[q]
  PROVE  UnlockedInv'
<1> DEFINE l == reader'[r]
<1>1. l \in Locals /\ Going(l)  BY DEF LookInv
<1>2. reader' = [reader EXCEPT ![r] = l]  BY DEF LookInv
<1> HIDE DEF l
<1> QED  BY <1>1, <1>2, ReaderGoes

LEMMA NextLookInv ==
  SetInv /\ LookInv /\ UnlockedInv /\ [Next]_vars => LookInv' /\ UnlockedInv'
<1> SUFFICES ASSUME SetInv, LookInv, UnlockedInv, [Next]_vars PROVE LookInv' /\ UnlockedInv'
  OBVIOUS
<1>s. SetInv'  BY NextSetInv
<1>1. ASSUME Change PROVE LookInv' /\ UnlockedInv'
  <2>1. LookInv' /\ Growth /\ Steady
    BY <1>s, <1>1, AddFileLooks, AddLineLooks, SetLinesLooks, AddLineInfoLooks, WriteSetLooks,
       ReadSetLooks DEF Change
  <2> QED  BY <1>s, <2>1, ChangeGoes
<1>2. ASSUME NEW r \in Readers,
             (\E p \in 1..MaxPos : Lookup(r, p)) \/ Search(r) \/ Return(r)
      PROVE  LookInv' /\ UnlockedInv'
  <2>1. LookInv'  BY <1>2, LookupLooks, SearchLooks, ReturnLooks
  <2>2. /\ file' = file /\ reader'[r].pc \in {"idle", "search", "found"}
        /\ \A q \in Readers \ {r} : reader'[q] = reader[q]
    <3>1. Idle \in Locals /\ Idle.pc = "idle" /\ \A l \in Locals : l = Idle => l.pc = "idle"
      BY DEF Idle, Locals
    <3>2. CASE \E p \in 1..MaxPos : Lookup(r, p)
      <4>1. PICK p \in 1..MaxPos : Lookup(r, p)  BY <3>2
      <4>2. PICK pc \in {"found", "search"} :
              \E f : reader' = [reader EXCEPT ![r] = [Idle EXCEPT !.p = p, !.pc = pc, !.f = f]]
        BY <4>1 DEF Lookup
      <4>3. PICK f :
              reader' = [reader EXCEPT ![r] = [Idle EXCEPT !.p = p, !.pc = pc, !.f = f]]
        BY <4>2
      <4>4. [Idle EXCEPT !.p = p, !.pc = pc, !.f = f].pc = pc  BY DEF Idle
      <4> QED  BY <4>1, <4>3, <4>4 DEF LookInv, Lookup
    <3>3. CASE Search(r)
      <4>1. reader[r] \in Locals  BY LocalsTyped
      <4>2. PICK f : reader' = [reader EXCEPT ![r].pc = "found", ![r].f = f]
        BY <3>3 DEF Search
      <4>3. reader' = [reader EXCEPT ![r] = [reader[r] EXCEPT !.pc = "found", !.f = f]]
        BY <4>2 DEF LookInv
      <4>4. [reader[r] EXCEPT !.pc = "found", !.f = f].pc = "found"  BY <4>1 DEF Locals
      <4> QED  BY <3>3, <4>3, <4>4 DEF LookInv, Search
    <3>4. CASE Return(r)
      BY <3>1, <3>4 DEF LookInv, Return
    <3> QED  BY <1>2, <3>2, <3>3, <3>4
  <2>3. Going(reader'[r])  BY <2>2, OutsideGoes
  <2> QED  BY <2>1, <2>2, <2>3, StepGoes
<1>3. ASSUME NEW r \in Readers,
             \/ \E f \in DOMAIN file, p \in 1..MaxPos : FindLine(r, f, p)
             \/ FindColumn(r) \/ FindInfo(r) \/ CountOn(r)
      PROVE  LookInv' /\ UnlockedInv'
  <2>1. Going(reader[r])  BY DEF UnlockedInv
  <2>2. LookInv' /\ Going(reader'[r]) /\ file' = file
    BY <1>3, <2>1, FindLineLooks, FindColumnLooks, FindInfoLooks, CountOnLooks
  <2>3. \A q \in Readers \ {r} : reader'[q] = reader[q]
    BY <1>3 DEF FindLine, FindColumn, FindInfo, CountOn, LookInv
  <2> QED  BY <2>2, <2>3, StepGoes
<1>4. CASE UNCHANGED vars
  <2>1. LookInv'  BY <1>4 DEF vars, set, LookInv, Found, Holds, InPlace
  <2>2. UnlockedInv'
    BY <1>4 DEF vars, set, UnlockedInv, Going, Settled, AnswersFrom
  <2> QED  BY <2>1, <2>2
<1> QED  BY <1>1, <1>2, <1>3, <1>4 DEF Next

LEMMA LookInvariance == Spec => [](SetInv /\ LookInv /\ UnlockedInv)
<1>1. Init => UnlockedInv
  BY DEF Init, UnlockedInv, Going, Idle, Unlocked
<1> QED  BY <1>1, InitSetInv, NextSetInv, InitLookInv, NextLookInv, PTL DEF Spec

\* However many lookups overwrite the cache under one another, and whatever was
\* added, replaced, written and read back between them, each answers the file
\* that holds its position, and the line and column that file's tables say.
THEOREM LookupsRight == Spec => []LookupRight
<1>1. SetInv /\ LookInv => LookupRight
  <2> SUFFICES ASSUME SetInv, LookInv, NEW r \in Readers, reader[r].pc = "found"
               PROVE  Answers(reader[r].f, reader[r].p)
    BY DEF LookupRight
  <2>1. PICK f, p : f = reader[r].f /\ p = reader[r].p  OBVIOUS
  <2>2. Found(f, p) /\ p \in Int  BY <2>1, LocalsTyped DEF LookInv
  <2>3. CASE f = 0  BY <2>1, <2>2, <2>3 DEF Found, Answers
  <2>4. CASE f # 0
    <3>1. f \in Range(files) /\ Holds(f, p) /\ f \in DOMAIN file
      BY <2>2, <2>4, HandlesOfSet DEF Found
    <3> QED  BY <2>1, <2>2, <3>1, InfoRight
  <2> QED  BY <2>3, <2>4
<1> QED  BY <1>1, LookInvariance, PTL

\* File.Position takes no lock and uses the tables three times.  While lines are
\* only added, however many and wherever between its steps, it never panics; and it
\* answers what the lines at its call say, unless an info it saw up to the position
\* is given for an offset that a line still to come may lie at or before.
THEOREM UnlockedPositions == Spec => []SettledPositionsRight
<1>1. LookInv /\ UnlockedInv => SettledPositionsRight
  BY DEF UnlockedInv, SettledPositionsRight, Going
<1> QED  BY <1>1, LookInvariance, PTL
=============================================================================
