----------------------------- MODULE Consistent -----------------------------
(***************************************************************************)
(* The hash ring of src/src/github.com/stathat/consistent/consistent.go:   *)
(* the circle and the fields derived from it, the operations that change   *)
(* them under the write lock, and the lookups, which walk the sorted       *)
(* hashes step by step while they hold the read lock.                      *)
(***************************************************************************)
EXTENDS Integers, Sequences, FiniteSets

CONSTANTS
  Elts,      \* the elements, storage hosts in the program
  HashSize,  \* hashes are 0..HashSize-1 (2^32 in the code)
  Points,    \* [Elts -> SUBSET Hash], hashKey(eltKey(elt, i)) for every i
  Readers,   \* goroutines that look names up
  Writers,   \* goroutines that change the ring
  MaxN,      \* bound: GetN is called with n in -1..MaxN
  Adds,      \* inputs: elements Add is called with
  Removes,   \* inputs: elements Remove is called with
  Sets,      \* inputs: slices Set is called with
  MaxCount   \* bound: |count| up to which Add and Remove are called

Hash == 0..(HashSize - 1)

ASSUME PointsAssumption ==
  /\ HashSize \in Nat \ {0}
  /\ Points \in [Elts -> SUBSET Hash]
  /\ \A e \in Elts : Points[e] # {}

ASSUME InputsAssumption ==
  /\ Adds \subseteq Elts /\ Removes \subseteq Elts /\ Sets \subseteq Seq(Elts)
  /\ MaxN \in Nat /\ MaxCount \in Nat

VARIABLES
  circle,        \* map from hash to element
  members,       \* the keys of the map members
  sortedHashes,
  count,
  reader,        \* a lookup in progress: the locals of GetN and GetTwo
  writer         \* a change in progress: the locals of Set, the lock waited for

ring == <<circle, members, sortedHashes, count>>
vars == <<circle, members, sortedHashes, count, reader, writer>>

Idle == [pc |-> "idle", op |-> "GetN", key |-> 0, asked |-> 0, n |-> 0,
         start |-> 0, i |-> 0, res |-> << >>]
Rest == [pc |-> "idle", op |-> "Set", elt |-> CHOOSE e \in Elts : TRUE,
         elts |-> << >>, drop |-> {}, todo |-> << >>]

Init ==
  /\ circle = [h \in {} |-> CHOOSE e \in Elts : TRUE]
  /\ members = {}
  /\ sortedHashes = << >>
  /\ count = 0
  /\ reader = [r \in Readers |-> Idle]
  /\ writer = [w \in Writers |-> Rest]

RangeOf(f) == {f[x] : x \in DOMAIN f}

\* sync.RWMutex: a writer waits for the readers inside, new readers wait for a
\* writer that waits.
\*
\* Mutant: the write lock does not keep readers out.
NobodyInside == FALSE

ReadersInside == \E r \in Readers : reader[r].pc \in {"walk", "done"}

WriterWaits == \E w \in Writers : writer[w].pc \in {"add", "remove"}

-----------------------------------------------------------------------------
(* Changing the ring *)

Ascending(S) ==
  [i \in 1..Cardinality(S) |->
     CHOOSE x \in S : Cardinality({y \in S : y < x}) = i - 1]

updateSortedHashes == sortedHashes' = Ascending(DOMAIN circle')

Add(e) ==
  /\ circle' = [h \in DOMAIN circle \cup Points[e] |->
                  IF h \in Points[e] THEN e ELSE circle[h]]
  /\ members' = members \cup {e}
  /\ updateSortedHashes
  /\ count' = count + 1

\* Mutant: one replica is left behind.
RemoveAllButOne(e) ==
  /\ circle' = [h \in DOMAIN circle \ (Points[e] \ {CHOOSE x \in Points[e] : TRUE}) |->
                  circle[h]]
  /\ members' = members \ {e}
  /\ updateSortedHashes
  /\ count' = count - 1

Remove(e) ==
  /\ circle' = [h \in DOMAIN circle \ Points[e] |-> circle[h]]
  /\ members' = members \ {e}
  /\ updateSortedHashes
  /\ count' = count - 1

AddCall(w, e) ==
  /\ writer[w].pc = "idle" /\ count < MaxCount
  /\ writer' = [writer EXCEPT ![w].pc = "add", ![w].op = "Add", ![w].elt = e]
  /\ UNCHANGED <<ring, reader>>

RemoveCall(w, e) ==
  /\ writer[w].pc = "idle" /\ count > -MaxCount
  /\ writer' = [writer EXCEPT ![w].pc = "remove", ![w].op = "Remove",
                              ![w].elt = e]
  /\ UNCHANGED <<ring, reader>>

\* The write lock is had and the change made under it.
AddLocked(w) ==
  /\ writer[w].pc = "add" /\ ~ReadersInside
  /\ Add(writer[w].elt)
  /\ writer' = [writer EXCEPT ![w].pc = "set"]
  /\ UNCHANGED reader

RemoveLocked(w) ==
  /\ writer[w].pc = "remove" /\ ~ReadersInside
  /\ Remove(writer[w].elt)
  /\ writer' = [writer EXCEPT ![w].pc = "set"]
  /\ UNCHANGED reader

\* Mutant: what is not wanted any more stays.
KeepAll(elts) == {}

Stale(elts) == members \ RangeOf(elts)

\* Set reads the members once and then works through what it read.
SetCall(w, elts) ==
  /\ writer[w].pc = "idle" /\ ~WriterWaits
  /\ writer' = [writer EXCEPT ![w].pc = "set", ![w].elts = elts, ![w].todo = elts,
                              ![w].drop = Stale(elts)]
  /\ UNCHANGED <<ring, reader>>

\* The order in which a map is read is any.
SetDrop(w) ==
  /\ writer[w].pc = "set"
  /\ \E k \in writer[w].drop :
       writer' = [writer EXCEPT ![w].pc = "remove", ![w].elt = k,
                                ![w].drop = @ \ {k}]
  /\ UNCHANGED <<ring, reader>>

\* Mutant: Set adds without looking.
AddAnyway(e) == FALSE

Exists(e) == e \in members

SetCheck(w) ==
  /\ writer[w].pc = "set" /\ writer[w].drop = {} /\ writer[w].todo # << >>
  /\ ~WriterWaits
  /\ LET e == Head(writer[w].todo) IN
     writer' = [writer EXCEPT ![w].todo = Tail(@), ![w].elt = e,
                              ![w].pc = IF Exists(e) THEN "set" ELSE "add"]
  /\ UNCHANGED <<ring, reader>>

Finish(w) ==
  /\ writer[w].pc = "set" /\ writer[w].drop = {} /\ writer[w].todo = << >>
  /\ writer' = [writer EXCEPT ![w] = Rest]
  /\ UNCHANGED <<ring, reader>>

-----------------------------------------------------------------------------
(* Looking names up; indices count from 0 as in the code *)

Elem(i) == circle[sortedHashes[i + 1]]

\* Mutant: >= where the code has >.
SearchFrom(key) ==
  LET after == {x \in 0..(Len(sortedHashes) - 1) : sortedHashes[x + 1] >= key} IN
  IF after = {} THEN 0 ELSE CHOOSE x \in after : \A y \in after : x <= y

search(key) ==
  LET after == {x \in 0..(Len(sortedHashes) - 1) : sortedHashes[x + 1] > key} IN
  IF after = {} THEN 0 ELSE CHOOSE x \in after : \A y \in after : x <= y

\* A lookup enters: it has the first element and, unless that is all it wants,
\* goes on to the next hash.
Enter(r, op, key, asked, n, satisfied) ==
  /\ reader[r].pc = "idle" /\ ~WriterWaits
  /\ DOMAIN circle # {}
  /\ reader' = [reader EXCEPT ![r] =
       [pc |-> IF satisfied THEN "done" ELSE "walk", op |-> op, key |-> key,
        asked |-> asked, n |-> n, start |-> search(key), i |-> search(key) + 1,
        res |-> <<Elem(search(key))>>]]
  /\ UNCHANGED <<ring, writer>>

\* Every lookup on an empty circle returns ErrEmptyCircle.
EmptyCircle(r, key) ==
  /\ reader[r].pc = "idle" /\ ~WriterWaits
  /\ DOMAIN circle = {}
  /\ reader' = [reader EXCEPT ![r] = [Idle EXCEPT !.pc = "done", !.key = key]]
  /\ UNCHANGED <<ring, writer>>

Get(r, key) == Enter(r, "Get", key, 1, 1, TRUE)

GetTwo(r, key) == Enter(r, "GetTwo", key, 2, 2, count = 1)

\* Mutant: n is not cut to the number of elements.
AsAsked(n) == n

AtMostCount(n) == IF count < n THEN count ELSE n

GetN(r, key, asked) ==
  /\ AtMostCount(asked) >= 0
  /\ Enter(r, "GetN", key, asked, AtMostCount(asked), AtMostCount(asked) = 1)

\* make([]string, 0, n) for a negative n.
GetNPanics(r, key, asked) ==
  /\ reader[r].pc = "idle" /\ ~WriterWaits
  /\ DOMAIN circle # {} /\ AtMostCount(asked) < 0
  /\ reader' = [reader EXCEPT ![r].pc = "panic"]
  /\ UNCHANGED <<ring, writer>>

\* The loop's test i != start; both loops have the same.
Around(r) ==
  /\ reader[r].pc = "walk" /\ reader[r].i = reader[r].start
  /\ reader' = [reader EXCEPT ![r].pc = "done",
       ![r].res = IF reader[r].op = "GetTwo" THEN Append(@, Head(@)) ELSE @]
  /\ UNCHANGED <<ring, writer>>

\* Mutant: a replica of an element found already counts as another element.
AppendAny(res, e) == Append(res, e)

AppendNew(res, e) == IF e \in RangeOf(res) THEN res ELSE Append(res, e)

\* Mutant: the loop goes on for one element more.
OneMore(res, n) == Len(res) > n

Enough(res, n) == Len(res) = n

\* The loop's body and i++.  GetTwo's b is the second entry of res.
WalkOn(r) ==
  LET at  == reader[r]
      i   == IF at.i >= Len(sortedHashes) THEN 0 ELSE at.i
      res == AppendNew(at.res, Elem(i))
  IN
  /\ at.pc = "walk" /\ at.i # at.start
  /\ reader' = [reader EXCEPT ![r].res = res,
       ![r].i  = IF Enough(res, at.n) THEN at.i ELSE i + 1,
       ![r].pc = IF Enough(res, at.n) THEN "done" ELSE "walk"]
  /\ UNCHANGED <<ring, writer>>

\* The answer is returned and the read lock released.
Return(r) ==
  /\ reader[r].pc = "done"
  /\ reader' = [reader EXCEPT ![r] = Idle]
  /\ UNCHANGED <<ring, writer>>

-----------------------------------------------------------------------------
LookupStep(r) ==
  \/ \E key \in Hash : \/ EmptyCircle(r, key)
                       \/ Get(r, key)
                       \/ GetTwo(r, key)
                       \/ \E n \in -1..MaxN : GetN(r, key, n) \/ GetNPanics(r, key, n)
  \/ Around(r)
  \/ WalkOn(r)
  \/ Return(r)

ChangeStep(w) ==
  \/ \E e \in Adds : AddCall(w, e)
  \/ \E e \in Removes : RemoveCall(w, e)
  \/ \E elts \in Sets : SetCall(w, elts)
  \/ AddLocked(w)
  \/ RemoveLocked(w)
  \/ SetDrop(w)
  \/ SetCheck(w)
  \/ Finish(w)

Next ==
  \/ \E r \in Readers : LookupStep(r)
  \/ \E w \in Writers : ChangeStep(w)

Spec == Init /\ [][Next]_vars

\* A goroutine that can run does.  The RWMutex lets the readers that waited for
\* a writer in before the next writer: hence SF for SetCheck's read lock.
Fairness ==
  /\ \A r \in Readers : WF_vars(Around(r)) /\ WF_vars(WalkOn(r)) /\ WF_vars(Return(r))
  /\ \A w \in Writers :
       /\ WF_vars(AddLocked(w)) /\ WF_vars(RemoveLocked(w))
       /\ WF_vars(SetDrop(w)) /\ SF_vars(SetCheck(w)) /\ WF_vars(Finish(w))

FairSpec == Spec /\ Fairness

-----------------------------------------------------------------------------
(* Properties *)

\* The read lock holds: the index of a lookup that is inside stays within the
\* sorted hashes although they change their number.
TypeOK ==
  /\ DOMAIN circle \subseteq Hash /\ RangeOf(circle) \subseteq Elts
  /\ members \subseteq Elts
  /\ sortedHashes \in Seq(Hash)
  /\ count \in Int
  /\ reader \in [Readers -> [pc : {"idle", "walk", "done", "panic"},
       op : {"Get", "GetTwo", "GetN"}, key : Hash, asked : -1..MaxN \cup {1, 2}, n : Nat,
       start : Nat, i : Nat, res : Seq(Elts)]]
  /\ \A r \in Readers : reader[r].pc = "walk" =>
       /\ reader[r].start < Len(sortedHashes)
       /\ reader[r].i <= Len(sortedHashes)
  /\ writer \in [Writers -> [pc : {"idle", "set", "add", "remove"},
       op : {"Set", "Add", "Remove"}, elt : Elts, elts : Seq(Elts),
       drop : SUBSET Elts, todo : Seq(Elts)]]

Disjoint == \A e, f \in Elts : e # f => Points[e] \cap Points[f] = {}

\* Through any sequence of Add, Remove and Set the derived fields agree: the
\* sorted hashes are the circle's, in order; every hash is one of its owner's
\* and the owner is a member; unless hashes collide no member misses one.
RingAgrees ==
  /\ RangeOf(sortedHashes) = DOMAIN circle
  /\ \A i, j \in DOMAIN sortedHashes : i < j => sortedHashes[i] < sortedHashes[j]
  /\ \A h \in DOMAIN circle : circle[h] \in members /\ h \in Points[circle[h]]
  /\ Disjoint => \A e \in members : \A h \in Points[e] :
       h \in DOMAIN circle /\ circle[h] = e

\* How far clockwise of key hash h is; a hash equal to key is the farthest.
Clockwise(key, h) == (h - key - 1) % HashSize

Nearer(key, e, f) ==
  \E h \in DOMAIN circle : circle[h] = e /\
    \A g \in DOMAIN circle : circle[g] = f => Clockwise(key, h) < Clockwise(key, g)

\* res holds owners of the circle, each once, nearest first, none left out.
ClosestFirst(key, res) ==
  \A i \in DOMAIN res : res[i] \in RangeOf(circle) /\
    \A e \in RangeOf(circle) \ {res[j] : j \in 1..(i - 1)} :
      e # res[i] => Nearer(key, res[i], e)

NoTwice(res) == \A i, j \in DOMAIN res : res[i] = res[j] => i = j

\* Get and GetN, whatever was done to the ring before: what they have found so
\* far is the beginning of the list of elements clockwise of the name.
GetNClosest ==
  \A r \in Readers :
    reader[r].pc \in {"walk", "done"} /\ reader[r].op # "GetTwo" =>
      NoTwice(reader[r].res) /\ ClosestFirst(reader[r].key, reader[r].res)

\* As long as count is no less than the elements that own a hash, and for GetTwo
\* just their number: GetN answers as many elements as it was asked for or all
\* that own one, GetTwo two or the only one.
AnswerComplete ==
  \A r \in Readers :
    LET owners == Cardinality(RangeOf(circle))
        res    == reader[r].res
    IN
    (/\ reader[r].pc = "done" /\ reader[r].asked >= 1
     /\ IF reader[r].op = "GetTwo" THEN count = owners ELSE count >= owners) =>
      /\ Len(res) = IF owners < reader[r].asked THEN owners ELSE reader[r].asked
      /\ NoTwice(res) /\ ClosestFirst(reader[r].key, res)

\* count, which GetN and GetTwo trust, is the number of members as far as Set
\* is concerned: whatever the ring was before, Set adds only what is not there
\* and removes only what is.
SetKeepsCount ==
  [][\A w \in Writers : writer[w].op = "Set" /\ writer'[w] # writer[w] =>
       count' - Cardinality(members') = count - Cardinality(members)]_vars

\* A Set that is alone leaves the elements it was called with and no others.
SetEstablishes ==
  \A w \in Writers :
    writer[w].pc = "set" /\ writer[w].op = "Set"
      /\ writer[w].drop = {} /\ writer[w].todo = << >>
      => members = RangeOf(writer[w].elts)

\* Every call returns, a lookup if it wants no more elements than own hashes,
\* and a change if no lookup inside wants more: a walk ends, so that a writer
\* gets the lock.
Satisfiable(r) == reader[r].n \in 1..Cardinality(RangeOf(circle))

CallsReturn ==
  /\ \A r \in Readers : reader[r].pc = "walk" /\ Satisfiable(r) ~> reader[r].pc # "walk"
  /\ \A w \in Writers : writer[w].pc # "idle" ~>
       \/ writer[w].pc = "idle"
       \/ \E r \in Readers : reader[r].pc = "walk" /\ ~Satisfiable(r)

\* consistent.go:184, "GetN returns the N closest distinct elements": asked for
\* at least one, it returns.
GetNReturns ==
  \A r \in Readers :
    reader[r].pc = "walk" /\ reader[r].op = "GetN" /\ reader[r].asked >= 1
      ~> reader[r].pc # "walk"
=============================================================================
