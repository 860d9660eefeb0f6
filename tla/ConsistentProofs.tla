-------------------------- MODULE ConsistentProofs --------------------------
(***************************************************************************)
(* Theorems about the hash ring, for every set of elements, every hash     *)
(* function, collisions included, and every number of goroutines: the      *)
(* derived fields agree with the circle; for one writer, as the program    *)
(* has, Set does what it says and keeps count right; and what GetN has     *)
(* found is the beginning of the list of elements clockwise of the name,   *)
(* complete where count is right.                                          *)
(***************************************************************************)
EXTENDS Consistent, TLAPS, FiniteSetTheorems, FunctionTheorems, SequenceTheorems

-----------------------------------------------------------------------------
(* Sorting a finite set of numbers *)

Below(S, x) == {y \in S : y < x}
Rank(S, x)  == Cardinality(Below(S, x)) + 1

LEMMA BelowGrows ==
  ASSUME NEW S, S \subseteq Int, IsFiniteSet(S), NEW x \in S, NEW y \in S, x < y
  PROVE  Rank(S, x) \in 1..Cardinality(S) /\ Rank(S, y) \in Nat /\ Rank(S, x) < Rank(S, y)
<1>1. Below(S, x) \cup {x} \subseteq Below(S, y) /\ Below(S, y) \subseteq S /\ x \notin Below(S, x)
  <2>1. x \in Int /\ y \in Int /\ \A z \in S : z \in Int  OBVIOUS
  <2>2. ~(x < x) /\ \A z \in S : z < x => z < y  BY <2>1
  <2> QED  BY <2>2 DEF Below
<1>2. IsFiniteSet(Below(S, y)) /\ Cardinality(Below(S, y)) <= Cardinality(S)
  BY <1>1, FS_Subset
<1>3. IsFiniteSet(Below(S, x))
  BY <1>1, <1>2, FS_Subset
<1>4. Cardinality(Below(S, x) \cup {x}) = Cardinality(Below(S, x)) + 1
  BY <1>1, <1>3, FS_AddElement
<1>5. Cardinality(Below(S, x) \cup {x}) <= Cardinality(Below(S, y))
  BY <1>1, <1>2, FS_Subset
<1>6. /\ Cardinality(Below(S, x)) \in Nat /\ Cardinality(Below(S, y)) \in Nat
      /\ Cardinality(S) \in Nat
  BY <1>2, <1>3, FS_CardinalityType
<1> DEFINE a == Cardinality(Below(S, x))  b == Cardinality(Below(S, y))  c == Cardinality(S)
<1>7. a \in Nat /\ b \in Nat /\ c \in Nat /\ a + 1 <= b /\ b <= c
  BY <1>2, <1>4, <1>5, <1>6
<1>8. Rank(S, x) = a + 1 /\ Rank(S, y) = b + 1
  BY DEF Rank
<1> HIDE DEF a, b, c
<1>9. a + 1 \in 1..c /\ b + 1 \in Nat /\ a + 1 < b + 1
  BY <1>7
<1> QED  BY <1>8, <1>9 DEF c

LEMMA RankType ==
  ASSUME NEW S, S \subseteq Int, IsFiniteSet(S), NEW x \in S
  PROVE  Rank(S, x) \in 1..Cardinality(S)
<1>1. Below(S, x) \cup {x} \subseteq S /\ x \notin Below(S, x)
  BY DEF Below
<1>2. IsFiniteSet(Below(S, x))
  BY <1>1, FS_Subset
<1>3. Cardinality(Below(S, x) \cup {x}) = Cardinality(Below(S, x)) + 1
  BY <1>1, <1>2, FS_AddElement
<1>4. Cardinality(Below(S, x) \cup {x}) <= Cardinality(S)
  BY <1>1, FS_Subset
<1>5. Cardinality(Below(S, x)) \in Nat /\ Cardinality(S) \in Nat
  BY <1>2, FS_CardinalityType
<1> QED  BY <1>3, <1>4, <1>5 DEF Rank

\* Ranks are in the order of what they are the ranks of.
LEMMA RankOrders ==
  ASSUME NEW S, S \subseteq Int, IsFiniteSet(S), NEW x \in S, NEW y \in S
  PROVE  /\ Rank(S, x) = Rank(S, y) => x = y
         /\ Rank(S, x) < Rank(S, y) => x < y
<1>1. x \in Int /\ y \in Int /\ Rank(S, x) \in Int /\ Rank(S, y) \in Int
  <2>1. Cardinality(S) \in Nat  BY FS_CardinalityType
  <2>2. Rank(S, x) \in 1..Cardinality(S) /\ Rank(S, y) \in 1..Cardinality(S)  BY RankType
  <2>3. x \in Int /\ y \in Int  OBVIOUS
  <2> QED  BY <2>1, <2>2, <2>3
<1>2. CASE x < y
  <2>1. Rank(S, x) < Rank(S, y)  BY <1>2, BelowGrows
  <2> QED  BY <1>1, <1>2, <2>1
<1>3. CASE y < x
  <2>1. Rank(S, y) < Rank(S, x)  BY <1>3, BelowGrows
  <2> QED  BY <1>1, <2>1
<1>4. CASE x = y
  BY <1>1, <1>4
<1> QED  BY <1>1, <1>2, <1>3, <1>4

\* Every place is somebody's: ranks are injective into as many places as there
\* are elements.
LEMMA RankOnto ==
  ASSUME NEW S, S \subseteq Int, IsFiniteSet(S), NEW i \in 1..Cardinality(S)
  PROVE  \E x \in S : Rank(S, x) = i
<1> DEFINE T == 1..Cardinality(S)
           f == [x \in S |-> Rank(S, x)]
<1>1. Cardinality(S) \in Nat
  BY FS_CardinalityType
<1>2. IsFiniteSet(T) /\ Cardinality(T) = Cardinality(S)
  BY <1>1, FS_Interval
<1>3. f \in [S -> T]
  BY RankType
<1>4. ASSUME NEW x \in S, NEW y \in S, f[x] = f[y] PROVE x = y
  BY <1>4, RankOrders
<1>5. f \in Injection(S, T)
  BY <1>3, <1>4 DEF Injection, IsInjective
<1>6. f \in Surjection(S, T)
  BY <1>2, <1>5, FS_Injection
<1> QED  BY <1>6 DEF Surjection

LEMMA AscendingSorts ==
  ASSUME NEW S, S \subseteq Int, IsFiniteSet(S)
  PROVE  /\ Ascending(S) \in Seq(S) /\ RangeOf(Ascending(S)) = S
         /\ \A i, j \in DOMAIN Ascending(S) : i < j => Ascending(S)[i] < Ascending(S)[j]
<1> DEFINE n == Cardinality(S)
<1>1. n \in Nat
  BY FS_CardinalityType
<1>2. DOMAIN Ascending(S) = 1..n
  BY DEF Ascending
<1>3. ASSUME NEW i \in 1..n
      PROVE  Ascending(S)[i] \in S /\ Rank(S, Ascending(S)[i]) = i
  <2>1. \A x \in S : Rank(S, x) = i <=> Cardinality({y \in S : y < x}) = i - 1
    <3> TAKE x \in S
    <3>1. Cardinality(Below(S, x)) \in Nat
      BY FS_Subset, FS_CardinalityType DEF Below
    <3> QED  BY <1>1, <3>1 DEF Rank, Below
  <2>2. \E x \in S : Cardinality({y \in S : y < x}) = i - 1
    BY <2>1, RankOnto
  <2>3. Ascending(S)[i] = CHOOSE x \in S : Cardinality({y \in S : y < x}) = i - 1
    BY DEF Ascending
  <2> QED  BY <2>1, <2>2, <2>3
<1>4. ASSUME NEW x \in S PROVE x \in RangeOf(Ascending(S))
  <2>1. Rank(S, x) \in 1..n
    BY RankType
  <2>2. PICK i \in 1..n : i = Rank(S, x)
    BY <2>1
  <2>3. Ascending(S)[i] \in S /\ Rank(S, Ascending(S)[i]) = Rank(S, x)
    BY <1>3, <2>2
  <2>4. Ascending(S)[i] = x
    BY <2>3, RankOrders
  <2> QED  BY <1>2, <2>4 DEF RangeOf
<1>5. RangeOf(Ascending(S)) \subseteq S
  BY <1>2, <1>3 DEF RangeOf
<1>6. ASSUME NEW i \in 1..n, NEW j \in 1..n, i < j
      PROVE  Ascending(S)[i] < Ascending(S)[j]
  <2> DEFINE x == Ascending(S)[i]  y == Ascending(S)[j]
  <2>1. x \in S /\ y \in S /\ Rank(S, x) = i /\ Rank(S, y) = j
    BY <1>3
  <2> HIDE DEF x, y
  <2>2. Rank(S, x) < Rank(S, y) => x < y
    BY <2>1, RankOrders
  <2> QED  BY <1>6, <2>1, <2>2 DEF x, y
<1>7. Ascending(S) \in Seq(S)
  <2> DEFINE at(i) == CHOOSE x \in S : Cardinality({y \in S : y < x}) = i - 1
  <2>1. Ascending(S) = [i \in 1..n |-> at(i)]
    BY DEF Ascending
  <2> HIDE DEF at
  <2>2. Ascending(S) \in [1..n -> S]
    BY <1>3, <2>1
  <2> HIDE DEF n
  <2>3. [1..n -> S] \subseteq Seq(S)
    BY <1>1
  <2> QED  BY <2>2, <2>3
<1> QED  BY <1>2, <1>4, <1>5, <1>6, <1>7

-----------------------------------------------------------------------------
(* The ring under any sequence of changes *)

\* What a change in progress is about is an element; op is Set again whenever
\* a writer is at rest.
WriterState ==
  [pc : {"idle", "set", "add", "remove"}, op : {"Set", "Add", "Remove"},
   elt : Elts \cup {Rest.elt}, elts : Seq(Elts), drop : SUBSET Elts, todo : Seq(Elts)]

WriterType ==
  /\ writer \in [Writers -> WriterState]
  /\ \A w \in Writers :
       /\ writer[w].pc \in {"add", "remove"} => writer[w].elt \in Elts
       /\ writer[w].pc = "idle" => writer[w].op = "Set"

RingType ==
  /\ DOMAIN circle \subseteq Hash /\ \A h \in DOMAIN circle : circle[h] \in Elts
  /\ members \subseteq Elts /\ IsFiniteSet(members) /\ count \in Int
  /\ sortedHashes \in Seq(Hash)

RingInv == WriterType /\ RingType /\ RingAgrees

LEMMA HashesSorted ==
  ASSUME NEW S \in SUBSET Hash
  PROVE  /\ Ascending(S) \in Seq(Hash) /\ RangeOf(Ascending(S)) = S
         /\ \A i, j \in DOMAIN Ascending(S) : i < j => Ascending(S)[i] < Ascending(S)[j]
<1>1. HashSize - 1 \in Int /\ 0 \in Int
  BY PointsAssumption
<1>2. IsFiniteSet(Hash) /\ Hash \subseteq Int
  BY <1>1, FS_Interval DEF Hash
<1>3. IsFiniteSet(S) /\ S \subseteq Int
  BY <1>2, FS_Subset
<1>4. Ascending(S) \in Seq(S)
  BY <1>3, AscendingSorts
<1>5. Ascending(S) \in Seq(Hash)
  BY <1>4
<1> QED  BY <1>3, <1>5, AscendingSorts

LEMMA InitRingInv == Init => RingInv
<1> SUFFICES ASSUME Init PROVE RingInv  OBVIOUS
<1>1. WriterType
  <2>1. Rest \in WriterState
    BY DEF Rest, WriterState
  <2>2. Rest.pc = "idle" /\ Rest.op = "Set"
    BY DEF Rest
  <2> QED  BY <2>1, <2>2 DEF Init, WriterType
<1>2. RingType
  BY FS_EmptySet DEF Init, RingType
<1>3. RingAgrees
  BY DEF Init, RingAgrees, RangeOf
<1> QED  BY <1>1, <1>2, <1>3 DEF RingInv

LEMMA AddKeeps ==
  ASSUME RingType, RingAgrees, NEW e \in Elts, Add(e)
  PROVE  RingType' /\ RingAgrees'
<1>1. Points[e] \subseteq Hash /\ Points[e] # {}
  BY PointsAssumption
<1>2. /\ DOMAIN circle' = DOMAIN circle \cup Points[e]
      /\ \A h \in DOMAIN circle' : circle'[h] = IF h \in Points[e] THEN e ELSE circle[h]
      /\ members' = members \cup {e} /\ count' = count + 1
      /\ sortedHashes' = Ascending(DOMAIN circle')
  BY DEF Add, updateSortedHashes
<1>3. RingType'
  <2>1. DOMAIN circle' \in SUBSET Hash
    BY <1>1, <1>2 DEF RingType
  <2>2. sortedHashes' \in Seq(Hash)
    BY <1>2, <2>1, HashesSorted
  <2>3. \A h \in DOMAIN circle' : circle'[h] \in Elts
    BY <1>2 DEF RingType
  <2>4. members' \subseteq Elts /\ IsFiniteSet(members') /\ count' \in Int
    BY <1>2, FS_AddElement DEF RingType
  <2> QED  BY <2>1, <2>2, <2>3, <2>4 DEF RingType
<1>4. /\ RangeOf(sortedHashes') = DOMAIN circle'
      /\ \A i, j \in DOMAIN sortedHashes' : i < j => sortedHashes'[i] < sortedHashes'[j]
  BY <1>2, <1>3, HashesSorted DEF RingType
<1>5. \A h \in DOMAIN circle' : circle'[h] \in members' /\ h \in Points[circle'[h]]
  BY <1>2 DEF RingAgrees
<1>6. ASSUME Disjoint, NEW f \in members', NEW h \in Points[f]
      PROVE  h \in DOMAIN circle' /\ circle'[h] = f
  <2>1. CASE f = e
    BY <1>2, <1>6, <2>1
  <2>2. CASE f # e
    <3>1. f \in members /\ f \in Elts
      BY <1>2, <2>2 DEF RingType
    <3>2. h \notin Points[e]
      BY <1>6, <2>2, <3>1 DEF Disjoint
    <3> QED  BY <1>2, <1>6, <3>1, <3>2 DEF RingAgrees
  <2> QED  BY <2>1, <2>2
<1> QED  BY <1>3, <1>4, <1>5, <1>6 DEF RingAgrees, RangeOf, Disjoint

LEMMA RemoveKeeps ==
  ASSUME RingType, RingAgrees, NEW e \in Elts, Remove(e)
  PROVE  RingType' /\ RingAgrees'
<1>2. /\ DOMAIN circle' = DOMAIN circle \ Points[e]
      /\ \A h \in DOMAIN circle' : circle'[h] = circle[h]
      /\ members' = members \ {e} /\ count' = count - 1
      /\ sortedHashes' = Ascending(DOMAIN circle')
  BY DEF Remove, updateSortedHashes
<1>3. RingType'
  <2>1. DOMAIN circle' \in SUBSET Hash
    BY <1>2 DEF RingType
  <2>2. sortedHashes' \in Seq(Hash)
    BY <1>2, <2>1, HashesSorted
  <2>3. \A h \in DOMAIN circle' : circle'[h] \in Elts
    BY <1>2 DEF RingType
  <2>4. IsFiniteSet(members \ {e})
    BY FS_Subset DEF RingType
  <2>5. members' \subseteq Elts /\ IsFiniteSet(members') /\ count' \in Int
    BY <1>2, <2>4 DEF RingType
  <2> QED  BY <2>1, <2>2, <2>3, <2>5 DEF RingType
<1>4. /\ RangeOf(sortedHashes') = DOMAIN circle'
      /\ \A i, j \in DOMAIN sortedHashes' : i < j => sortedHashes'[i] < sortedHashes'[j]
  BY <1>2, <1>3, HashesSorted DEF RingType
<1>5. \A h \in DOMAIN circle' : circle'[h] \in members' /\ h \in Points[circle'[h]]
  BY <1>2 DEF RingAgrees
<1>6. ASSUME Disjoint, NEW f \in members', NEW h \in Points[f]
      PROVE  h \in DOMAIN circle' /\ circle'[h] = f
  <2>1. f \in members /\ f \in Elts /\ f # e
    BY <1>2 DEF RingType
  <2>2. h \notin Points[e]
    BY <1>6, <2>1 DEF Disjoint
  <2> QED  BY <1>2, <1>6, <2>1, <2>2 DEF RingAgrees
<1> QED  BY <1>3, <1>4, <1>5, <1>6 DEF RingAgrees, RangeOf, Disjoint

LEMMA RingUntouched ==
  ASSUME RingType, RingAgrees, UNCHANGED ring
  PROVE  RingType' /\ RingAgrees'
BY DEF ring, RingType, RingAgrees, RangeOf, Disjoint

LEMMA WriterGoesOn ==
  ASSUME WriterType, NEW w \in Writers, NEW s \in WriterState,
         s.pc \in {"add", "remove"} => s.elt \in Elts,
         s.pc = "idle" => s.op = "Set",
         writer' = [writer EXCEPT ![w] = s]
  PROVE  WriterType'
BY DEF WriterType

LEMMA NextRingInv == RingInv /\ [Next]_vars => RingInv'
<1> SUFFICES ASSUME RingInv, [Next]_vars PROVE RingInv'  OBVIOUS
<1> USE DEF RingInv
<1>1. ASSUME NEW r \in Readers, LookupStep(r) PROVE UNCHANGED <<ring, writer>>
  BY <1>1 DEF LookupStep, EmptyCircle, Get, GetTwo, GetN, GetNPanics, Enter, Around,
              WalkOn, Return
<1>2. CASE UNCHANGED <<ring, writer>>
  BY <1>2, RingUntouched DEF WriterType
<1>3. ASSUME NEW w \in Writers, ChangeStep(w) PROVE RingInv'
  <2>w. /\ writer[w] \in WriterState
        /\ writer[w].pc \in {"add", "remove"} => writer[w].elt \in Elts
    BY DEF WriterType
  <2>1. ASSUME NEW e \in Adds, AddCall(w, e) PROVE RingInv'
    <3> DEFINE s == [writer[w] EXCEPT !.pc = "add", !.op = "Add", !.elt = e]
    <3>1. writer' = [writer EXCEPT ![w] = s]
      BY <2>1 DEF AddCall
    <3>2. s \in WriterState /\ s.pc = "add" /\ s.elt \in Elts
      BY <2>w, InputsAssumption DEF WriterState
    <3> HIDE DEF s
    <3>3. WriterType'
      BY <3>1, <3>2, WriterGoesOn
    <3> QED  BY <2>1, <3>3, RingUntouched DEF AddCall
  <2>2. ASSUME NEW e \in Removes, RemoveCall(w, e) PROVE RingInv'
    <3> DEFINE s == [writer[w] EXCEPT !.pc = "remove", !.op = "Remove", !.elt = e]
    <3>1. writer' = [writer EXCEPT ![w] = s]
      BY <2>2 DEF RemoveCall
    <3>2. s \in WriterState /\ s.pc = "remove" /\ s.elt \in Elts
      BY <2>w, InputsAssumption DEF WriterState
    <3> HIDE DEF s
    <3>3. WriterType'
      BY <3>1, <3>2, WriterGoesOn
    <3> QED  BY <2>2, <3>3, RingUntouched DEF RemoveCall
  <2>3. ASSUME NEW elts \in Sets, SetCall(w, elts) PROVE RingInv'
    <3> DEFINE s == [writer[w] EXCEPT !.pc = "set", !.elts = elts, !.todo = elts,
                                      !.drop = Stale(elts)]
    <3>1. writer' = [writer EXCEPT ![w] = s]
      BY <2>3 DEF SetCall
    <3>2. elts \in Seq(Elts) /\ Stale(elts) \in SUBSET Elts
      BY InputsAssumption DEF Stale, RingType
    <3>3. s \in WriterState /\ s.pc = "set"
      BY <2>w, <3>2 DEF WriterState
    <3> HIDE DEF s
    <3>4. WriterType'
      BY <3>1, <3>3, WriterGoesOn
    <3> QED  BY <2>3, <3>4, RingUntouched DEF SetCall
  <2>4. ASSUME writer' = [writer EXCEPT ![w].pc = "set"] PROVE WriterType'
    <3> DEFINE s == [writer[w] EXCEPT !.pc = "set"]
    <3>1. writer' = [writer EXCEPT ![w] = s]
      BY <2>4
    <3>2. s \in WriterState /\ s.pc = "set"
      BY <2>w DEF WriterState
    <3> HIDE DEF s
    <3> QED  BY <3>1, <3>2, WriterGoesOn
  <2>5. CASE AddLocked(w)
    <3>1. writer[w].elt \in Elts /\ Add(writer[w].elt)
      BY <2>5, <2>w DEF AddLocked
    <3>2. WriterType'
      BY <2>4, <2>5 DEF AddLocked
    <3> QED  BY <3>1, <3>2, AddKeeps
  <2>6. CASE RemoveLocked(w)
    <3>1. writer[w].elt \in Elts /\ Remove(writer[w].elt)
      BY <2>6, <2>w DEF RemoveLocked
    <3>2. WriterType'
      BY <2>4, <2>6 DEF RemoveLocked
    <3> QED  BY <3>1, <3>2, RemoveKeeps
  <2>7. CASE SetDrop(w)
    <3>1. PICK k \in writer[w].drop :
            writer' = [writer EXCEPT ![w].pc = "remove", ![w].elt = k, ![w].drop = @ \ {k}]
      BY <2>7 DEF SetDrop
    <3> DEFINE s == [writer[w] EXCEPT !.pc = "remove", !.elt = k, !.drop = @ \ {k}]
    <3>2. writer' = [writer EXCEPT ![w] = s]
      BY <3>1
    <3>3. s \in WriterState /\ s.pc = "remove" /\ s.elt \in Elts
      BY <2>w DEF WriterState
    <3> HIDE DEF s
    <3>4. WriterType'
      BY <3>2, <3>3, WriterGoesOn
    <3> QED  BY <2>7, <3>4, RingUntouched DEF SetDrop
  <2>8. CASE SetCheck(w)
    <3> DEFINE e == Head(writer[w].todo)
               s == [writer[w] EXCEPT !.todo = Tail(@), !.elt = e,
                                      !.pc = IF Exists(e) THEN "set" ELSE "add"]
    <3>1. e \in Elts /\ Tail(writer[w].todo) \in Seq(Elts)
      <4>1. writer[w].todo \in Seq(Elts) /\ writer[w].todo # << >>
        BY <2>8, <2>w DEF SetCheck, WriterState
      <4> QED  BY <4>1
    <3>2. writer' = [writer EXCEPT ![w] = s]
      BY <2>8 DEF SetCheck
    <3> HIDE DEF e
    <3>3. s \in WriterState /\ s.pc # "idle" /\ s.elt \in Elts
      BY <2>w, <3>1 DEF WriterState
    <3> HIDE DEF s
    <3>4. WriterType'
      BY <3>2, <3>3, WriterGoesOn
    <3> QED  BY <2>8, <3>4, RingUntouched DEF SetCheck
  <2>9. CASE Finish(w)
    <3>1. Rest \in WriterState /\ Rest.pc = "idle" /\ Rest.op = "Set"
      BY DEF Rest, WriterState
    <3>2. WriterType'
      BY <2>9, <3>1, WriterGoesOn DEF Finish
    <3> QED  BY <2>9, <3>2, RingUntouched DEF Finish
  <2> QED  BY <1>3, <2>1, <2>2, <2>3, <2>4, <2>5, <2>6, <2>7, <2>8, <2>9
         DEF ChangeStep
<1> QED  BY <1>1, <1>2, <1>3 DEF Next, vars, ring

\* Through any sequence of Add, Remove and Set, by any number of writers, the
\* sorted hashes are the circle's, each hash belongs to a member it is a point
\* of, and without collisions no member misses a hash.
THEOREM DerivedFieldsAgree == Spec => []RingAgrees
<1>1. Spec => []RingInv
  BY InitRingInv, NextRingInv, PTL DEF Spec
<1> QED  BY <1>1, PTL DEF RingInv

-----------------------------------------------------------------------------
(* Set, where no other writer comes between its steps *)

OneWriter == \A u, v \in Writers : u = v

\* What Set still has to remove, the element in hand included; what it has in
\* hand to add.
Doomed(s) == s.drop \cup (IF s.pc = "remove" THEN {s.elt} ELSE {})
Added(s)  == IF s.pc = "add" THEN {s.elt} ELSE {}

\* Where a Set stands: it removes what is there and adds what is not, and the
\* members, those still to be removed and those still to be looked at make up
\* what it was called with.
Standing(s, mems) ==
  /\ s.pc = "add" => s.drop = {} /\ s.elt \notin mems /\ s.elt \in RangeOf(s.elts)
  /\ s.pc = "remove" => s.elt \in mems /\ s.elt \notin s.drop
  /\ s.drop \subseteq mems
  /\ s.pc # "idle" =>
       /\ Doomed(s) \cap RangeOf(s.elts) = {}
       /\ mems \subseteq RangeOf(s.elts) \cup Doomed(s)
       /\ RangeOf(s.elts) \subseteq mems \cup RangeOf(s.todo) \cup Added(s)
       /\ RangeOf(s.todo) \subseteq RangeOf(s.elts)

SetsStand == \A w \in Writers : writer[w].op = "Set" => Standing(writer[w], members)

LEMMA RangeHeadTail ==
  ASSUME NEW S, NEW q \in Seq(S), q # << >>
  PROVE  RangeOf(q) = {Head(q)} \cup RangeOf(Tail(q))
<1>1. /\ Len(q) \in Nat \ {0} /\ DOMAIN q = 1..Len(q) /\ Head(q) = q[1]
      /\ DOMAIN Tail(q) = 1..(Len(q) - 1)
      /\ \A i \in 1..(Len(q) - 1) : Tail(q)[i] = q[i + 1]
  BY HeadTailProperties
<1>2. ASSUME NEW i \in 1..Len(q) PROVE q[i] \in {Head(q)} \cup RangeOf(Tail(q))
  <2>1. CASE i = 1
    BY <1>1, <2>1
  <2>2. CASE i # 1
    <3>1. i - 1 \in 1..(Len(q) - 1) /\ Tail(q)[i - 1] = q[i]
      BY <1>1, <2>2
    <3> QED  BY <1>1, <3>1 DEF RangeOf
  <2> QED  BY <2>1, <2>2
<1>3. ASSUME NEW i \in 1..(Len(q) - 1) PROVE Tail(q)[i] \in RangeOf(q)
  <2>1. i + 1 \in 1..Len(q) /\ Tail(q)[i] = q[i + 1]
    BY <1>1
  <2> QED  BY <1>1, <2>1 DEF RangeOf
<1>4. Head(q) \in RangeOf(q)
  <2>1. 1 \in 1..Len(q)
    BY <1>1
  <2> QED  BY <1>1, <2>1 DEF RangeOf
<1>5. RangeOf(q) \subseteq {Head(q)} \cup RangeOf(Tail(q))
  BY <1>1, <1>2 DEF RangeOf
<1>6. RangeOf(Tail(q)) \subseteq RangeOf(q)
  BY <1>1, <1>3 DEF RangeOf
<1> QED  BY <1>4, <1>5, <1>6

\* One step of the only writer; s is what it leaves the writer at.
LEMMA WriterStands ==
  ASSUME RingInv, SetsStand, NEW w \in Writers, ChangeStep(w), writer'[w].op = "Set"
  PROVE  Standing(writer'[w], members')
<1> DEFINE s == writer[w]
<1>w. /\ writer \in [Writers -> WriterState] /\ s \in WriterState
      /\ s.pc = "idle" => s.op = "Set"
  BY DEF RingInv, WriterType
<1>1. ASSUME NEW e \in Elts, AddCall(w, e) \/ RemoveCall(w, e) PROVE FALSE
  <2>1. writer'[w].op # "Set"
    BY <1>w, <1>1 DEF AddCall, RemoveCall, WriterState
  <2> QED  BY <2>1
<1>2. ASSUME NEW elts \in Sets, SetCall(w, elts) PROVE Standing(writer'[w], members')
  <2>1. /\ writer'[w].pc = "set" /\ writer'[w].drop = members \ RangeOf(elts)
        /\ writer'[w].elts = elts /\ writer'[w].todo = elts /\ members' = members
    BY <1>w, <1>2 DEF SetCall, Stale, ring, WriterState
  <2> QED  BY <2>1 DEF Standing, Doomed, Added
<1>3. CASE AddLocked(w)
  <2>1. /\ writer'[w].pc = "set" /\ writer'[w].drop = s.drop /\ writer'[w].elts = s.elts
        /\ writer'[w].todo = s.todo /\ members' = members \cup {s.elt}
        /\ s.pc = "add" /\ writer'[w].op = s.op
    BY <1>w, <1>3 DEF AddLocked, Add, WriterState
  <2>2. Standing(s, members)
    BY <2>1 DEF SetsStand
  <2> QED  BY <2>1, <2>2 DEF Standing, Doomed, Added
<1>4. CASE RemoveLocked(w)
  <2>1. /\ writer'[w].pc = "set" /\ writer'[w].drop = s.drop /\ writer'[w].elts = s.elts
        /\ writer'[w].todo = s.todo /\ members' = members \ {s.elt}
        /\ s.pc = "remove" /\ writer'[w].op = s.op
    BY <1>w, <1>4 DEF RemoveLocked, Remove, WriterState
  <2>2. Standing(s, members)
    BY <2>1 DEF SetsStand
  <2> QED  BY <2>1, <2>2 DEF Standing, Doomed, Added
<1>5. CASE SetDrop(w)
  <2>1. PICK k \in s.drop :
          writer' = [writer EXCEPT ![w].pc = "remove", ![w].elt = k, ![w].drop = @ \ {k}]
    BY <1>5 DEF SetDrop
  <2>2. /\ writer'[w].pc = "remove" /\ writer'[w].elt = k /\ writer'[w].drop = s.drop \ {k}
        /\ writer'[w].elts = s.elts /\ writer'[w].todo = s.todo /\ writer'[w].op = s.op
        /\ members' = members /\ s.pc = "set"
    BY <1>w, <1>5, <2>1 DEF SetDrop, ring, WriterState
  <2>3. Standing(s, members)
    BY <2>2 DEF SetsStand
  <2>4. Doomed(writer'[w]) = Doomed(s) /\ Added(writer'[w]) = Added(s)
    BY <2>2 DEF Doomed, Added
  <2> QED  BY <2>2, <2>3, <2>4 DEF Standing
<1>6. CASE SetCheck(w)
  <2> DEFINE e == Head(s.todo)
  <2>1. /\ writer'[w].pc = (IF e \in members THEN "set" ELSE "add")
        /\ writer'[w].elt = e /\ writer'[w].drop = s.drop /\ writer'[w].elts = s.elts
        /\ writer'[w].todo = Tail(s.todo) /\ writer'[w].op = s.op
        /\ members' = members /\ s.pc = "set" /\ s.drop = {} /\ s.todo # << >>
    BY <1>w, <1>6 DEF SetCheck, Exists, ring, WriterState
  <2>2. Standing(s, members)
    BY <2>1 DEF SetsStand
  <2>3. s.todo \in Seq(Elts)
    BY <1>w DEF WriterState
  <2>4. RangeOf(s.todo) = {e} \cup RangeOf(Tail(s.todo))
    BY <2>1, <2>3, RangeHeadTail
  <2> HIDE DEF e
  <2> QED  BY <2>1, <2>2, <2>4 DEF Standing, Doomed, Added
<1>7. CASE Finish(w)
  <2>1. writer'[w] = Rest /\ members' = members
    BY <1>w, <1>7 DEF Finish, ring
  <2> QED  BY <2>1 DEF Standing, Rest
<1> QED
  BY <1>1, <1>2, <1>3, <1>4, <1>5, <1>6, <1>7, InputsAssumption DEF ChangeStep

LEMMA InitSetsStand == Init => SetsStand
BY DEF Init, SetsStand, Standing, Rest

\* A step is the only writer's or leaves it, and the ring, alone.
LEMMA WhoseStep ==
  ASSUME OneWriter, [Next]_vars, NEW w \in Writers
  PROVE  ChangeStep(w) \/ UNCHANGED <<ring, writer>>
<1>1. ASSUME NEW r \in Readers, LookupStep(r) PROVE UNCHANGED <<ring, writer>>
  BY <1>1 DEF LookupStep, EmptyCircle, Get, GetTwo, GetN, GetNPanics, Enter, Around,
              WalkOn, Return
<1>2. CASE UNCHANGED vars
  BY <1>2 DEF vars, ring
<1>3. ASSUME NEW v \in Writers, ChangeStep(v) PROVE ChangeStep(w)
  <2>1. v = w  BY DEF OneWriter
  <2> QED  BY <1>3, <2>1
<1> QED  BY <1>1, <1>2, <1>3 DEF Next

LEMMA NextSetsStand == OneWriter /\ RingInv /\ SetsStand /\ [Next]_vars => SetsStand'
<1> SUFFICES ASSUME OneWriter, RingInv, SetsStand, [Next]_vars,
                    NEW w \in Writers, writer'[w].op = "Set"
             PROVE  Standing(writer'[w], members')
  BY DEF SetsStand
<1>1. CASE ChangeStep(w)
  BY <1>1, WriterStands
<1>2. CASE UNCHANGED <<ring, writer>>
  <2>1. writer' = writer /\ members' = members
    BY <1>2 DEF ring
  <2> QED  BY <2>1 DEF SetsStand
<1> QED  BY <1>1, <1>2, WhoseStep

\* Set adds what is not a member and removes what is, so that count moves with
\* the number of members.
LEMMA CountMovesAlong ==
  ASSUME OneWriter, RingInv, SetsStand, [Next]_vars,
         NEW w \in Writers, writer[w].op = "Set", writer'[w] # writer[w]
  PROVE  count' - Cardinality(members') = count - Cardinality(members)
<1> DEFINE s == writer[w]
<1>1. ChangeStep(w)
  BY WhoseStep
<1>2. Standing(s, members) /\ IsFiniteSet(members) /\ count \in Int
      /\ Cardinality(members) \in Nat
  BY FS_CardinalityType DEF SetsStand, RingInv, RingType
<1>3. CASE AddLocked(w)
  <2>1. members' = members \cup {s.elt} /\ count' = count + 1 /\ s.elt \notin members
    BY <1>2, <1>3 DEF AddLocked, Add, Standing
  <2>2. Cardinality(members') = Cardinality(members) + 1
    BY <1>2, <2>1, FS_AddElement
  <2> QED  BY <1>2, <2>1, <2>2
<1>4. CASE RemoveLocked(w)
  <2>1. members' = members \ {s.elt} /\ count' = count - 1 /\ s.elt \in members
    BY <1>2, <1>4 DEF RemoveLocked, Remove, Standing
  <2>2. Cardinality(members') = Cardinality(members) - 1
    BY <1>2, <2>1, FS_RemoveElement
  <2> QED  BY <1>2, <2>1, <2>2
<1>5. CASE ~AddLocked(w) /\ ~RemoveLocked(w)
  <2>1. members' = members /\ count' = count
    BY <1>1, <1>5 DEF ChangeStep, AddCall, RemoveCall, SetCall, SetDrop, SetCheck, Finish, ring
  <2> QED  BY <2>1
<1> QED  BY <1>3, <1>4, <1>5

LEMMA SetInvariant == ASSUME OneWriter PROVE Spec => [](RingInv /\ SetsStand)
<1>1. Init => RingInv /\ SetsStand
  BY InitRingInv, InitSetsStand
<1>2. RingInv /\ SetsStand /\ [Next]_vars => (RingInv /\ SetsStand)'
  BY NextRingInv, NextSetsStand
<1> QED  BY <1>1, <1>2, PTL DEF Spec

\* A Set that nobody interferes with leaves the elements it was called with and
\* no others.
THEOREM SetSound == ASSUME OneWriter PROVE Spec => []SetEstablishes
<1>1. RingInv /\ SetsStand => SetEstablishes
  <2> SUFFICES ASSUME SetsStand, NEW w \in Writers,
                      writer[w].pc = "set", writer[w].op = "Set",
                      writer[w].drop = {}, writer[w].todo = << >>
               PROVE  members = RangeOf(writer[w].elts)
    BY DEF SetEstablishes
  <2>1. Standing(writer[w], members)
    BY DEF SetsStand
  <2>2. RangeOf(<< >>) = {}
    BY DEF RangeOf
  <2> QED  BY <2>1, <2>2 DEF Standing, Doomed, Added
<1> QED  BY <1>1, SetInvariant, PTL

\* Whatever count was, right or pushed up by repeated Adds, Set keeps its
\* distance from the number of members.
THEOREM SetCountsRight == ASSUME OneWriter PROVE Spec => SetKeepsCount
<1>1. RingInv /\ SetsStand /\ [Next]_vars =>
        [\A w \in Writers : writer[w].op = "Set" /\ writer'[w] # writer[w] =>
           count' - Cardinality(members') = count - Cardinality(members)]_vars
  BY CountMovesAlong
<1> QED  BY <1>1, SetInvariant, PTL DEF Spec, SetKeepsCount

-----------------------------------------------------------------------------
(* The sorted hashes as places on a circle *)

N        == Len(sortedHashes)
Places   == 0..(N - 1)
HashAt(x) == sortedHashes[x + 1]

\* How many places the walk that starts at st takes to come to x.
Steps(st, x) == IF x >= st THEN x - st ELSE x - st + N

LEMMA PlacesOfRing ==
  ASSUME RingInv
  PROVE  /\ N \in Nat /\ HashSize \in Nat \ {0} /\ Hash = 0..(HashSize - 1)
         /\ \A x \in Places : /\ HashAt(x) \in Hash /\ HashAt(x) \in DOMAIN circle
                              /\ Elem(x) = circle[HashAt(x)] /\ Elem(x) \in Elts
                              /\ Elem(x) \in RangeOf(circle)
         /\ \A h \in DOMAIN circle : \E x \in Places : HashAt(x) = h
         /\ \A x, y \in Places : x < y => HashAt(x) < HashAt(y)
         /\ DOMAIN circle # {} => N > 0
<1>1. /\ sortedHashes \in Seq(Hash) /\ RangeOf(sortedHashes) = DOMAIN circle
      /\ DOMAIN circle \subseteq Hash /\ \A h \in DOMAIN circle : circle[h] \in Elts
      /\ \A i, j \in DOMAIN sortedHashes : i < j => sortedHashes[i] < sortedHashes[j]
  BY DEF RingInv, RingType, RingAgrees
<1>2. N \in Nat /\ DOMAIN sortedHashes = 1..N
  BY <1>1 DEF N
<1>3. ASSUME NEW x \in Places
      PROVE  /\ HashAt(x) \in Hash /\ HashAt(x) \in DOMAIN circle
             /\ Elem(x) = circle[HashAt(x)] /\ Elem(x) \in Elts
             /\ Elem(x) \in RangeOf(circle)
  <2>1. x + 1 \in DOMAIN sortedHashes
    BY <1>2 DEF Places
  <2>2. HashAt(x) \in DOMAIN circle
    BY <1>1, <2>1 DEF HashAt, RangeOf
  <2> QED  BY <1>1, <2>2 DEF HashAt, Elem, RangeOf
<1>4. ASSUME NEW h \in DOMAIN circle PROVE \E x \in Places : HashAt(x) = h
  <2>1. PICK i \in 1..N : sortedHashes[i] = h
    BY <1>1, <1>2 DEF RangeOf
  <2>2. i - 1 \in Places /\ HashAt(i - 1) = h
    BY <1>2, <2>1 DEF Places, HashAt
  <2> QED  BY <2>2
<1>5. ASSUME NEW x \in Places, NEW y \in Places, x < y PROVE HashAt(x) < HashAt(y)
  <2>1. x + 1 \in 1..N /\ y + 1 \in 1..N /\ x + 1 < y + 1
    BY <1>2, <1>5 DEF Places
  <2> QED  BY <1>1, <1>2, <2>1 DEF HashAt
<1>6. DOMAIN circle # {} => N > 0
  BY <1>2, <1>4 DEF Places
<1> QED  BY <1>2, <1>3, <1>4, <1>5, <1>6, PointsAssumption DEF Hash

\* search finds the first hash greater than key, or goes back to the first.
LEMMA SearchSplits ==
  ASSUME RingInv, DOMAIN circle # {}, NEW key \in Hash
  PROVE  /\ search(key) \in Places
         /\ \/ /\ HashAt(search(key)) > key
               /\ \A y \in Places : y < search(key) => HashAt(y) <= key
            \/ search(key) = 0 /\ \A y \in Places : HashAt(y) <= key
<1> DEFINE after == {x \in Places : HashAt(x) > key}
<1>1. search(key) = IF after = {} THEN 0
                    ELSE CHOOSE x \in after : \A y \in after : x <= y
  BY DEF search, N, Places, HashAt
<1>2. N \in Nat /\ N > 0 /\ key \in Int /\ \A x \in Places : HashAt(x) \in Int
  <2>1. \A h \in Hash : h \in Int
    BY PlacesOfRing
  <2> QED  BY <2>1, PlacesOfRing
<1>3. CASE after = {}
  <2>1. search(key) = 0
    BY <1>1, <1>3
  <2>2. \A y \in Places : HashAt(y) <= key
    BY <1>2, <1>3
  <2>3. 0 \in Places
    BY <1>2 DEF Places
  <2> QED  BY <2>1, <2>2, <2>3
<1>4. CASE after # {}
  <2>1. \E x \in after : \A y \in after : x <= y
    <3>1. after \subseteq Int /\ IsFiniteSet(after)
      <4>1. IsFiniteSet(Places) /\ Places \subseteq Int
        BY <1>2, FS_Interval DEF Places
      <4> QED  BY <4>1, FS_Subset
    <3>2. Cardinality(after) \in Nat /\ Cardinality(after) # 0
      BY <1>4, <3>1, FS_CardinalityType, FS_EmptySet
    <3> HIDE DEF after
    <3>3. 1 \in 1..Cardinality(after)
      BY <3>2
    <3>4. PICK x \in after : Rank(after, x) = 1
      BY <3>1, <3>3, RankOnto
    <3>5. ASSUME NEW y \in after PROVE x <= y
      <4>1. Rank(after, y) \in 1..Cardinality(after) /\ x \in Int /\ y \in Int
        BY <3>1, RankType
      <4>2. /\ Rank(after, x) = Rank(after, y) => x = y
            /\ Rank(after, x) < Rank(after, y) => x < y
        BY <3>1, RankOrders
      <4> DEFINE rx == Rank(after, x)  ry == Rank(after, y)  c == Cardinality(after)
      <4>3. rx = 1 /\ ry \in 1..c /\ c \in Nat
        BY <3>2, <3>4, <4>1
      <4>4. (rx = ry => x = y) /\ (rx < ry => x < y)
        BY <4>2
      <4> HIDE DEF rx, ry, c
      <4> QED  BY <4>1, <4>3, <4>4
    <3> QED  BY <3>5
  <2>2. search(key) \in after /\ \A y \in after : search(key) <= y
    BY <1>1, <1>4, <2>1
  <2>3. ASSUME NEW y \in Places, y < search(key) PROVE HashAt(y) <= key
    <3>1. y \notin after
      <4>1. search(key) \in Int /\ y \in Int
        BY <1>2, <2>2 DEF Places
      <4> QED  BY <2>2, <2>3, <4>1
    <3> QED  BY <1>2, <3>1
  <2> QED  BY <2>2, <2>3
<1> QED  BY <1>3, <1>4

LEMMA ClockwiseValue ==
  ASSUME NEW key \in Hash, NEW h \in Hash
  PROVE  Clockwise(key, h) = IF h > key THEN h - key - 1 ELSE h - key - 1 + HashSize
<1>1. HashSize \in Nat \ {0} /\ key \in 0..(HashSize - 1) /\ h \in 0..(HashSize - 1)
  BY PointsAssumption DEF Hash
<1>2. CASE h > key
  <2> DEFINE d == h - key - 1
  <2>1. d \in Int /\ 0 <= d /\ d < HashSize
    BY <1>1, <1>2
  <2>2. d % HashSize = d
    <3> HIDE DEF d
    <3> QED  BY <1>1, <2>1
  <2> QED  BY <1>2, <2>2 DEF Clockwise
<1>3. CASE ~(h > key)
  <2> DEFINE d == h - key - 1
  <2>1. d \in Int /\ -HashSize <= d /\ d < 0
    BY <1>1, <1>3
  <2>2. d % HashSize = d + HashSize
    <3> HIDE DEF d
    <3> QED  BY <1>1, <2>1
  <2> QED  BY <1>3, <2>2 DEF Clockwise
<1> QED  BY <1>2, <1>3

\* Fewer steps from where search starts is nearer clockwise.
LEMMA WalkOrder ==
  ASSUME RingInv, DOMAIN circle # {}, NEW key \in Hash,
         NEW x \in Places, NEW y \in Places,
         Steps(search(key), x) < Steps(search(key), y)
  PROVE  Clockwise(key, HashAt(x)) < Clockwise(key, HashAt(y))
<1> DEFINE st == search(key)  hx == HashAt(x)  hy == HashAt(y)
<1>1. /\ N \in Nat /\ HashSize \in Nat \ {0} /\ key \in 0..(HashSize - 1)
      /\ hx \in 0..(HashSize - 1) /\ hy \in 0..(HashSize - 1)
      /\ x \in 0..(N - 1) /\ y \in 0..(N - 1)
      /\ x < y => hx < hy
  BY PlacesOfRing DEF Places
<1>2. /\ st \in 0..(N - 1)
      /\ \/ HashAt(st) > key /\ \A z \in Places : z < st => HashAt(z) <= key
         \/ st = 0 /\ \A z \in Places : HashAt(z) <= key
      /\ \A z \in Places : st < z => HashAt(st) < HashAt(z)
      /\ HashAt(st) \in Hash
  BY SearchSplits, PlacesOfRing DEF Places
<1>3. \/ /\ x >= st => hx > key
         /\ y >= st => hy > key
         /\ x < st => hx <= key
         /\ y < st => hy <= key
      \/ st = 0 /\ hx <= key /\ hy <= key
  <2>1. CASE HashAt(st) > key /\ \A z \in Places : z < st => HashAt(z) <= key
    <3>1. HashAt(st) \in Int /\ key \in Int /\ st \in Int /\ hx \in Int /\ hy \in Int
      <4>1. \A h \in Hash : h \in Int
        BY PlacesOfRing
      <4>2. HashAt(st) \in Int /\ key \in Int
        BY <1>2, <4>1
      <4>3. hx \in Int /\ hy \in Int
        <5> HIDE DEF hx, hy
        <5> QED  BY <1>1
      <4>4. st \in Int
        <5> HIDE DEF st
        <5> QED  BY <1>1, <1>2
      <4> QED  BY <4>2, <4>3, <4>4
    <3>2. ASSUME NEW z \in Places, z >= st, HashAt(z) \in Int PROVE HashAt(z) > key
      <4>1. CASE z = st
        BY <2>1, <4>1
      <4>2. CASE z # st
        <5>1. HashAt(st) < HashAt(z)
          BY <1>1, <1>2, <3>1, <3>2, <4>2 DEF Places
        <5> HIDE DEF st
        <5> QED  BY <2>1, <3>1, <3>2, <5>1
      <4> QED  BY <4>1, <4>2
    <3> QED  BY <2>1, <3>1, <3>2
  <2>2. CASE st = 0 /\ \A z \in Places : HashAt(z) <= key
    BY <2>2
  <2> QED  BY <1>2, <2>1, <2>2
<1>4. /\ Steps(st, x) = IF x >= st THEN x - st ELSE x - st + N
      /\ Steps(st, y) = IF y >= st THEN y - st ELSE y - st + N
      /\ Steps(st, x) < Steps(st, y)
  BY DEF Steps
<1>5. /\ Clockwise(key, hx) = IF hx > key THEN hx - key - 1 ELSE hx - key - 1 + HashSize
      /\ Clockwise(key, hy) = IF hy > key THEN hy - key - 1 ELSE hy - key - 1 + HashSize
  BY <1>1, ClockwiseValue DEF Hash
<1> HIDE DEF st, hx, hy
<1>6. Clockwise(key, hx) < Clockwise(key, hy)
  BY <1>1, <1>2, <1>3, <1>4, <1>5, SMTT(30)
<1> QED  BY <1>6 DEF hx, hy

-----------------------------------------------------------------------------
(* What a walk has passed and what comes next *)

\* The places a walk has passed that started at st and whose index is i.
Passed(st, i) == {x \in Places : IF i > st THEN st <= x /\ x < i ELSE st <= x \/ x < i}

Wrapped(i) == IF i >= N THEN 0 ELSE i

LEMMA WalkGoesOn ==
  ASSUME N \in Nat, NEW st \in Places, NEW i \in 1..N
  PROVE  /\ Wrapped(i) \in Places /\ Wrapped(i) + 1 \in 1..N /\ st + 1 \in 1..N
         /\ Passed(st, st + 1) = {st} /\ Passed(st, st) = Places
         /\ \A y \in Places : y # st => Steps(st, st) < Steps(st, y)
         /\ i # st => /\ Passed(st, Wrapped(i) + 1) \subseteq Passed(st, i) \cup {Wrapped(i)}
                      /\ \A y \in Places : y \notin Passed(st, i) /\ y # Wrapped(i) =>
                           Steps(st, Wrapped(i)) < Steps(st, y)
<1> USE DEF Places, Wrapped
<1>1. Wrapped(i) \in Places /\ Wrapped(i) + 1 \in 1..N /\ st + 1 \in 1..N
  OBVIOUS
<1>2. Passed(st, st + 1) = {st} /\ Passed(st, st) = Places
  BY DEF Passed
<1>3. \A y \in Places : y # st => Steps(st, st) < Steps(st, y)
  BY DEF Steps
<1>4. ASSUME i # st
      PROVE  Passed(st, Wrapped(i) + 1) \subseteq Passed(st, i) \cup {Wrapped(i)}
  BY <1>4 DEF Passed
<1>5. ASSUME i # st, NEW y \in Places, y \notin Passed(st, i), y # Wrapped(i)
      PROVE  Steps(st, Wrapped(i)) < Steps(st, y)
  BY <1>5 DEF Passed, Steps
<1> QED  BY <1>1, <1>2, <1>3, <1>4, <1>5

\* What is found and in which order.
Found(key, res) == res \in Seq(Elts) /\ NoTwice(res) /\ ClosestFirst(key, res)

\* The owner of a place is the next to be found if every place that is fewer
\* steps away belongs to one found already.
LEMMA FoundGrows ==
  ASSUME RingInv, DOMAIN circle # {}, NEW key \in Hash, NEW res, Found(key, res),
         NEW x \in Places,
         \A y \in Places : Elem(y) \notin RangeOf(res) /\ y # x =>
           Steps(search(key), x) < Steps(search(key), y)
  PROVE  /\ Found(key, AppendNew(res, Elem(x)))
         /\ RangeOf(AppendNew(res, Elem(x))) = RangeOf(res) \cup {Elem(x)}
         /\ Len(AppendNew(res, Elem(x))) \in {Len(res), Len(res) + 1}
<1> DEFINE e == Elem(x)
<1>1. e \in Elts /\ e = circle[HashAt(x)] /\ e \in RangeOf(circle) /\ HashAt(x) \in DOMAIN circle
  BY PlacesOfRing
<1>2. CASE e \in RangeOf(res)
  <2>1. AppendNew(res, e) = res
    BY <1>2 DEF AppendNew
  <2> QED  BY <1>2, <2>1
<1>3. CASE e \notin RangeOf(res)
  <2> DEFINE new == Append(res, e)  n == Len(res)
  <2>1. AppendNew(res, e) = new
    BY <1>3 DEF AppendNew
  <2>2. /\ new \in Seq(Elts) /\ n \in Nat /\ Len(new) = n + 1 /\ DOMAIN res = 1..n
        /\ DOMAIN new = 1..(n + 1) /\ new[n + 1] = e /\ \A i \in 1..n : new[i] = res[i]
    BY <1>1 DEF Found
  <2> HIDE DEF new, n, e
  <2>3. RangeOf(new) = RangeOf(res) \cup {e}
    <3>1. n + 1 \in 1..(n + 1) /\ 1..n \subseteq 1..(n + 1) /\ 1..(n + 1) = 1..n \cup {n + 1}
      BY <2>2
    <3> QED  BY <2>2, <3>1 DEF RangeOf
  <2>4. NoTwice(new)
    <3> SUFFICES ASSUME NEW i \in 1..(n + 1), NEW j \in 1..(n + 1), new[i] = new[j]
                 PROVE  i = j
      BY <2>2 DEF NoTwice
    <3>1. CASE i \in 1..n /\ j \in 1..n
      BY <2>2, <3>1 DEF Found, NoTwice
    <3>2. CASE i = n + 1 /\ j \in 1..n
      BY <1>3, <2>2, <3>2 DEF RangeOf
    <3>3. CASE i \in 1..n /\ j = n + 1
      BY <1>3, <2>2, <3>3 DEF RangeOf
    <3> QED  BY <2>2, <3>1, <3>2, <3>3
  <2>5. ASSUME NEW f \in RangeOf(circle), f \notin RangeOf(res), f # e
        PROVE  Nearer(key, e, f)
    <3>1. ASSUME NEW g \in DOMAIN circle, circle[g] = f
          PROVE  Clockwise(key, HashAt(x)) < Clockwise(key, g)
      <4>1. PICK y \in Places : HashAt(y) = g
        BY PlacesOfRing
      <4>2. Elem(y) = f /\ y # x
        BY <2>5, <3>1, <4>1, PlacesOfRing DEF e
      <4>3. Steps(search(key), x) < Steps(search(key), y)
        BY <2>5, <4>2
      <4> QED  BY <4>1, <4>3, WalkOrder
    <3> QED  BY <1>1, <3>1 DEF Nearer
  <2>6. ClosestFirst(key, new)
    <3> SUFFICES ASSUME NEW i \in 1..(n + 1)
                 PROVE  /\ new[i] \in RangeOf(circle)
                        /\ \A f \in RangeOf(circle) \ {new[j] : j \in 1..(i - 1)} :
                             new[i] # f => Nearer(key, new[i], f)
      BY <2>2 DEF ClosestFirst
    <3>1. CASE i \in 1..n
      <4>1. {new[j] : j \in 1..(i - 1)} = {res[j] : j \in 1..(i - 1)}
        <5>1. \A j \in 1..(i - 1) : j \in 1..n
          BY <2>2, <3>1
        <5> QED  BY <2>2, <5>1
      <4>2. new[i] = res[i]
        BY <2>2, <3>1
      <4> QED  BY <2>2, <3>1, <4>1, <4>2 DEF Found, ClosestFirst
    <3>2. CASE i = n + 1
      <4>1. {new[j] : j \in 1..(i - 1)} = RangeOf(res)
        <5>1. 1..(i - 1) = 1..n
          BY <2>2, <3>2
        <5> QED  BY <2>2, <5>1 DEF RangeOf
      <4> QED  BY <1>1, <2>2, <2>5, <3>2, <4>1
    <3> QED  BY <2>2, <3>1, <3>2
  <2> QED  BY <2>1, <2>2, <2>3, <2>4, <2>6 DEF Found, e, n
<1> QED  BY <1>2, <1>3

-----------------------------------------------------------------------------
(* A lookup, while the read lock keeps the ring as it is *)

ReaderState ==
  [pc : {"idle", "walk", "done", "panic"}, op : {"Get", "GetTwo", "GetN"}, key : Hash,
   asked : Int, n : Nat, start : Nat, i : Nat, res : Seq(Elts)]

Owners == Cardinality(RangeOf(circle))

AtMostOwners(k) == IF Owners < k THEN Owners ELSE k

\* What the lookups that want more than one element rely on.
CountSuits(op) == IF op = "GetTwo" THEN count = Owners ELSE count >= Owners

\* A walk: the owners of all places passed are found, and fewer than wanted.
Walking(s) ==
  /\ DOMAIN circle # {} /\ Found(s.key, s.res)
  /\ s.start = search(s.key) /\ s.i \in 1..N
  /\ \A x \in Passed(s.start, s.i) : Elem(x) \in RangeOf(s.res)
  /\ s.asked >= 1 /\ CountSuits(s.op) =>
       s.n = AtMostCount(s.asked) /\ Len(s.res) < s.n

Answered(s) ==
  /\ s.op # "GetTwo" => Found(s.key, s.res)
  /\ s.asked >= 1 /\ CountSuits(s.op) =>
       Found(s.key, s.res) /\ Len(s.res) = AtMostOwners(s.asked)

Looking(s) == (s.pc = "walk" => Walking(s)) /\ (s.pc = "done" => Answered(s))

ReaderType == reader \in [Readers -> ReaderState]
LookupsRight == \A r \in Readers : Looking(reader[r])

LookupInv == RingInv /\ ReaderType /\ LookupsRight

LEMMA OwnersFinite ==
  ASSUME RingInv
  PROVE  /\ IsFiniteSet(RangeOf(circle)) /\ Owners \in Nat
         /\ DOMAIN circle # {} => Owners >= 1
         /\ RangeOf(circle) \subseteq members
<1>1. RangeOf(circle) \subseteq members /\ IsFiniteSet(members)
  BY DEF RingInv, RingType, RingAgrees, RangeOf
<1>2. IsFiniteSet(RangeOf(circle))
  BY <1>1, FS_Subset
<1>3. Owners \in Nat
  BY <1>2, FS_CardinalityType DEF Owners
<1>4. ASSUME DOMAIN circle # {} PROVE Owners # 0
  <2>1. RangeOf(circle) # {}
    BY <1>4 DEF RangeOf
  <2> QED  BY <1>2, <2>1, FS_EmptySet DEF Owners
<1> QED  BY <1>1, <1>2, <1>3, <1>4

\* A list of owners that has none twice is no longer than they are many.
LEMMA NoneTwice ==
  ASSUME RingInv, NEW key, NEW res, Found(key, res)
  PROVE  Len(res) \in Nat /\ Len(res) <= Owners
<1> DEFINE D == 1..Len(res)
<1>1. res \in Seq(Elts) /\ NoTwice(res) /\ \A i \in DOMAIN res : res[i] \in RangeOf(circle)
  BY DEF Found, ClosestFirst
<1>2. IsFiniteSet(D) /\ Cardinality(D) = Len(res) /\ Len(res) \in Nat /\ DOMAIN res = D
  BY <1>1, FS_Interval
<1> HIDE DEF D
<1>3. res \in [D -> RangeOf(circle)]
  BY <1>1, <1>2
<1>4. res \in Injection(D, RangeOf(circle))
  BY <1>1, <1>2, <1>3 DEF Injection, IsInjective, NoTwice
<1>5. Cardinality(D) <= Cardinality(RangeOf(circle))
  BY <1>4, OwnersFinite, FS_Injection
<1> QED  BY <1>2, <1>5 DEF Owners

\* A list that no owner is missing from is at least as long as they are many.
LEMMA AllFound ==
  ASSUME RingInv, NEW res \in Seq(Elts), RangeOf(circle) \subseteq RangeOf(res)
  PROVE  Cardinality(RangeOf(circle)) <= Len(res)
<1> DEFINE D == 1..Len(res)
<1>1. IsFiniteSet(D) /\ Cardinality(D) = Len(res) /\ Len(res) \in Nat /\ DOMAIN res = D
  BY FS_Interval
<1> HIDE DEF D
<1>2. res \in Surjection(D, RangeOf(res))
  BY <1>1 DEF Surjection, RangeOf
<1>3. IsFiniteSet(RangeOf(res)) /\ Cardinality(RangeOf(res)) <= Cardinality(D)
  BY <1>1, <1>2, FS_Surjection
<1>4. IsFiniteSet(RangeOf(circle)) /\ Cardinality(RangeOf(circle)) <= Cardinality(RangeOf(res))
  BY <1>3, FS_Subset
<1> QED  BY <1>1, <1>3, <1>4, FS_CardinalityType

\* The first element of a lookup.
LEMMA FirstFound ==
  ASSUME RingInv, DOMAIN circle # {}, NEW key \in Hash
  PROVE  /\ Found(key, <<Elem(search(key))>>) /\ search(key) \in Places
         /\ search(key) + 1 \in 1..N
         /\ \A x \in Passed(search(key), search(key) + 1) :
              Elem(x) \in RangeOf(<<Elem(search(key))>>)
<1> DEFINE st == search(key)
<1>1. st \in Places /\ N \in Nat /\ 1 \in 1..N /\ Elem(st) \in Elts
  BY SearchSplits, PlacesOfRing DEF Places
<1>2. Found(key, << >>)
  BY DEF Found, NoTwice, ClosestFirst
<1>3. AppendNew(<< >>, Elem(st)) = <<Elem(st)>> /\ RangeOf(<< >>) = {}
  BY DEF AppendNew, RangeOf
<1>4. /\ Passed(st, st + 1) = {st} /\ st + 1 \in 1..N
      /\ \A y \in Places : y # st => Steps(st, st) < Steps(st, y)
  BY <1>1, WalkGoesOn
<1>5. Found(key, <<Elem(st)>>) /\ RangeOf(<<Elem(st)>>) = {Elem(st)}
  BY <1>1, <1>2, <1>3, <1>4, FoundGrows
<1> QED  BY <1>1, <1>4, <1>5

LEMMA EnterLooks ==
  ASSUME LookupInv, NEW r \in Readers, NEW key \in Hash, NEW op \in {"Get", "GetTwo", "GetN"},
         NEW asked \in Int, NEW n \in Nat, NEW satisfied,
         Enter(r, op, key, asked, n, satisfied),
         asked >= 1 /\ Owners >= 1 /\ CountSuits(op) =>
           IF satisfied THEN AtMostOwners(asked) = 1
                        ELSE n = AtMostCount(asked) /\ n # 1
  PROVE  reader'[r] \in ReaderState /\ Looking(reader'[r])
<1> DEFINE s == reader'[r]  e == Elem(search(key))
<1>1. /\ s = [pc |-> IF satisfied THEN "done" ELSE "walk", op |-> op, key |-> key,
              asked |-> asked, n |-> n, start |-> search(key), i |-> search(key) + 1,
              res |-> <<e>>]
      /\ DOMAIN circle # {}
  BY DEF Enter, LookupInv, ReaderType
<1>2. /\ Found(key, <<e>>) /\ search(key) \in Places /\ search(key) + 1 \in 1..N
      /\ \A x \in Passed(search(key), search(key) + 1) : Elem(x) \in RangeOf(<<e>>)
  BY <1>1, FirstFound DEF LookupInv
<1>3. search(key) \in Nat /\ search(key) + 1 \in Nat /\ <<e>> \in Seq(Elts) /\ Len(<<e>>) = 1
  <2>1. N \in Nat
    BY PlacesOfRing DEF LookupInv
  <2>2. search(key) \in Nat /\ search(key) + 1 \in Nat
    BY <1>2, <2>1 DEF Places
  <2> QED  BY <1>2, <2>2 DEF Found
<1>4. asked >= 1 /\ CountSuits(op) => IF satisfied THEN AtMostOwners(asked) = 1
                                                 ELSE n = AtMostCount(asked) /\ 1 < n
  <2> SUFFICES ASSUME asked >= 1, CountSuits(op)
               PROVE  IF satisfied THEN AtMostOwners(asked) = 1
                                   ELSE n = AtMostCount(asked) /\ 1 < n
    OBVIOUS
  <2>1. Owners \in Nat /\ Owners >= 1 /\ count \in Int
    BY <1>1, OwnersFinite DEF LookupInv, RingInv, RingType
  <2>2. count >= Owners
    BY <2>1 DEF CountSuits
  <2>3. AtMostCount(asked) >= 1
    BY <2>1, <2>2 DEF AtMostCount
  <2> QED  BY <2>1, <2>3
<1> HIDE DEF e
<1>5. s \in ReaderState
  <2> HIDE DEF s
  <2> QED  BY <1>1, <1>3 DEF ReaderState
<1>6. Looking(s)
  <2>1. /\ s.pc = (IF satisfied THEN "done" ELSE "walk") /\ s.op = op /\ s.key = key
        /\ s.asked = asked /\ s.n = n /\ s.start = search(key) /\ s.i = search(key) + 1
        /\ s.res = <<e>>
    BY <1>1
  <2> HIDE DEF s
  <2>2. s.pc = "walk" => Walking(s)
    BY <1>1, <1>2, <1>3, <1>4, <2>1 DEF Walking
  <2>3. s.pc = "done" => Answered(s)
    BY <1>2, <1>3, <1>4, <2>1 DEF Answered
  <2> QED  BY <2>2, <2>3 DEF Looking
<1> QED  BY <1>5, <1>6

LEMMA AroundLooks ==
  ASSUME LookupInv, NEW r \in Readers, Around(r)
  PROVE  reader'[r] \in ReaderState /\ Looking(reader'[r])
<1> DEFINE s == reader[r]  t == reader'[r]
<1>1. /\ s \in ReaderState /\ s.pc = "walk" /\ s.i = s.start /\ Walking(s)
      /\ reader' = [reader EXCEPT ![r].pc = "done",
           ![r].res = IF s.op = "GetTwo" THEN Append(@, Head(@)) ELSE @]
  BY DEF Around, LookupInv, ReaderType, LookupsRight, Looking
<1>2. /\ t = [s EXCEPT !.pc = "done",
              !.res = IF s.op = "GetTwo" THEN Append(s.res, Head(s.res)) ELSE s.res]
  BY <1>1 DEF LookupInv, ReaderType
<1> HIDE DEF s
<1>3. RangeOf(circle) \subseteq RangeOf(s.res)
  <2>1. N \in Nat /\ s.start \in Places /\ s.i \in 1..N
    BY <1>1, SearchSplits, PlacesOfRing DEF Walking, LookupInv, ReaderState
  <2>2. Passed(s.start, s.i) = Places
    BY <1>1, <2>1, WalkGoesOn
  <2>3. ASSUME NEW h \in DOMAIN circle PROVE circle[h] \in RangeOf(s.res)
    <3>1. PICK x \in Places : HashAt(x) = h
      BY PlacesOfRing DEF LookupInv
    <3> QED  BY <1>1, <2>2, <3>1, PlacesOfRing DEF Walking, LookupInv
  <2> QED  BY <2>3 DEF RangeOf
<1>4. s.res \in Seq(Elts) /\ s.res # << >>
  <2>1. s.res \in Seq(Elts)
    BY <1>1 DEF Walking, Found
  <2>2. RangeOf(circle) # {}
    BY <1>1 DEF Walking, RangeOf
  <2>3. RangeOf(<< >>) = {}
    BY DEF RangeOf
  <2> QED  BY <1>3, <2>1, <2>2, <2>3
<1>5. ASSUME s.asked >= 1, CountSuits(s.op)
      PROVE  s.op # "GetTwo" /\ Len(s.res) = AtMostOwners(s.asked)
  <2>1. Owners <= Len(s.res) /\ Len(s.res) <= Owners /\ Owners \in Nat /\ Len(s.res) \in Nat
    BY <1>1, <1>3, <1>4, AllFound, NoneTwice, OwnersFinite DEF LookupInv, Walking, Owners
  <2>2. s.n = AtMostCount(s.asked) /\ Len(s.res) < s.n
    BY <1>1, <1>5 DEF Walking
  <2>3. s.asked \in Int /\ count \in Int
    BY <1>1 DEF ReaderState, LookupInv, RingInv, RingType
  <2>4. Owners < AtMostCount(s.asked) /\ Len(s.res) = Owners
    BY <2>1, <2>2
  <2>5. Owners < count /\ Owners < s.asked
    BY <2>1, <2>3, <2>4 DEF AtMostCount
  <2>6. s.op # "GetTwo"
    BY <1>5, <2>1, <2>3, <2>5 DEF CountSuits
  <2> QED  BY <2>4, <2>5, <2>6 DEF AtMostOwners
<1>6. Append(s.res, Head(s.res)) \in Seq(Elts)
  <2>1. Head(s.res) \in Elts
    BY <1>4
  <2> QED  BY <1>4, <2>1
<1> DEFINE new == IF s.op = "GetTwo" THEN Append(s.res, Head(s.res)) ELSE s.res
<1>n. /\ new \in Seq(Elts) /\ (s.op # "GetTwo" => new = s.res)
      /\ t = [s EXCEPT !.pc = "done", !.res = new]
  BY <1>2, <1>4, <1>6
<1> HIDE DEF new, t
<1>7. /\ t.pc = "done" /\ t.op = s.op /\ t.key = s.key /\ t.asked = s.asked
      /\ t.op # "GetTwo" => t.res = s.res
      /\ t \in ReaderState
  <2>1. s \in ReaderState
    BY <1>1
  <2> QED  BY <1>n, <2>1 DEF ReaderState
<1>8. Looking(t)
  BY <1>1, <1>5, <1>7 DEF Looking, Answered, Walking
<1> QED  BY <1>7, <1>8 DEF t

LEMMA WalkOnLooks ==
  ASSUME LookupInv, NEW r \in Readers, WalkOn(r)
  PROVE  reader'[r] \in ReaderState /\ Looking(reader'[r])
<1> DEFINE s == reader[r]  t == reader'[r]  x == Wrapped(s.i)
           new == AppendNew(s.res, Elem(x))
<1>1. s \in ReaderState /\ s.pc = "walk" /\ s.i # s.start /\ Walking(s)
  BY DEF WalkOn, LookupInv, ReaderType, LookupsRight, Looking
<1>2. t = [s EXCEPT !.res = new,
             !.i  = IF Enough(new, s.n) THEN s.i ELSE x + 1,
             !.pc = IF Enough(new, s.n) THEN "done" ELSE "walk"]
  BY <1>1 DEF WalkOn, Wrapped, N, LookupInv, ReaderType
<1>3. /\ RingInv /\ DOMAIN circle # {} /\ s.key \in Hash /\ s.start = search(s.key)
      /\ s.start \in Places /\ s.i \in 1..N /\ N \in Nat /\ Found(s.key, s.res)
  BY <1>1, SearchSplits, PlacesOfRing DEF LookupInv, Walking, ReaderState
<1> HIDE DEF s
<1>4. /\ x \in Places /\ x + 1 \in 1..N
      /\ Passed(s.start, x + 1) \subseteq Passed(s.start, s.i) \cup {x}
      /\ \A y \in Places : y \notin Passed(s.start, s.i) /\ y # x =>
           Steps(s.start, x) < Steps(s.start, y)
  BY <1>1, <1>3, WalkGoesOn
<1>5. \A y \in Passed(s.start, s.i) : Elem(y) \in RangeOf(s.res)
  BY <1>1 DEF Walking
<1> HIDE DEF x
<1>6. /\ Found(s.key, new) /\ RangeOf(new) = RangeOf(s.res) \cup {Elem(x)}
      /\ Len(new) \in {Len(s.res), Len(s.res) + 1}
  BY <1>3, <1>4, <1>5, FoundGrows
<1>7. new \in Seq(Elts) /\ Len(new) \in Nat /\ Len(s.res) \in Nat /\ x + 1 \in Nat /\ s.n \in Nat
  <2>1. new \in Seq(Elts) /\ s.res \in Seq(Elts)
    BY <1>3, <1>6 DEF Found
  <2>2. s.n \in Nat
    BY <1>1 DEF ReaderState
  <2> QED  BY <1>3, <1>4, <2>1, <2>2
<1> HIDE DEF new
<1>8. \A y \in Passed(s.start, x + 1) : Elem(y) \in RangeOf(new)
  BY <1>4, <1>5, <1>6
<1>9. /\ t \in ReaderState
      /\ t.op = s.op /\ t.key = s.key /\ t.asked = s.asked /\ t.n = s.n
      /\ t.start = s.start /\ t.res = new
      /\ t.i = (IF Len(new) = s.n THEN s.i ELSE x + 1)
      /\ t.pc = (IF Len(new) = s.n THEN "done" ELSE "walk")
  BY <1>1, <1>2, <1>7 DEF ReaderState, Enough
<1>10. s.asked >= 1 /\ CountSuits(s.op) => s.n = AtMostCount(s.asked) /\ Len(s.res) < s.n
  BY <1>1 DEF Walking
<1> HIDE DEF t
<1>11. t.pc = "done" => Answered(t)
  <2> SUFFICES ASSUME t.pc = "done" PROVE Answered(t)
    OBVIOUS
  <2>1. Len(new) = s.n
    BY <1>9
  <2>2. ASSUME s.asked >= 1, CountSuits(s.op) PROVE Len(new) = AtMostOwners(s.asked)
    <3>1. Len(new) = AtMostCount(s.asked) /\ Len(new) <= Owners
      BY <1>3, <1>6, <1>10, <2>1, <2>2, NoneTwice
    <3>2. Owners \in Nat /\ count \in Int /\ s.asked \in Int
      BY <1>1, <1>3, OwnersFinite DEF ReaderState, RingInv, RingType
    <3>3. Owners <= count
      BY <2>2, <3>2 DEF CountSuits
    <3> QED  BY <1>7, <3>1, <3>2, <3>3 DEF AtMostCount, AtMostOwners
  <2> QED  BY <1>6, <1>9, <2>2 DEF Answered
<1>12. t.pc = "walk" => Walking(t)
  <2> SUFFICES ASSUME t.pc = "walk" PROVE Walking(t)
    OBVIOUS
  <2>1. Len(new) # s.n /\ t.i = x + 1
    BY <1>9
  <2>2. s.asked >= 1 /\ CountSuits(s.op) => Len(new) < s.n
    BY <1>6, <1>7, <1>10, <2>1
  <2> QED  BY <1>3, <1>4, <1>6, <1>8, <1>9, <1>10, <2>1, <2>2 DEF Walking
<1> QED  BY <1>9, <1>11, <1>12 DEF Looking, t

LEMMA EmptyLooks ==
  ASSUME LookupInv, NEW r \in Readers, NEW key \in Hash, EmptyCircle(r, key)
  PROVE  reader'[r] \in ReaderState /\ Looking(reader'[r])
<1> DEFINE s == [Idle EXCEPT !.pc = "done", !.key = key]
<1>1. reader'[r] = s
  BY DEF EmptyCircle, LookupInv, ReaderType
<1>2. s \in ReaderState /\ s.pc = "done" /\ s.asked = 0 /\ s.res = << >>
  <2>1. Idle \in ReaderState /\ Idle.asked = 0 /\ Idle.res = << >>
    BY PointsAssumption DEF Idle, ReaderState, Hash
  <2> QED  BY <2>1 DEF ReaderState
<1> HIDE DEF s
<1>3. Found(s.key, s.res)
  BY <1>2 DEF Found, NoTwice, ClosestFirst
<1> QED  BY <1>1, <1>2, <1>3 DEF Looking, Answered

LEMMA ReturnLooks ==
  ASSUME LookupInv, NEW r \in Readers, Return(r)
  PROVE  reader'[r] \in ReaderState /\ Looking(reader'[r])
<1>1. reader'[r] = Idle
  BY DEF Return, LookupInv, ReaderType
<1>2. Idle \in ReaderState /\ Idle.pc = "idle"
  BY PointsAssumption DEF Idle, ReaderState, Hash
<1> QED  BY <1>1, <1>2 DEF Looking

LEMMA GetNLooks ==
  ASSUME LookupInv, NEW r \in Readers, NEW key \in Hash, NEW n \in Int, GetN(r, key, n)
  PROVE  reader'[r] \in ReaderState /\ Looking(reader'[r])
<1>1. count \in Int /\ Owners \in Nat
  BY OwnersFinite DEF LookupInv, RingInv, RingType
<1>2. AtMostCount(n) \in Nat
  BY <1>1 DEF GetN, AtMostCount
<1>3. n >= 1 /\ Owners >= 1 /\ CountSuits("GetN") =>
        IF AtMostCount(n) = 1 THEN AtMostOwners(n) = 1
                              ELSE AtMostCount(n) = AtMostCount(n) /\ AtMostCount(n) # 1
  BY <1>1 DEF CountSuits, AtMostCount, AtMostOwners
<1> HIDE DEF AtMostCount
<1> QED  BY <1>2, <1>3, EnterLooks DEF GetN

LEMMA StepLooks ==
  ASSUME LookupInv, NEW r \in Readers, LookupStep(r)
  PROVE  reader'[r] \in ReaderState /\ Looking(reader'[r])
<1>c. count \in Int /\ Owners \in Nat
  BY OwnersFinite DEF LookupInv, RingInv, RingType
<1>1. ASSUME NEW key \in Hash, EmptyCircle(r, key)
      PROVE  reader'[r] \in ReaderState /\ Looking(reader'[r])
  BY <1>1, EmptyLooks
<1>2. ASSUME NEW key \in Hash, Get(r, key)
      PROVE  reader'[r] \in ReaderState /\ Looking(reader'[r])
  <2> DEFINE satisfied == TRUE
  <2>1. Enter(r, "Get", key, 1, 1, satisfied)
    BY <1>2 DEF Get
  <2>2. 1 >= 1 /\ Owners >= 1 /\ CountSuits("Get") =>
          IF satisfied THEN AtMostOwners(1) = 1 ELSE 1 = AtMostCount(1) /\ 1 # 1
    BY <1>c DEF AtMostOwners
  <2> HIDE DEF satisfied
  <2>3. "Get" \in {"Get", "GetTwo", "GetN"} /\ 1 \in Int /\ 1 \in Nat
    OBVIOUS
  <2> QED  BY <2>1, <2>2, <2>3, EnterLooks
<1>3. ASSUME NEW key \in Hash, GetTwo(r, key)
      PROVE  reader'[r] \in ReaderState /\ Looking(reader'[r])
  <2> DEFINE satisfied == count = 1
  <2>1. Enter(r, "GetTwo", key, 2, 2, satisfied)
    BY <1>3 DEF GetTwo
  <2>2. 2 >= 1 /\ Owners >= 1 /\ CountSuits("GetTwo") =>
          IF satisfied THEN AtMostOwners(2) = 1 ELSE 2 = AtMostCount(2) /\ 2 # 1
    BY <1>c DEF CountSuits, AtMostOwners, AtMostCount
  <2> HIDE DEF satisfied
  <2> QED  BY <2>1, <2>2, EnterLooks
<1>4. ASSUME NEW key \in Hash, NEW n \in -1..MaxN, GetN(r, key, n)
      PROVE  reader'[r] \in ReaderState /\ Looking(reader'[r])
  BY <1>4, GetNLooks, InputsAssumption
<1>5. ASSUME NEW key \in Hash, NEW n \in -1..MaxN, GetNPanics(r, key, n)
      PROVE  reader'[r] \in ReaderState /\ Looking(reader'[r])
  <2>1. reader'[r] = [reader[r] EXCEPT !.pc = "panic"] /\ reader[r] \in ReaderState
    BY <1>5 DEF GetNPanics, LookupInv, ReaderType
  <2>2. reader'[r] \in ReaderState /\ reader'[r].pc = "panic"
    BY <2>1 DEF ReaderState
  <2> QED  BY <2>2 DEF Looking
<1> QED
  BY <1>1, <1>2, <1>3, <1>4, <1>5, ReturnLooks, AroundLooks, WalkOnLooks DEF LookupStep

-----------------------------------------------------------------------------
(* The lookups among the changes *)

LEMMA LookingAt == UNCHANGED ring => \A s : Looking(s)' <=> Looking(s)
BY DEF ring, Looking, Walking, Answered, Found, ClosestFirst, Nearer, CountSuits,
       AtMostOwners, AtMostCount, Owners, Passed, Places, N, Elem, search, RangeOf

\* A step touches one lookup and not the ring.
LEMMA WhoseLookup ==
  ASSUME NEW r \in Readers, LookupStep(r), ReaderType
  PROVE  /\ UNCHANGED <<ring, writer>>
         /\ \A q \in Readers : q # r => reader'[q] = reader[q]
         /\ \E s : reader' = [reader EXCEPT ![r] = s]
<1>1. UNCHANGED <<ring, writer>>
  BY DEF LookupStep, EmptyCircle, Get, GetTwo, GetN, GetNPanics, Enter, Around, WalkOn,
         Return
<1>2. \E s : reader' = [reader EXCEPT ![r] = s]
  BY DEF LookupStep, EmptyCircle, Get, GetTwo, GetN, GetNPanics, Enter, Around, WalkOn,
         Return
<1> QED  BY <1>1, <1>2 DEF ReaderType

LEMMA InitLookupInv == Init => LookupInv
<1> SUFFICES ASSUME Init PROVE LookupInv
  OBVIOUS
<1>1. Idle \in ReaderState /\ Idle.pc = "idle"
  BY InputsAssumption, PointsAssumption DEF Idle, ReaderState, Hash
<1>2. ReaderType /\ LookupsRight
  BY <1>1 DEF Init, ReaderType, LookupsRight, Looking
<1> QED  BY <1>2, InitRingInv DEF LookupInv

\* A change under the write lock finds no lookup inside.
LEMMA ChangeLeavesLookups ==
  ASSUME LookupInv, NEW w \in Writers, ChangeStep(w)
  PROVE  ReaderType' /\ LookupsRight'
<1>1. reader' = reader
  BY DEF ChangeStep, AddCall, RemoveCall, SetCall, AddLocked, RemoveLocked, SetDrop,
         SetCheck, Finish
<1>2. ReaderType'
  BY <1>1 DEF LookupInv, ReaderType
<1>3. CASE AddLocked(w) \/ RemoveLocked(w)
  <2>1. \A r \in Readers : reader[r].pc \notin {"walk", "done"}
    BY <1>3 DEF AddLocked, RemoveLocked, ReadersInside
  <2> QED  BY <1>1, <1>2, <2>1 DEF LookupsRight, Looking
<1>4. CASE ~AddLocked(w) /\ ~RemoveLocked(w)
  <2>1. UNCHANGED ring
    BY <1>4 DEF ChangeStep, AddCall, RemoveCall, SetCall, SetDrop, SetCheck, Finish
  <2>2. \A r \in Readers : Looking(reader'[r])
    BY <1>1 DEF LookupInv, LookupsRight
  <2> QED  BY <1>2, <2>1, <2>2, LookingAt DEF LookupsRight
<1> QED  BY <1>3, <1>4

\* A step of one lookup that leaves it right and the ring alone.
LEMMA LookupGoesOn ==
  ASSUME LookupInv, NEW r \in Readers, UNCHANGED <<ring, writer>>,
         \E s : reader' = [reader EXCEPT ![r] = s],
         reader'[r] \in ReaderState, Looking(reader'[r])
  PROVE  LookupInv'
<1>1. \A q \in Readers : q # r => reader'[q] = reader[q]
  BY DEF LookupInv, ReaderType
<1>2. ReaderType'
  BY <1>1 DEF LookupInv, ReaderType
<1>3. \A q \in Readers : Looking(reader'[q])
  BY <1>1 DEF LookupInv, LookupsRight
<1>4. LookupsRight'
  BY <1>3, LookingAt DEF LookupsRight
<1>5. RingInv'
  BY RingUntouched DEF LookupInv, RingInv, WriterType
<1> QED  BY <1>2, <1>4, <1>5 DEF LookupInv

\* Add while nobody looks up.
LEMMA AddBetweenLookups ==
  ASSUME LookupInv, NEW e \in Elts, Add(e), UNCHANGED <<reader, writer>>, ~ReadersInside
  PROVE  LookupInv'
<1>1. RingInv'
  BY AddKeeps DEF LookupInv, RingInv, WriterType
<1>2. ReaderType' /\ LookupsRight'
  BY DEF LookupInv, ReaderType, LookupsRight, Looking, ReadersInside
<1> QED  BY <1>1, <1>2 DEF LookupInv

LEMMA NextLookupInv == LookupInv /\ [Next]_vars => LookupInv'
<1> SUFFICES ASSUME LookupInv, [Next]_vars PROVE LookupInv'
  OBVIOUS
<1>r. RingInv'
  BY NextRingInv DEF LookupInv
<1>1. ASSUME NEW r \in Readers, LookupStep(r) PROVE LookupInv'
  <2>1. /\ UNCHANGED <<ring, writer>>
        /\ \E s : reader' = [reader EXCEPT ![r] = s]
    BY <1>1, WhoseLookup DEF LookupInv
  <2>2. reader'[r] \in ReaderState /\ Looking(reader'[r])
    BY <1>1, StepLooks
  <2> QED  BY <2>1, <2>2, LookupGoesOn
<1>2. ASSUME NEW w \in Writers, ChangeStep(w) PROVE ReaderType' /\ LookupsRight'
  BY <1>2, ChangeLeavesLookups
<1>3. CASE UNCHANGED vars
  <2>1. reader' = reader
    BY <1>3 DEF vars
  <2>2. UNCHANGED ring
    BY <1>3 DEF vars, ring
  <2>3. \A r \in Readers : Looking(reader'[r])
    BY <2>1 DEF LookupInv, LookupsRight
  <2>4. ReaderType'
    BY <2>1 DEF LookupInv, ReaderType
  <2> QED  BY <1>r, <2>2, <2>3, <2>4, LookingAt DEF LookupsRight, LookupInv
<1> QED  BY <1>r, <1>1, <1>2, <1>3 DEF Next, LookupInv

LEMMA LookupInvariant == Spec => []LookupInv
BY InitLookupInv, NextLookupInv, PTL DEF Spec

\* What a Get or GetN inside has found is the beginning of the list of elements
\* clockwise of the name, whatever the hashes, the ring and the writers.
THEOREM ClosestFound == Spec => []GetNClosest
<1>1. LookupInv => GetNClosest
  BY DEF LookupInv, LookupsRight, Looking, Walking, Answered, Found, GetNClosest
<1> QED  BY <1>1, LookupInvariant, PTL

\* Where count is no less than the elements with a hash, GetN answers as many as
\* asked for or all of them, and where it is their number GetTwo two or the only
\* one, the closest first.
THEOREM AnswersComplete == Spec => []AnswerComplete
<1>1. LookupInv => AnswerComplete
  BY DEF LookupInv, LookupsRight, Looking, Answered, Found, AnswerComplete, CountSuits,
         AtMostOwners, Owners
<1> QED  BY <1>1, LookupInvariant, PTL

\* How many elements a lookup was asked for.
AskedBound == \A r \in Readers : reader[r].asked \in -1..MaxN \cup {1, 2}

LEMMA NextAskedBound == LookupInv /\ AskedBound /\ [Next]_vars => AskedBound'
<1> SUFFICES ASSUME LookupInv, AskedBound, [Next]_vars PROVE AskedBound'
  OBVIOUS
<1>i. Idle.asked = 0 /\ 0 \in -1..MaxN
  BY InputsAssumption DEF Idle
<1>1. ASSUME NEW r \in Readers, LookupStep(r) PROVE AskedBound'
  <2>1. /\ \A q \in Readers : q # r => reader'[q] = reader[q]
        /\ \E s : reader' = [reader EXCEPT ![r] = s]
    BY <1>1, WhoseLookup DEF LookupInv
  <2>2. reader[r].asked \in -1..MaxN \cup {1, 2} /\ reader[r] \in ReaderState
    BY DEF AskedBound, LookupInv, ReaderType
  <2>3. reader'[r].asked \in -1..MaxN \cup {1, 2}
    <3>1. ASSUME NEW key \in Hash, EmptyCircle(r, key) \/ Get(r, key) \/ GetTwo(r, key)
          PROVE  reader'[r].asked \in {0, 1, 2}
      <4>1. [Idle EXCEPT !.pc = "done", !.key = key].asked = 0
        BY DEF Idle
      <4>2. CASE EmptyCircle(r, key)
        BY <4>1, <4>2 DEF EmptyCircle, LookupInv, ReaderType
      <4>3. CASE Get(r, key)
        BY <4>3 DEF Get, Enter, LookupInv, ReaderType
      <4>4. CASE GetTwo(r, key)
        BY <4>4 DEF GetTwo, Enter, LookupInv, ReaderType
      <4> QED  BY <3>1, <4>2, <4>3, <4>4
    <3>2. ASSUME NEW key \in Hash, NEW n \in -1..MaxN, GetN(r, key, n)
          PROVE  reader'[r].asked = n
      BY <3>2 DEF GetN, Enter, LookupInv, ReaderType
    <3>3. ASSUME NEW key \in Hash, NEW n \in -1..MaxN, GetNPanics(r, key, n)
          PROVE  reader'[r].asked = reader[r].asked
      BY <2>2, <3>3 DEF GetNPanics, LookupInv, ReaderType, ReaderState
    <3>4. CASE Around(r)
      BY <2>2, <3>4 DEF Around, LookupInv, ReaderType, ReaderState
    <3>5. CASE WalkOn(r)
      BY <2>2, <3>5 DEF WalkOn, LookupInv, ReaderType, ReaderState
    <3>6. CASE Return(r)
      BY <1>i, <3>6 DEF Return, LookupInv, ReaderType
    <3> QED  BY <1>1, <1>i, <2>2, <3>1, <3>2, <3>3, <3>4, <3>5, <3>6 DEF LookupStep
  <2> QED  BY <2>1, <2>3 DEF AskedBound
<1>2. ASSUME NEW w \in Writers, ChangeStep(w) PROVE reader' = reader
  BY <1>2 DEF ChangeStep, AddCall, RemoveCall, SetCall, AddLocked, RemoveLocked, SetDrop,
              SetCheck, Finish
<1>3. reader' = reader => AskedBound'
  BY DEF AskedBound
<1> QED  BY <1>1, <1>2, <1>3 DEF Next, vars

LEMMA AskedInvariant == Spec => []AskedBound
<1>1. Init => AskedBound
  <2>1. Idle.asked = 0 /\ 0 \in -1..MaxN
    BY InputsAssumption DEF Idle
  <2> QED  BY <2>1 DEF Init, AskedBound
<1> QED  BY <1>1, LookupInvariant, NextAskedBound, PTL DEF Spec

\* The ring's type, the index of a lookup within the sorted hashes included.
THEOREM RingTypeCorrect == ASSUME Elts # {} PROVE Spec => []TypeOK
<1>1. LookupInv /\ AskedBound => TypeOK
  <2> SUFFICES ASSUME LookupInv, AskedBound PROVE TypeOK
    OBVIOUS
  <2>1. /\ DOMAIN circle \subseteq Hash /\ RangeOf(circle) \subseteq Elts
        /\ members \subseteq Elts /\ sortedHashes \in Seq(Hash) /\ count \in Int
    BY DEF LookupInv, RingInv, RingType, RangeOf
  <2>2. /\ reader \in [Readers -> ReaderState]
        /\ \A r \in Readers : reader[r].asked \in -1..MaxN \cup {1, 2}
    BY DEF LookupInv, ReaderType, AskedBound
  <2>3. ASSUME NEW r \in Readers, reader[r].pc = "walk"
        PROVE  reader[r].start < Len(sortedHashes) /\ reader[r].i <= Len(sortedHashes)
    <3>1. Walking(reader[r]) /\ reader[r].key \in Hash
      BY <2>2, <2>3 DEF LookupInv, LookupsRight, Looking, ReaderState
    <3>2. reader[r].start \in Places /\ reader[r].i \in 1..N /\ N \in Nat
      BY <3>1, SearchSplits, PlacesOfRing DEF Walking, LookupInv
    <3> QED  BY <3>2 DEF Places, N
  <2>4. Elts \cup {Rest.elt} = Elts
    BY DEF Rest
  <2>5. writer \in [Writers -> [pc : {"idle", "set", "add", "remove"},
          op : {"Set", "Add", "Remove"}, elt : Elts, elts : Seq(Elts),
          drop : SUBSET Elts, todo : Seq(Elts)]]
    BY <2>4 DEF LookupInv, RingInv, WriterType, WriterState
  <2> QED  BY <2>1, <2>2, <2>3, <2>5 DEF TypeOK, ReaderState
<1> QED  BY <1>1, LookupInvariant, AskedInvariant, PTL
=============================================================================
