-------------------------- MODULE ConnectionProofs --------------------------
(***************************************************************************)
(* Theorems about process_connection's reading, for every client, every    *)
(* text it writes, every size of the buffer and every deadline: parse gets *)
(* the client's lines, only the last field of the last one is ever cut,    *)
(* and the deadline counts only the waiting for a line.                    *)
(***************************************************************************)
EXTENDS Connection, TLAPS, FiniteSetTheorems, SequenceTheorems

-----------------------------------------------------------------------------
(* The read deadline *)

\* While the handler scans, the ticks it has waited for a line and those left
\* until the deadline add up to the whole of it: parse's return sets both anew,
\* and what passes while parse is blocked counts for neither.
Clock ==
  /\ pc \in {"scan", "parse", "closed"}
  /\ left \in Nat /\ waited \in Nat
  /\ pc = "scan" => left + waited = Deadline

LEMMA InitClock == Init => Clock
BY ConnectionAssumption DEF Init, Clock

LEMMA NextClock == Clock /\ [Next]_vars => Clock'
<1> SUFFICES ASSUME Clock, [Next]_vars PROVE Clock'  OBVIOUS
<1> USE DEF Clock
<1>1. CASE Write \/ Hangup
  BY <1>1 DEF Write, Hangup, handler
<1>2. CASE Split
  BY <1>2 DEF Split
<1>3. CASE Read \/ ReadFails \/ SocketError
  BY <1>3 DEF Read, ReadFails, SocketError
<1>4. CASE Close
  BY <1>4 DEF Close
<1>5. CASE Parse
  BY <1>5, ConnectionAssumption DEF Parse, RenewDeadline
<1>6. CASE Tick
  BY <1>6 DEF Tick, handler
<1>7. CASE UNCHANGED vars
  BY <1>7 DEF vars, handler
<1> QED  BY <1>1, <1>2, <1>3, <1>4, <1>5, <1>6, <1>7 DEF Next

\* Only a read whose deadline has passed ends in a timeout.
LEMMA TimeoutIsExpired ==
  ASSUME Clock, [Next]_vars, err = "none", err' = "timeout"
  PROVE  waited = Deadline
<1>1. ReadFails
  BY DEF Next, vars, handler, Write, Hangup, Split, Read, SocketError, Close, Parse, Tick
<1>2. pc = "scan" /\ left = 0
  BY <1>1 DEF ReadFails, MustRead, Expired
<1> QED  BY <1>2 DEF Clock

\* A client is cut off only after the handler has waited for a line from it for
\* the whole deadline, however long parse was blocked before.
THEOREM TimeoutOnlyForSilence == Spec => TimeoutEarned
<1>1. Spec => []Clock
  BY InitClock, NextClock, PTL DEF Spec
<1>2. Clock /\ [Next]_vars => [err = "none" /\ err' = "timeout" => waited = Deadline]_vars
  BY TimeoutIsExpired
<1> QED  BY <1>1, <1>2, PTL DEF Spec, TimeoutEarned

-----------------------------------------------------------------------------
(* Ranks in a finite set of numbers *)

LEMMA RankType ==
  ASSUME NEW S, S \subseteq Int, IsFiniteSet(S), NEW x \in S
  PROVE  Rank(S, x) \in 0..(Cardinality(S) - 1)
<1> DEFINE B == {y \in S : y < x}
<1>1. B \cup {x} \subseteq S /\ x \notin B
  OBVIOUS
<1>2. IsFiniteSet(B)
  BY <1>1, FS_Subset
<1>3. Cardinality(B \cup {x}) = Cardinality(B) + 1
  BY <1>1, <1>2, FS_AddElement
<1>4. Cardinality(B \cup {x}) <= Cardinality(S)
  BY <1>1, FS_Subset
<1>5. Cardinality(B) \in Nat /\ Cardinality(S) \in Nat
  BY <1>2, FS_CardinalityType
<1>6. Rank(S, x) = Cardinality(B)
  BY DEF Rank
<1> HIDE DEF B
<1> QED  BY <1>3, <1>4, <1>5, <1>6

\* A member and the next one: the rank goes up by one.
LEMMA RankNext ==
  ASSUME NEW S, S \subseteq Int, IsFiniteSet(S), NEW x \in S, NEW y \in Int,
         x < y, \A z \in S : z <= x \/ y <= z
  PROVE  Rank(S, y) = Rank(S, x) + 1
<1> DEFINE B == {z \in S : z < x}
<1>1. {z \in S : z < y} = B \cup {x} /\ x \notin B /\ B \subseteq S
  <2>1. x \in Int /\ \A z \in S : z \in Int
    OBVIOUS
  <2>2. ~(x < x) /\ \A z \in S : z < y <=> z < x \/ z = x
    BY <2>1
  <2>3. {z \in S : z < y} = B \cup {x}
    BY <2>2
  <2>4. x \notin B /\ B \subseteq S
    BY <2>2
  <2> QED  BY <2>3, <2>4
<1>2. IsFiniteSet(B)
  BY <1>1, FS_Subset
<1>3. Cardinality(B \cup {x}) = Cardinality(B) + 1
  BY <1>1, <1>2, FS_AddElement
<1>4. Rank(S, x) = Cardinality(B) /\ Rank(S, y) = Cardinality(B \cup {x})
  BY <1>1 DEF Rank
<1> QED  BY <1>3, <1>4

LEMMA RankGrows ==
  ASSUME NEW S, S \subseteq Int, IsFiniteSet(S), NEW x \in S, NEW y \in S, x < y
  PROVE  Rank(S, x) < Rank(S, y)
<1> DEFINE B == {z \in S : z < x}  D == {z \in S : z < y}
<1>1. B \cup {x} \subseteq D /\ x \notin B /\ D \subseteq S
  <2>1. x \in Int /\ y \in Int /\ \A z \in S : z \in Int
    OBVIOUS
  <2>2. ~(x < x) /\ \A z \in S : z < x \/ z = x => z < y
    BY <2>1
  <2>3. B \cup {x} \subseteq D
    BY <2>2
  <2> QED  BY <2>2, <2>3
<1>2. IsFiniteSet(D)
  BY <1>1, FS_Subset
<1>3. IsFiniteSet(B) /\ Cardinality(B \cup {x}) <= Cardinality(D)
  BY <1>1, <1>2, FS_Subset
<1>4. Cardinality(B \cup {x}) = Cardinality(B) + 1
  BY <1>1, <1>3, FS_AddElement
<1>5. Cardinality(B) \in Nat /\ Cardinality(D) \in Nat
  BY <1>2, <1>3, FS_CardinalityType
<1>6. Rank(S, x) = Cardinality(B) /\ Rank(S, y) = Cardinality(D)
  BY DEF Rank
<1> HIDE DEF B, D
<1> QED  BY <1>3, <1>4, <1>5, <1>6

LEMMA RankInjective ==
  ASSUME NEW S, S \subseteq Int, IsFiniteSet(S), NEW x \in S, NEW y \in S,
         Rank(S, x) = Rank(S, y)
  PROVE  x = y
<1>1. x \in Int /\ y \in Int /\ Cardinality(S) \in Nat
  BY FS_CardinalityType
<1>2. Rank(S, x) \in Int /\ Rank(S, y) \in Int
  <2>1. Rank(S, x) \in 0..(Cardinality(S) - 1) /\ Rank(S, y) \in 0..(Cardinality(S) - 1)
    BY RankType
  <2> QED  BY <1>1, <2>1
<1>3. x < y => Rank(S, x) < Rank(S, y)
  BY RankGrows
<1>4. y < x => Rank(S, y) < Rank(S, x)
  BY RankGrows
<1> QED  BY <1>1, <1>2, <1>3, <1>4

LEMMA NthOfRank ==
  ASSUME NEW S, S \subseteq Int, IsFiniteSet(S), NEW x \in S
  PROVE  Nth(S, Rank(S, x)) = x
BY RankInjective DEF Nth

\* Every rank is some member's: ranks are injective into as many as there are.
LEMMA NthMember ==
  ASSUME NEW S, S \subseteq Int, IsFiniteSet(S), NEW k \in 0..(Cardinality(S) - 1)
  PROVE  Nth(S, k) \in S /\ Rank(S, Nth(S, k)) = k
<1> DEFINE T == 0..(Cardinality(S) - 1)
           f == [x \in S |-> Rank(S, x)]
<1>1. Cardinality(S) \in Nat
  BY FS_CardinalityType
<1>2. IsFiniteSet(T) /\ Cardinality(T) = Cardinality(S)
  BY <1>1, FS_Interval
<1>3. f \in [S -> T]
  BY RankType
<1>4. ASSUME NEW x \in S, NEW y \in S, f[x] = f[y] PROVE x = y
  BY <1>4, RankInjective
<1>5. f \in Injection(S, T)
  BY <1>3, <1>4 DEF Injection, IsInjective
<1>6. f \in Surjection(S, T)
  BY <1>2, <1>5, FS_Injection
<1>7. \E x \in S : Rank(S, x) = k
  BY <1>6 DEF Surjection
<1> QED  BY <1>7 DEF Nth

Upto(S, m) == {x \in S : x <= m}

\* Cutting off the larger members changes no rank of the others.
LEMMA RankUpto ==
  ASSUME NEW S, S \subseteq Int, NEW m \in Int, NEW x \in Upto(S, m)
  PROVE  Rank(Upto(S, m), x) = Rank(S, x)
<1>1. \A y \in S : y < x => y <= m
  BY DEF Upto
<1>2. {y \in Upto(S, m) : y < x} = {y \in S : y < x}
  BY <1>1 DEF Upto
<1> QED  BY <1>2 DEF Rank

LEMMA NthUpto ==
  ASSUME NEW S, S \subseteq Int, IsFiniteSet(S), NEW m \in Int,
         NEW k \in 0..(Cardinality(Upto(S, m)) - 1)
  PROVE  /\ Nth(Upto(S, m), k) = Nth(S, k)
         /\ Nth(S, k) \in Upto(S, m)
         /\ k \in 0..(Cardinality(S) - 1)
<1>1. Upto(S, m) \subseteq S /\ Upto(S, m) \subseteq Int /\ IsFiniteSet(Upto(S, m))
  <2>1. Upto(S, m) \subseteq S
    BY DEF Upto
  <2> QED  BY <2>1, FS_Subset
<1> DEFINE x == Nth(Upto(S, m), k)
<1>2. x \in Upto(S, m) /\ Rank(Upto(S, m), x) = k
  BY <1>1, NthMember
<1>3. Rank(S, x) = k
  BY <1>2, RankUpto
<1>4. x \in S
  BY <1>1, <1>2
<1> HIDE DEF x
<1>5. Nth(S, k) = x
  BY <1>3, <1>4, NthOfRank
<1>6. Rank(S, x) \in 0..(Cardinality(S) - 1)
  BY <1>4, RankType
<1> QED  BY <1>2, <1>3, <1>5, <1>6 DEF x

-----------------------------------------------------------------------------
(* The lines of a text *)

LEMMA BreaksFinite ==
  ASSUME NEW C, NEW s \in Seq(C)
  PROVE  /\ Breaks(s) \subseteq 0..Len(s) /\ Breaks(s) \subseteq Int
         /\ IsFiniteSet(Breaks(s)) /\ Cardinality(Breaks(s)) \in Nat \ {0}
         /\ 0 \in Breaks(s)
<1>1. Len(s) \in Nat /\ DOMAIN s = 1..Len(s)
  OBVIOUS
<1>2. Breaks(s) \subseteq 0..Len(s) /\ 0 \in Breaks(s)
  BY <1>1 DEF Breaks
<1>3. IsFiniteSet(0..Len(s))
  BY <1>1, FS_Interval
<1>4. IsFiniteSet(Breaks(s))
  BY <1>2, <1>3, FS_Subset
<1>5. Breaks(s) \subseteq Int
  BY <1>2
<1>6. Cardinality(Breaks(s)) \in Nat /\ Cardinality(Breaks(s)) # 0
  BY <1>2, <1>4, FS_CardinalityType, FS_EmptySet
<1> QED  BY <1>2, <1>4, <1>5, <1>6

LEMMA DropCRType ==
  ASSUME NEW C, NEW s \in Seq(C)
  PROVE  DropCR(s) \in Seq(C)
BY DEF DropCR, Front, Last

LEMMA LinesType ==
  ASSUME NEW C, NEW s \in Seq(C)
  PROVE  /\ LinesOf(s) \in Seq(Seq(C))
         /\ Len(LinesOf(s)) = Cardinality(Breaks(s)) - 1
         /\ DOMAIN LinesOf(s) = 1..(Cardinality(Breaks(s)) - 1)
<1> DEFINE n == Cardinality(Breaks(s)) - 1
<1>1. n \in Nat
  BY BreaksFinite
<1>2. \A k \in 1..n : LinesOf(s)[k] \in Seq(C)
  <2> TAKE k \in 1..n
  <2>1. k \in 0..(Cardinality(Breaks(s)) - 1) /\ k - 1 \in 0..(Cardinality(Breaks(s)) - 1)
    BY BreaksFinite
  <2>2. Nth(Breaks(s), k) \in Breaks(s) /\ Nth(Breaks(s), k - 1) \in Breaks(s)
    BY <2>1, BreaksFinite, NthMember
  <2> DEFINE a == Nth(Breaks(s), k - 1) + 1  b == Nth(Breaks(s), k) - 1
  <2>3. Len(s) \in Nat /\ a \in 1..(Len(s) + 1) /\ b \in -1..(Len(s) - 1)
    BY <2>2, BreaksFinite
  <2> HIDE DEF a, b
  <2>4. SubSeq(s, a, b) \in Seq(C)
    BY <2>3
  <2>5. LinesOf(s)[k] = DropCR(SubSeq(s, a, b))
    BY DEF LinesOf, a, b
  <2> QED  BY <2>4, <2>5, DropCRType
<1>3. LinesOf(s) = [k \in 1..n |-> LinesOf(s)[k]]
  BY DEF LinesOf
<1> HIDE DEF n
<1>4. LinesOf(s) \in Seq(Seq(C)) /\ Len(LinesOf(s)) = n /\ DOMAIN LinesOf(s) = 1..n
  BY <1>1, <1>2, <1>3
<1> QED  BY <1>4 DEF n

\* What lies between two neighbouring breaks is a line, and its number is the
\* rank of the break that ends it.
LEMMA LineBetween ==
  ASSUME NEW C, NEW s \in Seq(C), NEW a \in Breaks(s), NEW b \in Breaks(s),
         a < b, \A z \in Breaks(s) : z <= a \/ b <= z
  PROVE  /\ Rank(Breaks(s), b) = Rank(Breaks(s), a) + 1
         /\ Rank(Breaks(s), b) \in 1..(Cardinality(Breaks(s)) - 1)
         /\ LinesOf(s)[Rank(Breaks(s), b)] = DropCR(SubSeq(s, a + 1, b - 1))
<1> DEFINE B == Breaks(s)
<1>1. B \subseteq Int /\ IsFiniteSet(B) /\ a \in Int /\ b \in Int
  BY BreaksFinite
<1>2. Rank(B, b) = Rank(B, a) + 1
  BY <1>1, RankNext
<1>3. Rank(B, a) \in 0..(Cardinality(B) - 1) /\ Rank(B, b) \in 0..(Cardinality(B) - 1)
  BY <1>1, RankType
<1>4. Rank(B, b) \in 1..(Cardinality(B) - 1) /\ Rank(B, b) - 1 = Rank(B, a)
  BY <1>2, <1>3, BreaksFinite
<1>5. Nth(B, Rank(B, b)) = b /\ Nth(B, Rank(B, b) - 1) = a
  BY <1>1, <1>4, NthOfRank
<1>6. LinesOf(s)[Rank(B, b)] = DropCR(SubSeq(s, a + 1, b - 1))
  BY <1>4, <1>5 DEF LinesOf
<1> QED  BY <1>2, <1>4, <1>6

\* The breaks and the lines of the beginning of a text are the first ones of it.
LEMMA BreaksOfPrefix ==
  ASSUME NEW C, NEW s \in Seq(C), NEW m \in 0..Len(s)
  PROVE  Breaks(SubSeq(s, 1, m)) = Upto(Breaks(s), m)
<1> DEFINE p == SubSeq(s, 1, m)
<1>1. Len(s) \in Nat /\ m \in Nat /\ m <= Len(s)
  OBVIOUS
<1>2. p \in Seq(C) /\ DOMAIN p = 1..m /\ DOMAIN s = 1..Len(s) /\ \A i \in 1..m : p[i] = s[i]
  BY <1>1
<1> HIDE DEF p
<1>3. \A x : x \in 1..m <=> x \in 1..Len(s) /\ x <= m
  BY <1>1
<1>4. Breaks(p) = Upto(Breaks(s), m)
  BY <1>1, <1>2, <1>3 DEF Breaks, Upto
<1> QED  BY <1>4 DEF p

LEMMA LinesOfPrefix ==
  ASSUME NEW C, NEW s \in Seq(C), NEW m \in 0..Len(s),
         NEW k \in DOMAIN LinesOf(SubSeq(s, 1, m))
  PROVE  k \in DOMAIN LinesOf(s) /\ LinesOf(SubSeq(s, 1, m))[k] = LinesOf(s)[k]
<1> DEFINE p == SubSeq(s, 1, m)  B == Breaks(s)
<1>1. Len(s) \in Nat /\ m \in Nat /\ m <= Len(s) /\ p \in Seq(C)
  OBVIOUS
<1>2. Breaks(p) = Upto(B, m)
  BY BreaksOfPrefix
<1>3. DOMAIN LinesOf(p) = 1..(Cardinality(Upto(B, m)) - 1)
      /\ DOMAIN LinesOf(s) = 1..(Cardinality(B) - 1)
  BY <1>1, <1>2, LinesType
<1>4. B \subseteq Int /\ IsFiniteSet(B) /\ Cardinality(B) \in Nat
      /\ Cardinality(Upto(B, m)) \in Nat
  BY <1>1, <1>2, BreaksFinite
<1>5. k \in 0..(Cardinality(Upto(B, m)) - 1) /\ k - 1 \in 0..(Cardinality(Upto(B, m)) - 1)
      /\ k >= 1
  BY <1>3, <1>4
<1>6. /\ Nth(Upto(B, m), k) = Nth(B, k) /\ Nth(B, k) \in Upto(B, m)
      /\ Nth(Upto(B, m), k - 1) = Nth(B, k - 1) /\ Nth(B, k - 1) \in Upto(B, m)
      /\ k \in 0..(Cardinality(B) - 1)
  BY <1>1, <1>4, <1>5, NthUpto
<1>7. k \in DOMAIN LinesOf(s)
  BY <1>3, <1>4, <1>5, <1>6
<1> DEFINE a == Nth(B, k - 1) + 1  b == Nth(B, k) - 1
<1>8. a \in Nat \ {0} /\ b \in Int /\ b <= m
  BY <1>1, <1>6, BreaksFinite DEF Upto
<1>9. LinesOf(p)[k] = DropCR(SubSeq(p, a, b)) /\ LinesOf(s)[k] = DropCR(SubSeq(s, a, b))
  BY <1>2, <1>3, <1>6, <1>7 DEF LinesOf
<1> HIDE DEF a, b
<1>10. SubSeq(p, a, b) = SubSeq(s, a, b)
  BY <1>1, <1>8
<1> QED  BY <1>7, <1>9, <1>10

LEMMA NextMember ==
  ASSUME NEW S, S \subseteq Int, IsFiniteSet(S), NEW u \in S, \E z \in S : ~(z <= u)
  PROVE  \E b \in S : u < b /\ \A z \in S : z <= u \/ b <= z
<1> DEFINE n == Cardinality(S)
<1>1. n \in Nat /\ \A z \in S : z \in Int
  BY FS_CardinalityType
<1>2. \A z \in S : Rank(S, z) \in 0..(n - 1)
  BY RankType
<1>3. \A y, z \in S : y < z => Rank(S, y) < Rank(S, z)
  BY RankGrows
<1>4. PICK z \in S : u < z
  BY <1>1
<1>5. Rank(S, u) + 1 \in 0..(n - 1)
  BY <1>1, <1>2, <1>3, <1>4
<1> DEFINE b == Nth(S, Rank(S, u) + 1)
<1>6. b \in S /\ Rank(S, b) = Rank(S, u) + 1
  BY <1>5, NthMember
<1> HIDE DEF b, n
<1>7. u < b
  <2>1. Rank(S, u) \in Int  BY <1>1, <1>2
  <2>2. ~(b < u) /\ b # u  BY <2>1, <1>3, <1>6
  <2> QED  BY <1>1, <1>6, <2>2
<1>8. ASSUME NEW y \in S PROVE y <= u \/ b <= y
  <2>1. Rank(S, u) \in Int /\ Rank(S, y) \in Int  BY <1>1, <1>2
  <2>2. ~(u < y /\ y < b)  BY <2>1, <1>3, <1>6
  <2> QED  BY <1>1, <1>6, <2>2
<1> QED  BY <1>6, <1>7, <1>8

\* The lines that end at u or before.
LinesTo(s, u) == SubSeq(LinesOf(s), 1, Rank(Breaks(s), u))

LEMMA LinesToPrefix ==
  ASSUME NEW C, NEW s \in Seq(C), NEW u \in Breaks(s)
  PROVE  /\ Rank(Breaks(s), u) \in 0..Len(LinesOf(s))
         /\ LinesTo(s, u) \in Seq(Seq(C))
         /\ Len(LinesTo(s, u)) = Rank(Breaks(s), u)
         /\ IsPrefix(LinesTo(s, u), LinesOf(s))
<1> DEFINE l == LinesOf(s)  r == Rank(Breaks(s), u)
<1>1. r \in 0..Len(l) /\ l \in Seq(Seq(C))
  <2>1. r \in 0..(Cardinality(Breaks(s)) - 1)
    BY BreaksFinite, RankType
  <2> QED  BY <2>1, LinesType
<1> HIDE DEF l, r
<1>2. SubSeq(l, 1, r) \in Seq(Seq(C)) /\ Len(SubSeq(l, 1, r)) = r
  BY <1>1
<1>3. IsPrefix(SubSeq(l, 1, r), l)
  BY <1>1 DEF IsPrefix
<1> QED  BY <1>1, <1>2, <1>3 DEF LinesTo, l, r

LEMMA LinesToStay ==
  ASSUME NEW C, NEW s \in Seq(C), NEW m \in 0..Len(s), NEW u \in Breaks(s), u <= m
  PROVE  /\ u \in Breaks(SubSeq(s, 1, m))
         /\ Rank(Breaks(SubSeq(s, 1, m)), u) = Rank(Breaks(s), u)
         /\ LinesTo(SubSeq(s, 1, m), u) = LinesTo(s, u)
<1> DEFINE p == SubSeq(s, 1, m)
<1>1. Len(s) \in Nat /\ m \in Int /\ p \in Seq(C)
  OBVIOUS
<1>2. Breaks(p) = Upto(Breaks(s), m)
  BY BreaksOfPrefix
<1>3. u \in Breaks(p)
  BY <1>2 DEF Upto
<1>4. Breaks(s) \subseteq Int
  BY BreaksFinite
<1>5. Rank(Breaks(p), u) = Rank(Breaks(s), u)
  BY <1>1, <1>2, <1>3, <1>4, RankUpto
<1> DEFINE r == Rank(Breaks(s), u)  k == LinesOf(p)  l == LinesOf(s)
<1>6. r \in 0..Len(k) /\ k \in Seq(Seq(C))
  BY <1>1, <1>3, <1>5, LinesToPrefix, LinesType
<1>7. r \in 0..Len(l) /\ l \in Seq(Seq(C))
  BY LinesToPrefix, LinesType
<1>8. \A i \in DOMAIN k : k[i] = l[i]
  BY LinesOfPrefix
<1> HIDE DEF r, k, l
<1>9. SubSeq(k, 1, r) = SubSeq(l, 1, r)
  BY <1>6, <1>7, <1>8, SMTT(20)
<1> QED  BY <1>3, <1>5, <1>9 DEF LinesTo, r, k, l

LEMMA DropCRCuts ==
  ASSUME NEW C, NEW s \in Seq(C)
  PROVE  \E m \in Nat : DropCR(s) = SubSeq(s, 1, m) /\ m <= Len(s) /\ Len(s) - 1 <= m
<1>1. Len(s) \in Nat /\ SubSeq(s, 1, Len(s)) = s
  OBVIOUS
<1>2. CASE s # << >> /\ Last(s) = CR
  <2>1. DropCR(s) = SubSeq(s, 1, Len(s) - 1)
    BY <1>2 DEF DropCR, Front
  <2> Len(s) - 1 \in Nat
    BY <1>1, <1>2
  <2> WITNESS Len(s) - 1 \in Nat
  <2> QED  BY <1>1, <2>1
<1>3. CASE ~(s # << >> /\ Last(s) = CR)
  <2>1. DropCR(s) = s
    BY <1>3 DEF DropCR
  <2> WITNESS Len(s) \in Nat
  <2> QED  BY <1>1, <2>1
<1> QED  BY <1>2, <1>3

LEMMA DropCRPrefix ==
  ASSUME NEW C, NEW p \in Seq(C), NEW q \in Seq(C), IsPrefix(p, q)
  PROVE  IsPrefix(DropCR(p), DropCR(q))
<1>1. Len(p) \in Nat /\ Len(q) \in Nat /\ Len(p) <= Len(q) /\ \A i \in 1..Len(p) : p[i] = q[i]
  <2>1. SubSeq(p, 1, Len(p)) = p
    OBVIOUS
  <2>2. Len(p) \in Nat /\ Len(q) \in Nat /\ Len(p) <= Len(q) /\ p = SubSeq(q, 1, Len(p))
    BY <2>1 DEF IsPrefix
  <2> QED  BY <2>2
<1>2. PICK m \in Nat : DropCR(p) = SubSeq(p, 1, m) /\ m <= Len(p) /\ Len(p) - 1 <= m
  BY DropCRCuts
<1>3. PICK n \in Nat : DropCR(q) = SubSeq(q, 1, n) /\ n <= Len(q) /\ Len(q) - 1 <= n
  BY DropCRCuts
<1>4. CASE Len(p) = Len(q)
  <2>1. p = q
    BY <1>1, <1>4
  <2>2. DropCR(p) \in Seq(C)
    BY DropCRType
  <2> QED  BY <2>1, <2>2 DEF IsPrefix
<1>5. CASE Len(p) < Len(q)
  <2>1. m <= n
    BY <1>1, <1>2, <1>3, <1>5
  <2>2. SubSeq(p, 1, m) = SubSeq(q, 1, m)
    BY <1>1, <1>2
  <2>3. Len(SubSeq(p, 1, m)) = m /\ Len(SubSeq(q, 1, n)) = n
    BY <1>1, <1>2, <1>3
  <2>4. SubSeq(SubSeq(p, 1, m), 1, m) = SubSeq(p, 1, m)
        /\ SubSeq(SubSeq(q, 1, n), 1, m) = SubSeq(q, 1, m)
    BY <1>1, <1>2, <1>3, <2>1
  <2> QED  BY <1>2, <1>3, <2>1, <2>2, <2>3, <2>4 DEF IsPrefix
<1> QED  BY <1>1, <1>4, <1>5

\* All lines end at the last break or before, and what is behind it is left.
LEMMA LinesToLast ==
  ASSUME NEW C, NEW s \in Seq(C), NEW u \in Breaks(s), \A z \in Breaks(s) : z <= u
  PROVE  LinesTo(s, u) = LinesOf(s) /\ RestOf(s) = SubSeq(s, u + 1, Len(s))
<1> DEFINE B == Breaks(s)  l == LinesOf(s)
<1>1. B \subseteq Int /\ IsFiniteSet(B) /\ u \in Int
  BY BreaksFinite
<1>2. \A z \in B : Rank(B, z) <= Rank(B, u)
  <2> TAKE z \in B
  <2>1. Rank(B, z) \in Int /\ Rank(B, u) \in Int
    <3>1. Rank(B, z) \in 0..(Cardinality(B) - 1) /\ Rank(B, u) \in 0..(Cardinality(B) - 1)
      BY <1>1, RankType
    <3> QED  BY <3>1, BreaksFinite
  <2>2. z = u \/ z < u
    BY <1>1
  <2>3. CASE z < u
    <3>1. Rank(B, z) < Rank(B, u)
      BY <1>1, <2>3, RankGrows
    <3> QED  BY <2>1, <3>1
  <2> QED  BY <2>1, <2>2, <2>3
<1>3. Cardinality(B) - 1 \in 0..(Cardinality(B) - 1)
  BY BreaksFinite
<1>4. PICK z \in B : Rank(B, z) = Cardinality(B) - 1
  BY <1>1, <1>3, NthMember
<1>5. Rank(B, u) = Cardinality(B) - 1
  <2>1. Rank(B, u) \in 0..(Cardinality(B) - 1) /\ Cardinality(B) \in Nat
    BY <1>1, RankType, BreaksFinite
  <2> QED  BY <1>2, <1>4, <2>1
<1>6. Rank(B, u) = Len(l) /\ l \in Seq(Seq(C))
  BY <1>5, LinesType
<1> HIDE DEF l
<1>7. SubSeq(l, 1, Rank(B, u)) = l
  BY <1>6
<1>8. Max(B) = u
  BY <1>1 DEF Max
<1> QED  BY <1>7, <1>8 DEF LinesTo, RestOf, l

LEMMA SubSeqPrefix ==
  ASSUME NEW C, NEW s \in Seq(C), NEW u \in Nat, NEW m \in u..Len(s), NEW n \in m..Len(s)
  PROVE  /\ SubSeq(s, u + 1, m) \in Seq(C) /\ SubSeq(s, u + 1, n) \in Seq(C)
         /\ Len(SubSeq(s, u + 1, m)) = m - u
         /\ IsPrefix(SubSeq(s, u + 1, m), SubSeq(s, u + 1, n))
<1>1. Len(s) \in Nat /\ m \in Nat /\ n \in Nat /\ u <= m /\ m <= n /\ n <= Len(s)
  OBVIOUS
<1>2. /\ SubSeq(s, u + 1, m) \in Seq(C) /\ SubSeq(s, u + 1, n) \in Seq(C)
      /\ Len(SubSeq(s, u + 1, m)) = m - u /\ Len(SubSeq(s, u + 1, n)) = n - u
  BY <1>1
<1>3. SubSeq(SubSeq(s, u + 1, m), 1, m - u) = SubSeq(SubSeq(s, u + 1, n), 1, m - u)
  BY <1>1
<1> QED  BY <1>1, <1>2, <1>3 DEF IsPrefix

\* A line that is cut off is the beginning of the next line or of what is left.
LEMMA CutLine ==
  ASSUME NEW C, NEW s \in Seq(C), NEW u \in Breaks(s), NEW m \in u..Len(s),
         \A z \in Breaks(s) : z <= u \/ m < z
  PROVE  IsPrefix(DropCR(SubSeq(s, u + 1, m)),
                  Append(LinesOf(s), DropCR(RestOf(s)))[Rank(Breaks(s), u) + 1])
<1> DEFINE B == Breaks(s)  l == LinesOf(s)
<1>1. B \subseteq Int /\ IsFiniteSet(B) /\ u \in Nat /\ Len(s) \in Nat /\ m \in Nat
      /\ u <= m /\ m <= Len(s)
  BY BreaksFinite
<1>2. l \in Seq(Seq(C)) /\ DOMAIN l = 1..Len(l) /\ Len(l) \in Nat
  BY LinesType
<1>3. CASE \A z \in B : z <= u
  <2>1. Len(l) = Rank(B, u) /\ RestOf(s) = SubSeq(s, u + 1, Len(s))
    BY <1>3, LinesToLast, LinesToPrefix
  <2>2. IsPrefix(SubSeq(s, u + 1, m), RestOf(s)) /\ RestOf(s) \in Seq(C)
        /\ SubSeq(s, u + 1, m) \in Seq(C)
    BY <1>1, <2>1, SubSeqPrefix
  <2>3. IsPrefix(DropCR(SubSeq(s, u + 1, m)), DropCR(RestOf(s)))
    BY <2>2, DropCRPrefix
  <2>4. DropCR(RestOf(s)) \in Seq(C)
    BY <2>2, DropCRType
  <2>5. Append(l, DropCR(RestOf(s)))[Rank(B, u) + 1] = DropCR(RestOf(s))
    <3> HIDE DEF l
    <3> QED  BY <1>2, <2>1, <2>4
  <2> QED  BY <2>3, <2>5
<1>4. CASE \E z \in B : ~(z <= u)
  <2>1. PICK b \in B : u < b /\ \A z \in B : z <= u \/ b <= z
    BY <1>1, <1>4, NextMember
  <2>2. b \in Nat /\ b <= Len(s) /\ m <= b - 1
    BY <1>1, <2>1, BreaksFinite
  <2>3. /\ Rank(B, b) = Rank(B, u) + 1 /\ Rank(B, b) \in 1..(Cardinality(B) - 1)
        /\ l[Rank(B, b)] = DropCR(SubSeq(s, u + 1, b - 1))
    BY <2>1, LineBetween
  <2>4. IsPrefix(SubSeq(s, u + 1, m), SubSeq(s, u + 1, b - 1))
        /\ SubSeq(s, u + 1, m) \in Seq(C) /\ SubSeq(s, u + 1, b - 1) \in Seq(C)
    BY <1>1, <2>2, SubSeqPrefix
  <2>5. IsPrefix(DropCR(SubSeq(s, u + 1, m)), l[Rank(B, b)])
    BY <2>3, <2>4, DropCRPrefix
  <2>6. Rank(B, b) \in 1..Len(l)
    BY <2>3, LinesType
  <2>7. Append(l, DropCR(RestOf(s)))[Rank(B, b)] = l[Rank(B, b)]
    <3> HIDE DEF l
    <3> QED  BY <1>2, <2>6
  <2> QED  BY <2>3, <2>5, <2>7
<1> QED  BY <1>3, <1>4

\* The text with a line end behind it has all the lines of the text, and what
\* is behind a break begins one of them.
Ended(s) == s \o <<NL>>

LEMMA EndedText ==
  ASSUME NEW C, NEW s \in Seq(C)
  PROVE  /\ Ended(s) \in Seq(C \cup {NL}) /\ Len(Ended(s)) = Len(s) + 1
         /\ SubSeq(Ended(s), 1, Len(s)) = s
         /\ Len(s) + 1 \in Breaks(Ended(s))
         /\ \A z \in Breaks(Ended(s)) : z <= Len(s) => z \in Breaks(s)
         /\ Breaks(s) \subseteq Breaks(Ended(s))
<1> DEFINE e == Ended(s)
<1>1. /\ e \in Seq(C \cup {NL}) /\ Len(e) = Len(s) + 1 /\ Len(s) \in Nat
      /\ \A i \in 1..Len(s) : e[i] = s[i]
      /\ e[Len(s) + 1] = NL
  BY DEF Ended
<1>2. DOMAIN e = 1..(Len(s) + 1) /\ DOMAIN s = 1..Len(s)
  BY <1>1
<1>3. SubSeq(e, 1, Len(s)) = s
  BY DEF Ended
<1> HIDE DEF e
<1>4. \A z \in Breaks(e) : z <= Len(s) => z \in Breaks(s)
  <2> TAKE z \in Breaks(e)
  <2>1. z = 0 \/ (z \in 1..(Len(s) + 1) /\ e[z] = NL)
    BY <1>2 DEF Breaks
  <2> QED  BY <2>1, <1>1, <1>2 DEF Breaks
<1>5. Breaks(s) \subseteq Breaks(e) /\ Len(s) + 1 \in Breaks(e)
  <2>1. Len(s) + 1 \in 1..(Len(s) + 1) /\ \A z \in 1..Len(s) : z \in 1..(Len(s) + 1)
    BY <1>1
  <2> QED  BY <1>1, <1>2, <2>1 DEF Breaks
<1> QED  BY <1>1, <1>3, <1>4, <1>5 DEF e

LEMMA LinesStay ==
  ASSUME NEW C, NEW s \in Seq(C), NEW k \in DOMAIN LinesOf(s)
  PROVE  k \in DOMAIN LinesOf(Ended(s)) /\ LinesOf(Ended(s))[k] = LinesOf(s)[k]
<1> DEFINE e == Ended(s)  n == Len(s)
<1>1. n \in Nat /\ e \in Seq(C \cup {NL}) /\ Len(e) = n + 1 /\ SubSeq(e, 1, n) = s
  <2>1. n \in Nat
    OBVIOUS
  <2> QED  BY <2>1, EndedText
<1> HIDE DEF e, n
<1>2. n \in 0..Len(e) /\ k \in DOMAIN LinesOf(SubSeq(e, 1, n))
  <2>1. LinesOf(SubSeq(e, 1, n)) = LinesOf(s)
    BY <1>1, Zenon
  <2>2. k \in DOMAIN LinesOf(SubSeq(e, 1, n))
    BY <2>1, Zenon
  <2> QED  BY <1>1, <2>2
<1>3. k \in DOMAIN LinesOf(e) /\ LinesOf(SubSeq(e, 1, n))[k] = LinesOf(e)[k]
  BY <1>1, <1>2, LinesOfPrefix
<1> QED  BY <1>1, <1>3 DEF e

LEMMA BeginsLine ==
  ASSUME NEW C, NEW s \in Seq(C), NEW u \in Breaks(s), NEW m \in u..Len(s),
         \A z \in Breaks(s) : z <= u \/ m < z
  PROVE  \E j \in DOMAIN LinesOf(Ended(s)) :
           /\ IsPrefix(DropCR(SubSeq(s, u + 1, m)), LinesOf(Ended(s))[j])
           /\ LinesOf(Ended(s))[j] \in Seq(C \cup {NL})
           /\ Len(LinesOf(Ended(s))[j]) >= m - u - 1
<1> DEFINE e == Ended(s)  B == Breaks(e)
<1>1. /\ e \in Seq(C \cup {NL}) /\ Len(e) = Len(s) + 1 /\ SubSeq(e, 1, Len(s)) = s
      /\ Len(s) + 1 \in B /\ u \in B /\ \A z \in B : z <= u \/ m < z
      /\ Len(s) \in Nat /\ u \in Nat /\ m \in Nat /\ u <= m /\ m <= Len(s)
      /\ B \subseteq Int
  <2>1. Len(s) \in Nat /\ u \in Nat /\ m \in Nat /\ u <= m /\ m <= Len(s)
    BY BreaksFinite
  <2>2. e \in Seq(C \cup {NL}) /\ Len(e) = Len(s) + 1 /\ SubSeq(e, 1, Len(s)) = s
        /\ Len(s) + 1 \in B /\ u \in B
        /\ \A z \in B : z <= Len(s) => z \in Breaks(s)
    BY EndedText
  <2>3. B \subseteq Int
    BY <2>2, BreaksFinite
  <2>4. ASSUME NEW z \in B PROVE z <= u \/ m < z
    <3>1. CASE z <= Len(s)
      BY <3>1, <2>2
    <3>2. CASE ~(z <= Len(s))
      BY <3>2, <2>1, <2>3
    <3> QED  BY <3>1, <3>2
  <2> QED  BY <2>1, <2>2, <2>3, <2>4
<1>2. IsFiniteSet(B)
  BY <1>1, BreaksFinite
<1>3. \E z \in B : ~(z <= u)
  BY <1>1
<1>4. PICK b \in B : u < b /\ \A z \in B : z <= u \/ b <= z
  BY <1>1, <1>2, <1>3, NextMember
<1>5. b \in Nat /\ m <= b - 1 /\ b <= Len(e) /\ b - 1 \in Nat
  <2>1. b \in 0..Len(e)
    BY <1>1, BreaksFinite
  <2> QED  BY <1>1, <1>4, <2>1
<1> DEFINE j == Rank(B, b)
<1>6. j \in 1..(Cardinality(B) - 1) /\ LinesOf(e)[j] = DropCR(SubSeq(e, u + 1, b - 1))
  BY <1>1, <1>4, LineBetween
<1>7. j \in DOMAIN LinesOf(e)
  BY <1>1, <1>6, LinesType
<1>8. /\ IsPrefix(SubSeq(e, u + 1, m), SubSeq(e, u + 1, b - 1))
      /\ SubSeq(e, u + 1, m) \in Seq(C \cup {NL})
      /\ SubSeq(e, u + 1, b - 1) \in Seq(C \cup {NL})
      /\ Len(SubSeq(e, u + 1, b - 1)) = b - 1 - u
  <2>1. m \in u..Len(e) /\ b - 1 \in m..Len(e) /\ b - 1 \in u..Len(e)
        /\ b - 1 \in (b - 1)..Len(e)
    BY <1>1, <1>5
  <2> HIDE DEF e
  <2> QED  BY <1>1, <2>1, SubSeqPrefix
<1>9. SubSeq(e, u + 1, m) = SubSeq(s, u + 1, m)
  <2> HIDE DEF e
  <2> QED  BY <1>1
<1>10. IsPrefix(DropCR(SubSeq(s, u + 1, m)), LinesOf(e)[j])
  BY <1>6, <1>8, <1>9, DropCRPrefix
<1>11. LinesOf(e)[j] \in Seq(C \cup {NL})
  BY <1>6, <1>8, DropCRType
<1>12. Len(LinesOf(e)[j]) >= m - u - 1
  <2> DEFINE x == SubSeq(e, u + 1, b - 1)
  <2>1. PICK n \in Nat : DropCR(x) = SubSeq(x, 1, n) /\ n <= Len(x) /\ Len(x) - 1 <= n
    BY <1>8, DropCRCuts
  <2>2. x \in Seq(C \cup {NL}) /\ Len(x) = b - 1 - u /\ LinesOf(e)[j] = DropCR(x)
    BY <1>6, <1>8
  <2> HIDE DEF x, j, e
  <2>3. Len(SubSeq(x, 1, n)) = n
    BY <2>1, <2>2
  <2> QED  BY <1>1, <1>5, <2>1, <2>2, <2>3
<1> QED  BY <1>7, <1>10, <1>11, <1>12

-----------------------------------------------------------------------------
(* What the Scanner has read and given out *)

Reading ==
  /\ stream \in Seq(Range(stream))
  /\ wrote \in 0..Len(stream) /\ got \in 0..wrote /\ used \in 0..got
  /\ pc \in {"scan", "parse", "closed"}
  /\ err \in {"none", "EOF", "timeout", "reset", "too long"}
  /\ err = "EOF" => ~open /\ got = wrote
  /\ err = "too long" => Len(Buffer) >= MaxToken /\ ~HasLine
  /\ pc = "closed" => err = "too long" \/ Buffer = << >>

\* The tokens are the lines up to the last break that was passed,
Uncut == used \in Breaks(stream) /\ tokens = LinesTo(stream, used)

\* or, at the end, these and what there is of the next line.
CutBehind(u) ==
  /\ u \in Breaks(stream) /\ u < used
  /\ \A z \in Breaks(stream) : z <= u \/ used < z
  /\ tokens = Append(LinesTo(stream, u), DropCR(SubSeq(stream, u + 1, used)))
LastCut ==
  /\ used = got /\ err \in {"EOF", "timeout", "reset"}
  /\ \E u \in Breaks(stream) : CutBehind(u)

Faithful == Uncut \/ LastCut

\* The line parse has to look at is one of the client's or begins one.
TokenRight ==
  pc = "parse" =>
    \E j \in DOMAIN LinesOf(Ended(stream)) :
      /\ token \in Seq(Range(stream) \cup {NL})
      /\ LinesOf(Ended(stream))[j] \in Seq(Range(stream) \cup {NL})
      /\ IsPrefix(token, LinesOf(Ended(stream))[j])

InputInv == Reading /\ Faithful /\ TokenRight

LEMMA BeginOfPart ==
  ASSUME NEW C, NEW s \in Seq(C), NEW u \in Nat, NEW g \in u..Len(s), NEW k \in 0..(g - u)
  PROVE  SubSeq(SubSeq(s, u + 1, g), 1, k) = SubSeq(s, u + 1, u + k)
<1>1. Len(s) \in Nat /\ g \in Nat /\ k \in Nat /\ u <= g /\ g <= Len(s) /\ u + k <= g
  OBVIOUS
<1> QED  BY <1>1

LEMMA BufferFacts ==
  ASSUME Reading
  PROVE  /\ Buffer \in Seq(Range(stream)) /\ Len(Buffer) = got - used
         /\ \A i \in 1..(got - used) : Buffer[i] = stream[used + i]
         /\ Buffer = << >> <=> got = used
         /\ got \in Nat /\ used \in Nat /\ wrote \in Nat /\ Len(stream) \in Nat
         /\ used <= got /\ got <= wrote /\ wrote <= Len(stream)
<1>1. /\ got \in Nat /\ used \in Nat /\ wrote \in Nat /\ Len(stream) \in Nat
      /\ used <= got /\ got <= wrote /\ wrote <= Len(stream)
  <2>0. stream \in Seq(Range(stream))
    BY DEF Reading
  <2>1. Len(stream) \in Nat
    BY <2>0, LenProperties
  <2>2. wrote \in 0..Len(stream) /\ got \in 0..wrote /\ used \in 0..got
    BY DEF Reading
  <2> QED  BY <2>1, <2>2
<1>2. stream \in Seq(Range(stream))
  BY DEF Reading
<1>3. /\ Buffer \in Seq(Range(stream)) /\ Len(Buffer) = got - used
      /\ \A i \in 1..(got - used) : Buffer[i] = stream[used + i]
  BY <1>1, <1>2 DEF Buffer
<1>4. Buffer = << >> <=> got = used
  BY <1>1, <1>3
<1> QED  BY <1>1, <1>3, <1>4

LEMMA NoLine ==
  ASSUME Reading, ~HasLine
  PROVE  \A z \in Breaks(stream) : z <= used \/ got < z
<1>1. \A i \in 1..(got - used) : Buffer[i] # NL
  <2>1. DOMAIN Buffer = 1..(got - used)
    BY BufferFacts
  <2> QED  BY <2>1 DEF HasLine, Range
<1>2. ASSUME NEW z \in Breaks(stream), used < z, z <= got PROVE FALSE
  <2>1. z \in Nat /\ stream[z] = NL
    BY <1>2, BufferFacts DEF Breaks
  <2>2. z - used \in 1..(got - used) /\ used + (z - used) = z
    BY <1>2, <2>1, BufferFacts
  <2>3. Buffer[z - used] = stream[z]
    BY <2>2, BufferFacts
  <2> QED  BY <1>1, <2>1, <2>2, <2>3
<1>3. Breaks(stream) \subseteq Int
  BY BreaksFinite DEF Reading
<1> QED  BY <1>2, <1>3, BufferFacts

\* A token that a line end ends is the next line.
LEMMA NextLine ==
  ASSUME Reading, HasLine
  PROVE  /\ used + LineEnd \in Breaks(stream)
         /\ LineEnd \in 1..(got - used)
         /\ \A z \in Breaks(stream) : z <= used \/ used + LineEnd <= z
         /\ Token = DropCR(SubSeq(stream, used + 1, (used + LineEnd) - 1))
<1> DEFINE I == {i \in DOMAIN Buffer : Buffer[i] = NL}
<1>1. DOMAIN Buffer = 1..(got - used)
  BY BufferFacts
<1>2. I # {} /\ I \subseteq 1..(got - used)
  BY <1>1 DEF HasLine, Range
<1>3. LineEnd \in I /\ \A i \in I : LineEnd <= i
  <2> DEFINE S == I \cup {0}
  <2>1. IsFiniteSet(0..(got - used)) /\ S \subseteq 0..(got - used)
    <3>1. \A i \in 1..(got - used) : i \in 0..(got - used)
      BY BufferFacts
    <3>2. 0 \in 0..(got - used) /\ 0 \in Int /\ got - used \in Int
      BY BufferFacts
    <3> QED  BY <1>2, <3>1, <3>2, FS_Interval
  <2>2. IsFiniteSet(S) /\ S \subseteq Int /\ 0 \in S
    <3>1. \A i \in 0..(got - used) : i \in Int
      BY BufferFacts
    <3>2. IsFiniteSet(S)
      BY <2>1, FS_Subset
    <3> QED  BY <2>1, <3>1, <3>2
  <2>3. \E z \in S : ~(z <= 0)
    BY <1>2
  <2>4. PICK b \in S : 0 < b /\ \A z \in S : z <= 0 \/ b <= z
    BY <2>2, <2>3, NextMember
  <2>5. b \in I /\ \A i \in I : b <= i
    <3>1. \A i \in I : i \in Int /\ ~(i <= 0)
      BY <1>2
    <3> QED  BY <2>4, <3>1
  <2>6. \A x \in I : (\A i \in I : x <= i) => x = b
    BY <1>2, <2>5
  <2> QED  BY <2>5, <2>6 DEF LineEnd, Min
<1>4. LineEnd \in 1..(got - used) /\ Buffer[LineEnd] = NL /\ LineEnd \in Nat
  BY <1>1, <1>2, <1>3, BufferFacts
<1> DEFINE n == LineEnd
<1>5. /\ n \in 1..(got - used) /\ Buffer[n] = NL
      /\ \A i \in 1..(got - used) : Buffer[i] = NL => n <= i
  BY <1>1, <1>3, <1>4
<1> HIDE DEF n, I
<1>6. used + n \in 1..Len(stream) /\ stream[used + n] = NL
  BY <1>5, BufferFacts
<1>7. used + n \in Breaks(stream)
  <2>0. stream \in Seq(Range(stream))
    BY DEF Reading
  <2>1. DOMAIN stream = 1..Len(stream)
    BY <2>0, LenProperties
  <2> QED  BY <1>6, <2>1 DEF Breaks
<1>8. ASSUME NEW z \in Breaks(stream), used < z, z < used + n PROVE FALSE
  <2>1. z \in Nat /\ stream[z] = NL
    BY <1>8, BufferFacts DEF Breaks
  <2>2. z - used \in 1..(got - used) /\ used + (z - used) = z /\ z - used < n
    BY <1>5, <1>8, <2>1, BufferFacts
  <2>3. Buffer[z - used] = stream[z]
    BY <2>2, BufferFacts
  <2> QED  BY <1>5, <2>1, <2>2, <2>3
<1>9. Breaks(stream) \subseteq Int
  BY BreaksFinite DEF Reading
<1>10. \A z \in Breaks(stream) : z <= used \/ used + n <= z
  <2>1. used \in Int /\ used + n \in Int
    BY <1>5, BufferFacts
  <2> QED  BY <1>8, <1>9, <2>1
<1>11. SubSeq(Buffer, 1, n - 1) = SubSeq(stream, used + 1, (used + n) - 1)
  <2>1. stream \in Seq(Range(stream))
    BY DEF Reading
  <2>2. used \in Nat /\ got \in used..Len(stream) /\ n - 1 \in 0..(got - used)
        /\ used + (n - 1) = (used + n) - 1
    BY <1>5, BufferFacts
  <2> QED  BY <2>1, <2>2, BeginOfPart DEF Buffer
<1>12. Token = DropCR(SubSeq(stream, used + 1, (used + n) - 1))
  BY <1>11 DEF Token, n
<1> QED  BY <1>5, <1>7, <1>10, <1>12 DEF n

LEMMA InitInput == Init => InputInv
<1> SUFFICES ASSUME Init PROVE InputInv  OBVIOUS
<1>1. stream \in Seq(Range(stream))
  BY ConnectionAssumption DEF Init
<1>2. Len(stream) \in Nat
  BY <1>1, LenProperties
<1>3. Reading
  BY <1>1, <1>2 DEF Init, Reading
<1>4. Uncut
  <2>1. 0 \in Breaks(stream)
    BY DEF Breaks
  <2>2. \A z \in Breaks(stream) : ~(z < 0)
    BY <1>1, <1>2, BreaksFinite
  <2>3. {z \in Breaks(stream) : z < 0} = {}
    BY <2>2
  <2>4. Rank(Breaks(stream), 0) = 0
    BY <2>3, FS_EmptySet DEF Rank
  <2>5. LinesTo(stream, 0) = << >>
    BY <2>4, SubSeqEmpty DEF LinesTo
  <2> QED  BY <2>1, <2>5 DEF Init, Uncut
<1> QED  BY <1>3, <1>4 DEF InputInv, Faithful, TokenRight, Init

\* No step changes the text, and the token only changes where it is found.
LEMMA StreamStays == [Next]_vars => stream' = stream
BY DEF Next, vars, client, handler, Write, Hangup, Split, Read, ReadFails, SocketError, Close,
       Parse, Tick

LEMMA SplitKeepsReading ==
  ASSUME Reading, Split
  PROVE  Reading'
<1>1. UNCHANGED <<stream, wrote, open, got, err>> /\ pc' = "parse" /\ used' = Advance
      /\ err # "too long"
  BY DEF Split, client
<1>2. used' \in 0..got
  <2>1. CASE HasLine
    <3>1. LineEnd \in 1..(got - used) /\ used' = used + LineEnd
      BY <1>1, <2>1, NextLine DEF Advance
    <3> HIDE DEF Buffer
    <3> QED  BY <3>1, BufferFacts
  <2>2. CASE ~HasLine
    <3>1. used' = got
      BY <1>1, <2>2 DEF Advance
    <3> QED  BY <3>1, BufferFacts
  <2> QED  BY <2>1, <2>2
<1>3. got \in 0..wrote /\ stream \in Seq(Range(stream)) /\ wrote \in 0..Len(stream)
      /\ err \in {"none", "EOF", "timeout", "reset"} /\ (err = "EOF" => ~open /\ got = wrote)
  BY <1>1 DEF Reading
<1> QED  BY <1>1, <1>2, <1>3 DEF Reading

LEMMA NextReading ==
  ASSUME Reading, Faithful, [Next]_vars
  PROVE  Reading'
<1>1. CASE UNCHANGED vars
  BY <1>1 DEF Reading, vars, client, handler, Buffer, HasLine
<1>2. CASE Write
  <2>1. wrote' = wrote + 1 /\ wrote < Len(stream) /\ open
        /\ UNCHANGED <<stream, open, got, used, err, pc>>
    BY <1>2 DEF Write, handler
  <2>2. wrote' \in 0..Len(stream) /\ got \in 0..wrote'
    BY <2>1, BufferFacts
  <2>3. UNCHANGED <<Buffer, HasLine>>
    BY <2>1 DEF Buffer, HasLine
  <2> QED  BY <2>1, <2>2, <2>3 DEF Reading
<1>3. CASE Hangup
  <2>1. open' = FALSE /\ UNCHANGED <<stream, wrote, got, used, err, pc>>
    BY <1>3 DEF Hangup, handler
  <2>2. UNCHANGED <<Buffer, HasLine>>
    BY <2>1 DEF Buffer, HasLine
  <2> QED  BY <2>1, <2>2 DEF Reading
<1>4. CASE Split
  BY <1>4, SplitKeepsReading
<1>5. CASE Read
  <2>1. err = "none" /\ pc = "scan" /\ UNCHANGED <<stream, wrote, open, used, err, pc>>
    BY <1>5 DEF Read, MustRead, client
  <2>2. got' \in 0..wrote /\ used \in 0..got'
    <3>1. PICK n \in 1..(wrote - got) : got' = got + n
      BY <1>5 DEF Read
    <3> QED  BY <3>1, BufferFacts
  <2> QED  BY <2>1, <2>2 DEF Reading
<1>6. CASE ReadFails \/ SocketError
  <2>1. err = "none" /\ pc = "scan" /\ ~HasLine
        /\ UNCHANGED <<stream, wrote, open, got, used, pc>>
    BY <1>6 DEF ReadFails, SocketError, MustRead, client
  <2>2. UNCHANGED <<Buffer, HasLine>>
    BY <2>1 DEF Buffer, HasLine
  <2>3. \/ err' = "too long" /\ Len(Buffer) >= MaxToken
        \/ err' \in {"timeout", "reset"}
        \/ err' = "EOF" /\ ~open /\ got = wrote
    BY <1>6 DEF ReadFails, SocketError, BufferFull
  <2> QED  BY <2>1, <2>2, <2>3 DEF Reading
<1>7. CASE Close
  <2>1. UNCHANGED <<stream, wrote, open, got, used, err>> /\ pc' = "closed"
        /\ (err = "too long" \/ Buffer = << >>)
    BY <1>7 DEF Close, CanSplit, client
  <2>2. UNCHANGED <<Buffer, HasLine>>
    BY <2>1 DEF Buffer, HasLine
  <2> QED  BY <2>1, <2>2 DEF Reading
<1>8. CASE Parse
  <2>1. UNCHANGED <<stream, wrote, open, got, used, err>> /\ pc' = "scan"
    BY <1>8 DEF Parse, client
  <2>2. UNCHANGED <<Buffer, HasLine>>
    BY <2>1 DEF Buffer, HasLine
  <2> QED  BY <2>1, <2>2 DEF Reading
<1>9. CASE Tick
  <2>1. UNCHANGED <<stream, wrote, open, got, used, err, pc>>
    BY <1>9 DEF Tick, client, handler
  <2>2. UNCHANGED <<Buffer, HasLine>>
    BY <2>1 DEF Buffer, HasLine
  <2> QED  BY <2>1, <2>2 DEF Reading
<1> QED  BY <1>1, <1>2, <1>3, <1>4, <1>5, <1>6, <1>7, <1>8, <1>9 DEF Next

\* A token that a line end ends is the line behind those before.
LEMMA SplitLine ==
  ASSUME Reading, Uncut, HasLine, Split
  PROVE  /\ Uncut'
         /\ \E j \in DOMAIN LinesOf(stream) : token' = LinesOf(stream)[j]
<1> DEFINE b == used + LineEnd  l == LinesOf(stream)  C == Range(stream)
           r == Rank(Breaks(stream), used)
<1>1. stream \in Seq(C) /\ used \in Breaks(stream) /\ tokens = SubSeq(l, 1, r)
  BY DEF Reading, Uncut, LinesTo
<1>2. stream' = stream /\ used' = b /\ token' = Token /\ tokens' = Append(tokens, Token)
  BY DEF Split, Advance, client
<1>3. /\ b \in Breaks(stream) /\ LineEnd \in 1..(got - used)
      /\ \A z \in Breaks(stream) : z <= used \/ b <= z
      /\ Token = DropCR(SubSeq(stream, used + 1, b - 1))
  BY NextLine
<1>4. used < b
  BY <1>3, BufferFacts
<1>5. /\ Rank(Breaks(stream), b) = r + 1
      /\ Rank(Breaks(stream), b) \in 1..(Cardinality(Breaks(stream)) - 1)
      /\ l[Rank(Breaks(stream), b)] = Token
  BY <1>1, <1>3, <1>4, LineBetween
<1>6. l \in Seq(Seq(C)) /\ DOMAIN l = 1..(Cardinality(Breaks(stream)) - 1)
      /\ Len(l) = Cardinality(Breaks(stream)) - 1
  BY <1>1, LinesType
<1>7. r \in 0..Len(l)
  BY <1>1, LinesToPrefix
<1> HIDE DEF l, r, b, C
<1>8. r + 1 \in 1..Len(l) /\ l[r + 1] = Token /\ Len(l) \in Nat
  BY <1>5, <1>6, LenProperties
<1>9. Append(SubSeq(l, 1, r), Token) = SubSeq(l, 1, r + 1)
  BY <1>6, <1>7, <1>8
<1>10. tokens' = LinesTo(stream, b)
  BY <1>1, <1>2, <1>5, <1>9 DEF LinesTo, l
<1> QED  BY <1>2, <1>3, <1>5, <1>6, <1>10 DEF Uncut, l

\* A token that reading's end ends is what there is of the next line.
LEMMA SplitRest ==
  ASSUME Reading, Uncut, ~HasLine, Split
  PROVE  /\ LastCut'
         /\ token' = DropCR(SubSeq(stream, used + 1, got))
         /\ \A z \in Breaks(stream) : z <= used \/ got < z
<1>1. /\ stream' = stream /\ got' = got /\ used' = got /\ err' = err
      /\ err # "none" /\ err # "too long"
      /\ token' = Token /\ tokens' = Append(tokens, Token)
  BY DEF Split, Advance, client, CanSplit
<1>2. Token = DropCR(SubSeq(stream, used + 1, got))
  BY DEF Token, Buffer
<1>3. /\ \A z \in Breaks(stream) : z <= used \/ got < z
      /\ used < got
  <2>1. Buffer # << >>
    BY DEF Split, CanSplit
  <2> QED  BY <2>1, NoLine, BufferFacts
<1>4. PICK u \in Breaks(stream) : u = used /\ tokens = LinesTo(stream, u)
  BY DEF Uncut
<1>5. LastCut'
  <2>1. CutBehind(u)'
    BY <1>1, <1>2, <1>3, <1>4 DEF CutBehind
  <2>2. err \in {"EOF", "timeout", "reset"}
    BY <1>1 DEF Reading
  <2> QED  BY <1>1, <2>1, <2>2 DEF LastCut
<1> QED  BY <1>1, <1>2, <1>3, <1>5

LEMMA NoSplitWhenCut ==
  ASSUME Reading, LastCut
  PROVE  ~Split
<1>1. Buffer = << >> /\ Len(Buffer) = 0
  BY BufferFacts DEF LastCut
<1>2. ~HasLine
  BY <1>1 DEF HasLine, Range
<1> QED  BY <1>1, <1>2 DEF Split, CanSplit

LEMMA NextFaithful ==
  ASSUME Reading, Faithful, [Next]_vars
  PROVE  Faithful'
<1>1. CASE Split
  <2>1. Uncut
    BY <1>1, NoSplitWhenCut DEF Faithful
  <2> QED  BY <1>1, <2>1, SplitLine, SplitRest DEF Faithful
<1>2. CASE ~Split
  <2>1. UNCHANGED <<stream, used, tokens>>
    BY <1>2 DEF Next, vars, client, handler, Write, Hangup, Read, ReadFails, SocketError, Close,
       Parse, Tick
  <2>2. err \in {"EOF", "timeout", "reset"} => UNCHANGED <<got, err>>
    BY <1>2 DEF Next, vars, client, handler, Write, Hangup, Read, ReadFails, SocketError, Close, Parse,
                Tick, MustRead
  <2>3. Uncut => Uncut'
    BY <2>1 DEF Uncut
  <2>4. ASSUME LastCut PROVE LastCut'
    <3>1. PICK u \in Breaks(stream) : CutBehind(u)
      BY <2>4 DEF LastCut
    <3>2. CutBehind(u)'
      BY <2>1, <3>1 DEF CutBehind
    <3> QED  BY <2>1, <2>2, <2>4, <3>1, <3>2 DEF LastCut
  <2> QED  BY <2>3, <2>4 DEF Faithful
<1> QED  BY <1>1, <1>2

LEMMA NextTokenRight ==
  ASSUME Reading, Faithful, TokenRight, [Next]_vars
  PROVE  TokenRight'
<1> DEFINE C == Range(stream)  l == LinesOf(Ended(stream))
<1>0. stream \in Seq(C) /\ stream' = stream
  BY StreamStays DEF Reading
<1>1. CASE Split
  <2>1. Uncut
    BY <1>1, NoSplitWhenCut DEF Faithful
  <2>2. \E j \in DOMAIN l :
          token' \in Seq(C \cup {NL}) /\ l[j] \in Seq(C \cup {NL}) /\ IsPrefix(token', l[j])
    <3>1. CASE HasLine
      <4>1. PICK j \in DOMAIN LinesOf(stream) : token' = LinesOf(stream)[j]
        BY <1>1, <2>1, <3>1, SplitLine
      <4>2. j \in DOMAIN l /\ token' = l[j]
        BY <1>0, <4>1, LinesStay
      <4>3. token' \in Seq(C \cup {NL})
        <5>1. LinesOf(stream) \in Seq(Seq(C))
          BY <1>0, LinesType
        <5>2. token' \in Seq(C)
          BY <4>1, <5>1
        <5> QED  BY <5>2, SeqMonotonic
      <4>4. IsPrefix(token', token')
        BY <4>3 DEF IsPrefix
      <4> QED  BY <4>2, <4>3, <4>4
    <3>2. CASE ~HasLine
      <4>1. /\ used \in Breaks(stream) /\ got \in used..Len(stream)
            /\ token' = DropCR(SubSeq(stream, used + 1, got))
            /\ \A z \in Breaks(stream) : z <= used \/ got < z
        <5>1. /\ token' = DropCR(SubSeq(stream, used + 1, got))
              /\ \A z \in Breaks(stream) : z <= used \/ got < z
          BY <1>1, <2>1, <3>2, SplitRest
        <5>2. got \in used..Len(stream)
          BY BufferFacts
        <5> QED  BY <2>1, <5>1, <5>2 DEF Uncut
      <4>2. PICK j \in DOMAIN l :
              /\ IsPrefix(DropCR(SubSeq(stream, used + 1, got)), l[j])
              /\ l[j] \in Seq(C \cup {NL})
        BY <1>0, <4>1, BeginsLine
      <4>3. token' \in Seq(C \cup {NL})
        <5>1. SubSeq(stream, used + 1, got) \in Seq(C)
          BY <1>0, <4>1, BufferFacts DEF Buffer
        <5>2. token' \in Seq(C)
          BY <4>1, <5>1, DropCRType
        <5> QED  BY <5>2, SeqMonotonic
      <4> QED  BY <4>1, <4>2, <4>3
    <3> QED  BY <3>1, <3>2
  <2> QED  BY <1>0, <2>2 DEF TokenRight
<1>2. CASE ~Split
  <2>1. token' = token /\ (pc' = "parse" => pc = "parse")
    BY <1>2 DEF Next, vars, client, handler, Write, Hangup, Read, ReadFails, SocketError, Close,
       Parse, Tick
  <2> QED  BY <1>0, <2>1 DEF TokenRight
<1> QED  BY <1>1, <1>2

LEMMA InputInvariant == Spec => []InputInv
<1>1. InputInv /\ [Next]_vars => InputInv'
  BY NextReading, NextFaithful, NextTokenRight DEF InputInv
<1> QED  BY InitInput, <1>1, PTL DEF Spec

-----------------------------------------------------------------------------
(* Whatever was read when: the client's lines *)

\* What was written so far has the same breaks and lines up to u as the whole
\* text.
LEMMA WrittenFacts ==
  ASSUME Reading, NEW u \in Breaks(stream), u <= used
  PROVE  /\ Written \in Seq(Range(stream)) /\ Len(Written) = wrote
         /\ u \in Breaks(Written) /\ u \in Nat
         /\ Rank(Breaks(Written), u) = Rank(Breaks(stream), u)
         /\ LinesTo(Written, u) = LinesTo(stream, u)
         /\ \A z \in Breaks(Written) : z \in Breaks(stream) /\ z <= wrote /\ z \in Int
<1> DEFINE C == Range(stream)
<1>1. stream \in Seq(C)
  BY DEF Reading
<1>2. wrote \in 0..Len(stream) /\ u \in Nat /\ u <= wrote
  BY <1>1, BreaksFinite, BufferFacts
<1>3. Written \in Seq(C) /\ Len(Written) = wrote
  BY <1>1, <1>2, BufferFacts DEF Written
<1>4. /\ u \in Breaks(Written)
      /\ Rank(Breaks(Written), u) = Rank(Breaks(stream), u)
      /\ LinesTo(Written, u) = LinesTo(stream, u)
  BY <1>1, <1>2, LinesToStay DEF Written
<1>5. Breaks(Written) = Upto(Breaks(stream), wrote)
  BY <1>1, <1>2, BreaksOfPrefix DEF Written
<1>6. Breaks(stream) \subseteq Int
  BY <1>1, BreaksFinite
<1> QED  BY <1>2, <1>3, <1>4, <1>5, <1>6 DEF Upto

LEMMA UncutLines ==
  ASSUME Reading, Uncut
  PROVE  /\ IsPrefix(tokens, LinesOf(Written))
         /\ used = wrote => tokens = LinesOf(Written) /\ RestOf(Written) = << >>
<1>1. used \in Breaks(stream) /\ used <= used /\ tokens = LinesTo(stream, used)
  BY BufferFacts DEF Uncut
<1>2. /\ Written \in Seq(Range(stream)) /\ Len(Written) = wrote
      /\ used \in Breaks(Written) /\ tokens = LinesTo(Written, used)
      /\ \A z \in Breaks(Written) : z <= wrote
  BY <1>1, WrittenFacts
<1>3. IsPrefix(tokens, LinesOf(Written))
  BY <1>2, LinesToPrefix
<1>4. ASSUME used = wrote PROVE tokens = LinesOf(Written) /\ RestOf(Written) = << >>
  <2>1. tokens = LinesOf(Written) /\ RestOf(Written) = SubSeq(Written, used + 1, wrote)
    BY <1>2, <1>4, LinesToLast
  <2>2. wrote < used + 1 /\ used + 1 \in Int /\ wrote \in Int
    BY <1>4, BufferFacts
  <2> QED  BY <2>1, <2>2, SubSeqEmpty
<1> QED  BY <1>3, <1>4

LEMMA CutLines ==
  ASSUME Reading, NEW u \in Breaks(stream), CutBehind(u)
  PROVE  /\ IsPrefix(Front(tokens), LinesOf(Written))
         /\ IsPrefix(Last(tokens),
                     Append(LinesOf(Written), DropCR(RestOf(Written)))[Len(tokens)])
         /\ used = wrote => /\ tokens = LinesOf(Written) \o <<DropCR(RestOf(Written))>>
                            /\ RestOf(Written) # << >>
<1> DEFINE C == Range(stream)  r == Rank(Breaks(Written), u)
           ls == LinesTo(Written, u)  cut == DropCR(SubSeq(Written, u + 1, used))
<1>1. /\ u < used /\ \A z \in Breaks(stream) : z <= u \/ used < z
      /\ tokens = Append(LinesTo(stream, u), DropCR(SubSeq(stream, u + 1, used)))
  BY DEF CutBehind
<1>2. u \in Int /\ u <= used
  <2>1. u \in 0..Len(stream)
    BY BreaksFinite DEF Reading
  <2> QED  BY <1>1, <2>1, BufferFacts
<1>3. /\ Written \in Seq(C) /\ Len(Written) = wrote
      /\ u \in Breaks(Written) /\ u \in Nat /\ ls = LinesTo(stream, u)
      /\ \A z \in Breaks(Written) : z \in Breaks(stream) /\ z <= wrote /\ z \in Int
  BY <1>2, WrittenFacts
<1>4. SubSeq(Written, u + 1, used) = SubSeq(stream, u + 1, used)
      /\ SubSeq(Written, u + 1, used) \in Seq(C)
  <2>1. stream \in Seq(C)
    BY DEF Reading
  <2> QED  BY <1>2, <1>3, <2>1, BufferFacts, SMTT(20) DEF Written
<1>5. tokens = Append(ls, cut)
  BY <1>1, <1>3, <1>4
<1>6. ls \in Seq(Seq(C)) /\ Len(ls) = r /\ r \in Nat /\ IsPrefix(ls, LinesOf(Written))
  <2>1. r \in 0..Len(LinesOf(Written)) /\ Len(LinesOf(Written)) \in Nat
    BY <1>3, LinesToPrefix, LinesType, LenProperties
  <2> QED  BY <1>3, <2>1, LinesToPrefix
<1>7. cut \in Seq(C)
  BY <1>4, DropCRType
<1>8. IsPrefix(cut, Append(LinesOf(Written), DropCR(RestOf(Written)))[r + 1])
  <2>1. used \in u..Len(Written) /\ \A z \in Breaks(Written) : z <= u \/ used < z
    BY <1>1, <1>2, <1>3, BufferFacts
  <2> QED  BY <1>3, <2>1, CutLine
<1>9. ASSUME used = wrote
      PROVE  /\ tokens = LinesOf(Written) \o <<DropCR(RestOf(Written))>>
             /\ RestOf(Written) # << >>
  <2>1. \A z \in Breaks(Written) : z <= u
    BY <1>1, <1>3, <1>9, BufferFacts
  <2>2. ls = LinesOf(Written) /\ RestOf(Written) = SubSeq(Written, u + 1, used)
    BY <1>3, <1>9, <2>1, LinesToLast
  <2>3. tokens = ls \o <<cut>>
    <3> HIDE DEF ls, cut
    <3> QED  BY <1>5, <1>6, <1>7
  <2>4. Len(SubSeq(Written, u + 1, used)) = used - u
    BY <1>2, <1>3, <1>9, BufferFacts
  <2>5. RestOf(Written) # << >>
    <3>1. used - u # 0
      BY <1>1, <1>2, BufferFacts
    <3>2. Len(<< >>) = 0
      BY EmptySeq
    <3> QED  BY <2>2, <2>4, <3>1, <3>2
  <2> QED  BY <2>2, <2>3, <2>5
<1> HIDE DEF ls, cut, r
<1>10. Front(tokens) = ls /\ Last(tokens) = cut /\ Len(tokens) = r + 1
  BY <1>5, <1>6, <1>7 DEF Front, Last
<1> QED  BY <1>6, <1>8, <1>9, <1>10

\* However the network cuts a client's text up and however reading it ends,
\* parse is called with the client's lines in order, each once, and only the
\* last call may be for the beginning of a line.
THEOREM LinesRight == Spec => []LinesFaithful
<1> SUFFICES ASSUME InputInv PROVE LinesFaithful
  BY InputInvariant, PTL
<1>1. Reading /\ Faithful
  BY DEF InputInv
<1>2. \/ IsPrefix(tokens, LinesOf(Written))
      \/ /\ err \in {"EOF", "timeout", "reset"}
         /\ IsPrefix(Front(tokens), LinesOf(Written))
         /\ IsPrefix(Last(tokens),
                     Append(LinesOf(Written), DropCR(RestOf(Written)))[Len(tokens)])
  <2>1. CASE Uncut
    BY <1>1, <2>1, UncutLines
  <2>2. CASE LastCut
    BY <1>1, <2>2, CutLines DEF LastCut
  <2> QED  BY <1>1, <2>1, <2>2 DEF Faithful
<1>3. ASSUME pc = "closed", err = "EOF"
      PROVE  tokens = LinesOf(Written)
                  \o IF RestOf(Written) = << >> THEN << >> ELSE <<DropCR(RestOf(Written))>>
  <2>1. used = wrote /\ wrote \in Nat
    BY <1>1, <1>3, BufferFacts DEF Reading
  <2>2. CASE Uncut
    <3>1. tokens = LinesOf(Written) /\ RestOf(Written) = << >>
      BY <1>1, <2>1, <2>2, UncutLines
    <3>2. LinesOf(Written) \in Seq(Seq(Range(stream)))
      <4>1. Written \in Seq(Range(stream))
        <5>1. used <= used
          BY <1>1, BufferFacts
        <5> QED  BY <1>1, <2>2, <5>1, WrittenFacts DEF Uncut
      <4> QED  BY <4>1, LinesType
    <3>3. LinesOf(Written) \o << >> = LinesOf(Written)
      BY <3>2, ConcatEmptySeq
    <3> QED  BY <3>1, <3>3
  <2>3. CASE LastCut
    BY <1>1, <2>1, <2>3, CutLines DEF LastCut
  <2> QED  BY <1>1, <2>2, <2>3 DEF Faithful
<1>4. ASSUME pc = "closed", err = "too long"
      PROVE  \E i \in DOMAIN LinesOf(Ended(stream)) :
               Len(LinesOf(Ended(stream))[i]) >= MaxToken - 1
  <2>1. Uncut /\ ~HasLine /\ got - used >= MaxToken
    BY <1>1, <1>4, BufferFacts DEF Faithful, LastCut, Reading
  <2>2. /\ stream \in Seq(Range(stream)) /\ used \in Breaks(stream)
        /\ got \in used..Len(stream) /\ \A z \in Breaks(stream) : z <= used \/ got < z
    <3>1. stream \in Seq(Range(stream))
      BY <1>1 DEF Reading
    <3>2. got \in used..Len(stream)
      BY <1>1, BufferFacts
    <3>3. \A z \in Breaks(stream) : z <= used \/ got < z
      BY <1>1, <2>1, NoLine
    <3> QED  BY <2>1, <3>1, <3>2, <3>3 DEF Uncut
  <2>3. PICK i \in DOMAIN LinesOf(Ended(stream)) :
          /\ LinesOf(Ended(stream))[i] \in Seq(Range(stream) \cup {NL})
          /\ Len(LinesOf(Ended(stream))[i]) >= got - used - 1
    BY <2>2, BeginsLine
  <2>4. Len(LinesOf(Ended(stream))[i]) \in Nat
    BY <2>3, LenProperties
  <2>5. Len(LinesOf(Ended(stream))[i]) >= MaxToken - 1
    BY <1>1, <2>1, <2>3, <2>4, BufferFacts, ConnectionAssumption
  <2> QED  BY <2>5
<1> QED  BY <1>2, <1>3, <1>4 DEF LinesFaithful, Ended

-----------------------------------------------------------------------------
(* The fields of a line *)

LEMMA HasMax ==
  ASSUME NEW S, S \subseteq Int, IsFiniteSet(S), S # {}
  PROVE  Max(S) \in S /\ \A z \in S : z <= Max(S)
<1>1. PICK x \in S : TRUE
  OBVIOUS
<1>2. Cardinality(S) - 1 \in 0..(Cardinality(S) - 1)
  <2>1. Rank(S, x) \in 0..(Cardinality(S) - 1) /\ Cardinality(S) \in Nat
    BY RankType, FS_CardinalityType
  <2> QED  BY <2>1
<1>3. PICK m \in S : Rank(S, m) = Cardinality(S) - 1
  BY <1>2, NthMember
<1>4. ASSUME NEW z \in S, ~(z <= m) PROVE FALSE
  <2>1. m < z /\ Cardinality(S) \in Nat
    BY <1>4, FS_CardinalityType
  <2>2. Rank(S, m) < Rank(S, z) /\ Rank(S, z) \in 0..(Cardinality(S) - 1)
    BY <2>1, RankGrows, RankType
  <2> QED  BY <1>3, <2>1, <2>2
<1>5. \A z \in S : z <= m
  BY <1>4
<1>6. \E n \in S : \A z \in S : n >= z
  BY <1>5
<1>7. Max(S) \in S /\ \A z \in S : Max(S) >= z
  BY <1>6 DEF Max
<1> QED  BY <1>7

LEMMA FieldEndFacts ==
  ASSUME NEW C, NEW s \in Seq(C), NEW i \in Starts(s)
  PROVE  /\ i \in 1..Len(s) /\ FieldEnd(s, i) \in i..Len(s)
         /\ \A k \in i..FieldEnd(s, i) : s[k] \notin Spaces
         /\ \A j \in i..Len(s) : (\A k \in i..j : s[k] \notin Spaces) => j <= FieldEnd(s, i)
<1> DEFINE J == {j \in i..Len(s) : \A k \in i..j : s[k] \notin Spaces}
<1>1. Len(s) \in Nat /\ i \in 1..Len(s) /\ s[i] \notin Spaces
  BY DEF Starts
<1>2. i \in J
  <2>1. i \in i..Len(s) /\ \A k \in i..i : k = i
    BY <1>1
  <2> QED  BY <1>1, <2>1
<1>3. IsFiniteSet(J) /\ J \subseteq Int
  <2>1. IsFiniteSet(i..Len(s)) /\ i..Len(s) \subseteq Int
    BY <1>1, FS_Interval
  <2> QED  BY <2>1, FS_Subset
<1>4. Max(J) \in J /\ \A z \in J : z <= Max(J)
  BY <1>2, <1>3, HasMax
<1>5. FieldEnd(s, i) = Max(J)
  BY DEF FieldEnd
<1> QED  BY <1>1, <1>4, <1>5

LEMMA StartsFacts ==
  ASSUME NEW C, NEW s \in Seq(C)
  PROVE  /\ Starts(s) \subseteq Int /\ IsFiniteSet(Starts(s))
         /\ Cardinality(Starts(s)) \in Nat
         /\ Fields(s) \in Seq(Seq(C)) /\ Len(Fields(s)) = Cardinality(Starts(s))
<1>1. Len(s) \in Nat /\ DOMAIN s = 1..Len(s)
  OBVIOUS
<1>2. Starts(s) \subseteq 1..Len(s)
  BY <1>1 DEF Starts
<1>3. Starts(s) \subseteq Int /\ IsFiniteSet(Starts(s))
  <2>1. IsFiniteSet(1..Len(s)) /\ 1..Len(s) \subseteq Int
    BY <1>1, FS_Interval
  <2> QED  BY <1>2, <2>1, FS_Subset
<1>4. Cardinality(Starts(s)) \in Nat
  BY <1>3, FS_CardinalityType
<1> DEFINE n == Cardinality(Starts(s))
<1>5. \A k \in 1..n : Fields(s)[k] \in Seq(C)
  <2> TAKE k \in 1..n
  <2>1. k - 1 \in 0..(n - 1)
    BY <1>4
  <2> DEFINE i == Nth(Starts(s), k - 1)
  <2>2. i \in Starts(s)
    BY <1>3, <2>1, NthMember
  <2>3. FieldEnd(s, i) \in i..Len(s) /\ i \in 1..Len(s)
    BY <2>2, FieldEndFacts
  <2>4. Fields(s)[k] = SubSeq(s, i, FieldEnd(s, i))
    BY DEF Fields, FieldFrom
  <2> HIDE DEF i
  <2> DEFINE e == FieldEnd(s, i)
  <2> HIDE DEF e
  <2>5. SubSeq(s, i, e) \in Seq(C)
    <3>1. i \in 1..Len(s) /\ e \in i..Len(s)
      BY <2>3 DEF e
    <3> QED  BY <1>1, <3>1
  <2> QED  BY <2>4, <2>5 DEF e
<1>6. Fields(s) = [k \in 1..n |-> Fields(s)[k]]
  BY DEF Fields
<1> HIDE DEF n
<1>7. Fields(s) \in Seq(Seq(C)) /\ Len(Fields(s)) = n
  BY <1>4, <1>5, <1>6, SMTT(20) DEF n
<1> QED  BY <1>3, <1>4, <1>7 DEF n

\* A field of the beginning of a line begins a field of the line, and is one of
\* it when a space follows.
LEMMA FieldOfPrefix ==
  ASSUME NEW C, NEW t \in Seq(C), NEW s \in Seq(C), IsPrefix(t, s), NEW i \in Starts(t)
  PROVE  /\ i \in Starts(s)
         /\ IsPrefix(FieldFrom(t, i), FieldFrom(s, i))
         /\ (\E p \in i..Len(t) : t[p] \in Spaces) => FieldFrom(t, i) = FieldFrom(s, i)
<1>1. /\ Len(t) \in Nat /\ Len(s) \in Nat /\ Len(t) <= Len(s)
      /\ \A k \in 1..Len(t) : t[k] = s[k]
      /\ DOMAIN t = 1..Len(t) /\ DOMAIN s = 1..Len(s)
  <2>1. SubSeq(t, 1, Len(t)) = t
    OBVIOUS
  <2>2. Len(t) \in Nat /\ Len(s) \in Nat /\ Len(t) <= Len(s) /\ t = SubSeq(s, 1, Len(t))
    BY <2>1 DEF IsPrefix
  <2> QED  BY <2>2
<1>2. i \in Starts(s)
  <2>1. i \in 1..Len(t) /\ t[i] \notin Spaces /\ (i = 1 \/ t[i - 1] \in Spaces)
    BY <1>1 DEF Starts
  <2>2. i \in 1..Len(s) /\ (i # 1 => i - 1 \in 1..Len(t))
    BY <1>1, <2>1
  <2> QED  BY <1>1, <2>1, <2>2 DEF Starts
<1> DEFINE d == FieldEnd(t, i)  e == FieldEnd(s, i)
<1>3. /\ i \in 1..Len(t) /\ d \in i..Len(t) /\ \A k \in i..d : t[k] \notin Spaces
      /\ \A j \in i..Len(t) : (\A k \in i..j : t[k] \notin Spaces) => j <= d
  BY FieldEndFacts
<1>4. /\ e \in i..Len(s) /\ \A k \in i..e : s[k] \notin Spaces
      /\ \A j \in i..Len(s) : (\A k \in i..j : s[k] \notin Spaces) => j <= e
  BY <1>2, FieldEndFacts
<1> HIDE DEF d, e
<1>5. /\ i \in Nat /\ d \in Nat /\ e \in Nat
      /\ 1 <= i /\ i <= d /\ d <= Len(t) /\ i <= e /\ e <= Len(s)
  BY <1>1, <1>3, <1>4
<1>6. d <= e
  <2>1. d \in i..Len(s) /\ \A k \in i..d : k \in 1..Len(t)
    BY <1>1, <1>5
  <2>2. \A k \in i..d : s[k] \notin Spaces
    BY <1>1, <1>3, <2>1
  <2> QED  BY <1>4, <2>1, <2>2
<1>7. SubSeq(t, i, d) = SubSeq(s, i, d)
  BY <1>1, <1>5
<1>8. IsPrefix(FieldFrom(t, i), FieldFrom(s, i))
  <2>1. i - 1 \in Nat /\ d \in (i - 1)..Len(s) /\ e \in d..Len(s) /\ (i - 1) + 1 = i
    BY <1>1, <1>5, <1>6
  <2>2. IsPrefix(SubSeq(s, (i - 1) + 1, d), SubSeq(s, (i - 1) + 1, e))
    BY <2>1, SubSeqPrefix
  <2> QED  BY <1>7, <2>1, <2>2 DEF FieldFrom, d, e
<1>9. ASSUME NEW p \in i..Len(t), t[p] \in Spaces PROVE FieldFrom(t, i) = FieldFrom(s, i)
  <2>1. p \in Nat /\ i <= p /\ p <= Len(t) /\ ~(p <= d)
    BY <1>1, <1>3, <1>5, <1>9
  <2>2. \E k \in i..(d + 1) : t[k] \in Spaces
    <3>1. d + 1 \in i..Len(t)
      BY <1>5, <2>1
    <3>2. ~(d + 1 <= d)
      BY <1>5
    <3> QED  BY <1>3, <3>1, <3>2
  <2>3. PICK k \in i..(d + 1) : t[k] \in Spaces
    BY <2>2
  <2>4. k = d + 1
    BY <1>3, <1>5, <2>3
  <2>5. s[d + 1] \in Spaces
    BY <1>1, <1>5, <2>1, <2>3, <2>4
  <2>6. ~(d + 1 <= e)
    BY <1>4, <1>5, <2>5
  <2>7. d = e
    BY <1>5, <1>6, <2>6
  <2> QED  BY <1>7, <2>7 DEF FieldFrom, d, e
<1> QED  BY <1>2, <1>8, <1>9

\* What parse takes from the beginning of a line for the first two of three
\* fields are fields of the line, and the third begins one.
From(f, g) ==
  /\ Len(g) >= 3 /\ f[1] = g[1] /\ f[2] = g[2] /\ IsPrefix(f[3], g[3])

LEMMA StartsOfPrefix ==
  ASSUME NEW C, NEW t \in Seq(C), NEW s \in Seq(C), IsPrefix(t, s)
  PROVE  Starts(t) = Upto(Starts(s), Len(t))
<1>1. /\ Len(t) \in Nat /\ Len(s) \in Nat /\ Len(t) <= Len(s)
      /\ \A k \in 1..Len(t) : t[k] = s[k]
      /\ DOMAIN t = 1..Len(t) /\ DOMAIN s = 1..Len(s)
  <2>1. SubSeq(t, 1, Len(t)) = t
    OBVIOUS
  <2>2. Len(t) \in Nat /\ Len(s) \in Nat /\ Len(t) <= Len(s) /\ t = SubSeq(s, 1, Len(t))
    BY <2>1 DEF IsPrefix
  <2> QED  BY <2>2
<1>2. ASSUME NEW i PROVE i \in Starts(t) <=> i \in Starts(s) /\ i <= Len(t)
  <2>1. i \in 1..Len(t) <=> i \in 1..Len(s) /\ i <= Len(t)
    BY <1>1
  <2>2. i \in 1..Len(t) => i = 1 \/ i - 1 \in 1..Len(t)
    BY <1>1
  <2>3. i \in 1..Len(t) => t[i] = s[i] /\ (i = 1 \/ t[i - 1] = s[i - 1])
    BY <1>1, <2>2
  <2> QED  BY <1>1, <2>1, <2>3 DEF Starts
<1> QED  BY <1>2 DEF Upto

LEMMA FieldsOfPrefix ==
  ASSUME NEW C, NEW t \in Seq(C), NEW s \in Seq(C), IsPrefix(t, s), Len(Fields(t)) = 3
  PROVE  From(Fields(t), Fields(s))
<1> DEFINE T == Starts(t)  S == Starts(s)  i(k) == Nth(T, k)
<1>1. /\ T = Upto(S, Len(t)) /\ Cardinality(T) = 3 /\ Len(t) \in Int
      /\ T \subseteq Int /\ IsFiniteSet(T) /\ S \subseteq Int /\ IsFiniteSet(S)
      /\ Cardinality(S) \in Nat
  <2>1. T = Upto(S, Len(t))
    BY StartsOfPrefix
  <2>2. T \subseteq Int /\ IsFiniteSet(T) /\ Len(Fields(t)) = Cardinality(T)
    BY StartsFacts
  <2>3. S \subseteq Int /\ IsFiniteSet(S) /\ Cardinality(S) \in Nat
    BY StartsFacts
  <2>4. Len(t) \in Int
    OBVIOUS
  <2> QED  BY <2>1, <2>2, <2>3, <2>4
<1>2. ASSUME NEW k \in 0..2
      PROVE  /\ i(k) \in T /\ Rank(T, i(k)) = k /\ i(k) = Nth(S, k)
             /\ k \in 0..(Cardinality(S) - 1)
  <2>1. k \in 0..(Cardinality(T) - 1) /\ k \in 0..(Cardinality(Upto(S, Len(t))) - 1)
    BY <1>1
  <2>2. i(k) \in T /\ Rank(T, i(k)) = k
    BY <1>1, <2>1, NthMember
  <2>3. Nth(Upto(S, Len(t)), k) = Nth(S, k) /\ k \in 0..(Cardinality(S) - 1)
    BY <1>1, <2>1, NthUpto
  <2> QED  BY <1>1, <2>2, <2>3
<1>3. Cardinality(S) >= 3
  <2>1. 2 \in 0..(Cardinality(S) - 1)
    BY <1>2
  <2> QED  BY <1>1, <2>1
<1>4. ASSUME NEW k \in 0..1 PROVE i(k) < i(k + 1)
  <2>1. k \in 0..2 /\ k + 1 \in 0..2 /\ k < k + 1
    OBVIOUS
  <2>2. i(k) \in T /\ i(k + 1) \in T /\ Rank(T, i(k)) = k /\ Rank(T, i(k + 1)) = k + 1
    BY <1>2, <2>1
  <2> DEFINE a == i(k)  b == i(k + 1)
  <2> HIDE DEF a, b, i
  <2>3. a \in Int /\ b \in Int /\ a # b
    BY <1>1, <2>1, <2>2 DEF a, b
  <2>4. b < a => Rank(T, b) < Rank(T, a)
    BY <1>1, <2>2, RankGrows DEF a, b
  <2>5. ~(b < a)
    BY <2>1, <2>2, <2>4 DEF a, b
  <2> QED  BY <2>3, <2>5 DEF a, b
<1>5. ASSUME NEW k \in 0..1 PROVE FieldFrom(t, i(k)) = FieldFrom(s, i(k))
  <2>1. k \in 0..2 /\ k + 1 \in 0..2
    OBVIOUS
  <2>2. i(k) \in T /\ i(k + 1) \in T /\ i(k) < i(k + 1)
    BY <1>2, <1>4, <2>1
  <2> DEFINE a == i(k)  b == i(k + 1)
  <2>3. a \in T /\ b \in T /\ a < b
    BY <2>2
  <2> HIDE DEF a, b, i
  <2>4. /\ a \in 1..Len(t) /\ b \in 1..Len(t) /\ t[a] \notin Spaces
        /\ (b = 1 \/ t[b - 1] \in Spaces) /\ Len(t) \in Nat
    BY <2>3 DEF Starts
  <2>5. b - 1 \in a..Len(t) /\ t[b - 1] \in Spaces
    BY <2>3, <2>4
  <2>6. FieldFrom(t, a) = FieldFrom(s, a)
    BY <2>3, <2>5, FieldOfPrefix
  <2> QED  BY <2>6 DEF a
<1>6. IsPrefix(FieldFrom(t, i(2)), FieldFrom(s, i(2)))
  <2>1. i(2) \in T
    BY <1>2
  <2> HIDE DEF i
  <2> QED  BY <2>1, FieldOfPrefix
<1>7. /\ Fields(t)[1] = FieldFrom(t, i(0)) /\ Fields(t)[2] = FieldFrom(t, i(1))
      /\ Fields(t)[3] = FieldFrom(t, i(2))
  BY <1>1 DEF Fields
<1>8. /\ Fields(s)[1] = FieldFrom(s, i(0)) /\ Fields(s)[2] = FieldFrom(s, i(1))
      /\ Fields(s)[3] = FieldFrom(s, i(2))
  <2>1. i(0) = Nth(S, 0) /\ i(1) = Nth(S, 1) /\ i(2) = Nth(S, 2)
    BY <1>2
  <2>2. 1 \in 1..Cardinality(S) /\ 2 \in 1..Cardinality(S) /\ 3 \in 1..Cardinality(S)
    BY <1>1, <1>3
  <2> QED  BY <2>1, <2>2 DEF Fields
<1>9. Len(Fields(s)) >= 3
  BY <1>3, StartsFacts
<1> HIDE DEF i
<1>10. FieldFrom(t, i(0)) = FieldFrom(s, i(0)) /\ FieldFrom(t, i(1)) = FieldFrom(s, i(1))
  BY <1>5
<1> QED  BY <1>6, <1>7, <1>8, <1>9, <1>10 DEF From

\* What was accepted came from a line of the client's.
AcceptedRight ==
  /\ accepted \in Seq(Seq(Seq(Range(stream) \cup {NL})))
  /\ \A i \in DOMAIN accepted :
       \E j \in DOMAIN LinesOf(Ended(stream)) :
         From(accepted[i], Fields(LinesOf(Ended(stream))[j]))

LEMMA NextAccepted ==
  ASSUME InputInv, AcceptedRight, [Next]_vars
  PROVE  AcceptedRight'
<1> DEFINE C == Range(stream) \cup {NL}  l == LinesOf(Ended(stream))
           Right(f) == \E j \in DOMAIN l : From(f, Fields(l[j]))
<1>1. stream' = stream
  BY StreamStays
<1>2. CASE Parse /\ Accepts(token)
  <2>1. accepted' = Append(accepted, Fields(token)) /\ Len(Fields(token)) = 3
    BY <1>2 DEF Parse, Accepts
  <2>2. PICK j \in DOMAIN l : token \in Seq(C) /\ l[j] \in Seq(C) /\ IsPrefix(token, l[j])
    BY <1>2 DEF InputInv, TokenRight, Parse
  <2>3. Fields(token) \in Seq(Seq(C)) /\ From(Fields(token), Fields(l[j]))
    BY <2>1, <2>2, StartsFacts, FieldsOfPrefix
  <2>4. Right(Fields(token))
    BY <2>3
  <2>5. accepted \in Seq(Seq(Seq(C))) /\ \A i \in DOMAIN accepted : Right(accepted[i])
    BY DEF AcceptedRight
  <2> HIDE DEF Right, C, l
  <2>6. accepted' \in Seq(Seq(Seq(C))) /\ \A i \in DOMAIN accepted' : Right(accepted'[i])
    BY <2>1, <2>3, <2>4, <2>5
  <2> QED  BY <1>1, <2>6 DEF AcceptedRight, Right, C, l
<1>3. CASE ~(Parse /\ Accepts(token))
  <2>1. accepted' = accepted
    BY <1>3 DEF Next, vars, client, handler, Write, Hangup, Split, Read, ReadFails, SocketError, Close,
                Parse, Tick
  <2> QED  BY <1>1, <2>1 DEF AcceptedRight
<1> QED  BY <1>2, <1>3

\* A line that was cut off may pass parse's checks, but then only its last
\* field is cut: every metric name and value is one the client wrote.
THEOREM OnlyLastFieldCut == Spec => []MetricNeverCut
<1>1. Init => AcceptedRight
  BY DEF Init, AcceptedRight
<1>2. InputInv /\ AcceptedRight /\ [Next]_vars => AcceptedRight'
  BY NextAccepted
<1>3. AcceptedRight => MetricNeverCut
  BY DEF AcceptedRight, MetricNeverCut, From, Ended
<1> QED  BY InputInvariant, <1>1, <1>2, <1>3, PTL DEF Spec
=============================================================================
