---------------------------- MODULE GcfgProofs ----------------------------
(***************************************************************************)
(* Theorems about reading a configuration, for every text: no literal that *)
(* the scanner accepts makes unquote panic, a reading that fails has set   *)
(* what the statements before the failing one set and the number a refused *)
(* value begins with, a text with CR LF line ends reads like the one with  *)
(* LF, and a value is what the text means.                                 *)
(***************************************************************************)
EXTENDS Gcfg, TLAPS, SequenceTheorems, FiniteSetTheorems, WellFoundedInduction

-----------------------------------------------------------------------------
(* Loops: the scanner's are recursive functions on the states of the loop, *)
(* each turn of which leaves less to do.                                   *)

LEMMA Least ==
  ASSUME NEW T \in SUBSET Nat, T # {}
  PROVE  \E x \in T : \A y \in T : x <= y
<1>1. PICK x \in T : \A y \in T : <<y, x>> \notin OpToRel(<, Nat)
  BY WFMin, NatLessThanWellFounded
<1>2. \A y \in T : ~(y < x)
  BY <1>1 DEF OpToRel
<1> QED  BY <1>2

\* A loop on the states D that ends in those of S; `left` is what is left to do.
Ending(D, S, turn, left, K) ==
  /\ S \subseteq D /\ turn \in [D -> D] /\ K \in Nat /\ left \in [D -> 0..K]
  /\ \A v \in D \ S : left[turn[v]] < left[v]

Looped(D, S, turn, g) == [v \in D |-> IF v \in S THEN v ELSE g[turn[v]]]

Kept(D, S, turn, I) == I \subseteq D /\ \A v \in I \ S : turn[v] \in I

\* Its recursive definition defines something.
LEMMA LoopDefined ==
  ASSUME NEW D, NEW S, NEW turn, NEW left, NEW K, Ending(D, S, turn, left, K)
  PROVE  \E g : g = Looped(D, S, turn, g)
<1> DEFINE Upto(k, g) == \A v \in D : left[v] < k => g[v] = Looped(D, S, turn, g)[v]
           T == {k \in Nat : ~\E g : Upto(k, g)}
<1>a. \A v \in D : left[v] \in 0..K /\ turn[v] \in D
  BY DEF Ending
<1>1. T = {}
  <2> SUFFICES ASSUME T # {} PROVE FALSE  OBVIOUS
  <2>1. PICK k \in T : \A j \in T : k <= j  BY Least
  <2>2. k # 0
    <3>1. Upto(0, D)  BY <1>a
    <3> QED  BY <2>1, <3>1
  <2>3. k - 1 \in Nat /\ k - 1 \notin T  BY <2>1, <2>2
  <2>4. PICK g : Upto(k - 1, g)  BY <2>3
  <2> DEFINE h == Looped(D, S, turn, g)
  <2>5. ASSUME NEW v \in D, left[v] < k
        PROVE  h[v] = Looped(D, S, turn, h)[v]
    <3>1. CASE v \in S  BY <3>1 DEF Looped
    <3>2. CASE v \notin S
      <4>1. turn[v] \in D /\ left[turn[v]] < k - 1
        BY <1>a, <2>1, <2>5, <3>2 DEF Ending
      <4>2. g[turn[v]] = h[turn[v]]  BY <2>4, <4>1
      <4> HIDE DEF h
      <4>3. h[v] = g[turn[v]]  BY <3>2 DEF h, Looped
      <4>4. Looped(D, S, turn, h)[v] = h[turn[v]]  BY <3>2 DEF Looped
      <4> QED  BY <4>2, <4>3, <4>4
    <3> QED  BY <3>1, <3>2
  <2> HIDE DEF h
  <2>6. Upto(k, h)  BY <2>5
  <2> QED  BY <2>1, <2>6
<1>2. K + 1 \in Nat  BY DEF Ending
<1>3. PICK g : Upto(K + 1, g)  BY <1>1, <1>2
<1>4. \A v \in D : left[v] < K + 1  BY <1>a DEF Ending
<1> DEFINE h == Looped(D, S, turn, g)
<1>5. \A v \in D : g[v] = h[v]  BY <1>3, <1>4
<1>6. h = Looped(D, S, turn, h)
  <2>1. \A v \in D : turn[v] \in D => g[turn[v]] = h[turn[v]]  BY <1>5
  <2>2. \A v \in D : g[turn[v]] = h[turn[v]]  BY <1>a, <2>1
  <2> HIDE DEF h
  <2>3. h = [v \in D |-> IF v \in S THEN v ELSE g[turn[v]]]  BY DEF h, Looped
  <2>4. \A v \in D : (IF v \in S THEN v ELSE g[turn[v]]) = (IF v \in S THEN v ELSE h[turn[v]])
    BY <2>2
  <2> QED  BY <2>3, <2>4 DEF Looped
<1> QED  BY <1>6

\* What every turn keeps holds where the loop ends.
LEMMA LoopKeeps ==
  ASSUME NEW D, NEW S, NEW turn, NEW left, NEW K, Ending(D, S, turn, left, K),
         NEW g, g = Looped(D, S, turn, g),
         NEW I, Kept(D, S, turn, I)
  PROVE  \A v \in I : g[v] \in I /\ g[v] \in S
<1>0. I \subseteq D /\ \A v \in I \ S : turn[v] \in I  BY DEF Kept
<1> DEFINE Wrong == {v \in I : ~(g[v] \in I /\ g[v] \in S)}
           T == {left[v] : v \in Wrong}
<1> SUFFICES ASSUME Wrong # {} PROVE FALSE  OBVIOUS
<1>1. T \subseteq Nat /\ T # {}  BY <1>0 DEF Ending
<1> HIDE DEF Wrong
<1>2. PICK n \in T : \A j \in T : n <= j  BY <1>1, Least
<1>3. PICK v \in Wrong : n = left[v]  BY <1>2
<1>4. v \in I /\ v \in D  BY <1>0, <1>3 DEF Wrong
<1>5. g[v] = IF v \in S THEN v ELSE g[turn[v]]  BY <1>4 DEF Looped
<1>6. v \notin S  BY <1>3, <1>4, <1>5 DEF Wrong
<1>7. turn[v] \in I /\ left[turn[v]] < left[v]  BY <1>0, <1>4, <1>6 DEF Ending
<1>8. turn[v] \in Wrong  BY <1>3, <1>5, <1>6, <1>7 DEF Wrong
<1>9. left[turn[v]] \in T  BY <1>8
<1>10. left[turn[v]] \in Nat /\ left[v] \in Nat
  <2>1. turn[v] \in D  BY <1>0, <1>7
  <2> QED  BY <1>4, <2>1 DEF Ending
<1> HIDE DEF T
<1> QED  BY <1>2, <1>3, <1>7, <1>9, <1>10

-----------------------------------------------------------------------------
(* Passes over a text, character by character: recursive functions of the  *)
(* number of characters seen.                                              *)

\* A pass over n characters in states X, from z on, and what it leads to.
Passing(X, n, z, h) == n \in Nat /\ z \in X /\ h \in [X \X (1..n) -> X]

Passed(X, n, z, h, u) ==
  u \in [0..n -> X] /\ u[0] = z /\ \A k \in 1..n : u[k] = h[<<u[k - 1], k>>]

LEMMA PassDefined ==
  ASSUME NEW X, NEW n, NEW z, NEW h, Passing(X, n, z, h)
  PROVE  \E u : Passed(X, n, z, h, u)
<1>0. n \in Nat /\ z \in X /\ h \in [X \X (1..n) -> X]  BY DEF Passing
<1> DEFINE Made(m, u) == u[0] = z /\ \A k \in 1..m : u[k] = h[<<u[k - 1], k>>]
           T == {m \in Nat : m <= n /\ ~\E u \in [0..m -> X] : Made(m, u)}
<1>1. T = {}
  <2> SUFFICES ASSUME T # {} PROVE FALSE  OBVIOUS
  <2>1. PICK m \in T : \A j \in T : m <= j  BY Least
  <2>2. m \in Nat /\ m <= n /\ ~\E u \in [0..m -> X] : Made(m, u)  BY <2>1
  <2>3. m # 0
    <3> DEFINE u == [k \in 0..0 |-> z]
    <3>1. u \in [0..0 -> X] /\ Made(0, u)  BY <1>0
    <3> HIDE DEF Made, u
    <3> QED  BY <2>2, <3>1
  <2>4. m - 1 \in Nat /\ m - 1 <= n /\ m - 1 \notin T
    <3>1. T \subseteq Nat  OBVIOUS
    <3> HIDE DEF T
    <3> QED  BY <1>0, <2>1, <2>2, <2>3, <3>1
  <2>5. PICK u \in [0..(m - 1) -> X] : Made(m - 1, u)  BY <2>4
  <2> DEFINE w == [k \in 0..m |-> IF k = m THEN h[<<u[m - 1], m>>] ELSE u[k]]
  <2>6. m - 1 \in 0..(m - 1) /\ u[m - 1] \in X /\ m \in 1..n  BY <1>0, <2>2, <2>3, <2>4
  <2>7. h[<<u[m - 1], m>>] \in X  BY <1>0, <2>6
  <2>8. w \in [0..m -> X]
    <3>1. \A k \in 0..m : k # m => k \in 0..(m - 1)  BY <2>2
    <3> QED  BY <2>7, <3>1
  <2>9. w[m] = h[<<u[m - 1], m>>] /\ \A k \in 0..(m - 1) : w[k] = u[k]
    BY <2>2
  <2> HIDE DEF w
  <2>10. Made(m, w)
    <3>1. w[0] = z  BY <2>4, <2>5, <2>9
    <3>2. ASSUME NEW k \in 1..m PROVE w[k] = h[<<w[k - 1], k>>]
      <4>1. k - 1 \in 0..(m - 1) /\ (k # m => k \in 1..(m - 1) /\ k \in 0..(m - 1))
        BY <2>2
      <4>2. w[k - 1] = u[k - 1]  BY <2>9, <4>1
      <4>3. CASE k = m  BY <2>9, <4>2, <4>3
      <4>4. CASE k # m
        <5>1. u[k] = h[<<u[k - 1], k>>] /\ w[k] = u[k]  BY <2>5, <2>9, <4>1, <4>4
        <5> QED  BY <4>2, <5>1
      <4> QED  BY <4>3, <4>4
    <3> QED  BY <3>1, <3>2
  <2> HIDE DEF Made
  <2> QED  BY <2>2, <2>8, <2>10
<1>2. n \notin T  BY <1>1
<1>3. PICK u \in [0..n -> X] : Made(n, u)  BY <1>0, <1>2
<1> QED  BY <1>3 DEF Passed

\* unquote.
State == [out : Seq(Char), q : BOOLEAN, esc : BOOLEAN, panic : BOOLEAN]

UnquoteAt(lit, u, k) == IF k = 0 THEN Unread ELSE UnquoteStep(u[k - 1], lit[k])

Unquotes(lit, n, u) == \A k \in 0..n : u[k] = UnquoteAt(lit, u, k)

UnquoteLoop(lit) == CHOOSE u : u = [k \in 0..Len(lit) |-> UnquoteAt(lit, u, k)]

LEMMA UnquotedIsLoop == \A lit : Unquoted(lit) = UnquoteLoop(lit)[Len(lit)]
BY DEF Unquoted, UnquoteLoop, UnquoteAt

LEMMA StepType == Unread \in State /\ \A u \in State, c \in Char : UnquoteStep(u, c) \in State
<1>1. Unread \in State  BY DEF Unread, State
<1>2. ASSUME NEW u \in State, NEW c \in Char PROVE UnquoteStep(u, c) \in State
  <2>1. u.out \in Seq(Char) /\ "nl" \in Char  BY DEF State, Char
  <2>2. Append(u.out, c) \in Seq(Char) /\ Append(u.out, "nl") \in Seq(Char)  BY <2>1
  <2> DEFINE d == IF c = "n" THEN "nl" ELSE c
  <2>3. Append(u.out, d) \in Seq(Char)  BY <2>2
  <2> HIDE DEF d
  <2>4. [u EXCEPT !.esc = FALSE, !.out = Append(@, d)] \in State  BY <2>3 DEF State
  <2>5. /\ [u EXCEPT !.esc = FALSE] \in State /\ [u EXCEPT !.panic = TRUE] \in State
        /\ [u EXCEPT !.q = ~@] \in State /\ [u EXCEPT !.esc = TRUE] \in State
        /\ [u EXCEPT !.out = Append(@, c)] \in State
    BY <2>2 DEF State
  <2> QED  BY <2>4, <2>5 DEF UnquoteStep, d
<1> QED  BY <1>1, <1>2

LEMMA UnquoteSame ==
  ASSUME NEW n \in Nat, NEW lit, NEW more, \A k \in 1..n : lit[k] = more[k],
         NEW u, Unquotes(lit, n, u), NEW w, Unquotes(more, n, w)
  PROVE  u[n] = w[n]
<1> DEFINE T == {k \in 0..n : w[k] # u[k]}
<1>1. T \subseteq Nat  OBVIOUS
<1> SUFFICES ASSUME T # {} PROVE FALSE  OBVIOUS
<1>2. PICK k \in T : \A j \in T : k <= j  BY <1>1, Least
<1>3. u[k] = UnquoteAt(lit, u, k) /\ w[k] = UnquoteAt(more, w, k)  BY <1>2 DEF Unquotes
<1>4. k # 0  BY <1>2, <1>3 DEF UnquoteAt
<1>5. k - 1 \in 0..n /\ k - 1 \notin T  BY <1>2, <1>4
<1>6. w[k - 1] = u[k - 1] /\ more[k] = lit[k]  BY <1>2, <1>4, <1>5
<1> QED  BY <1>2, <1>3, <1>4, <1>6 DEF UnquoteAt

LEMMA UnquotePass ==
  ASSUME NEW lit \in Seq(Char)
  PROVE  /\ Unquotes(lit, Len(lit), UnquoteLoop(lit))
         /\ Unquoted(lit) \in State
<1> DEFINE n == Len(lit)
           h == [w \in State \X (1..n) |-> UnquoteStep(w[1], lit[w[2]])]
<1>1. n \in Nat /\ \A k \in 1..n : lit[k] \in Char  OBVIOUS
<1>2. h \in [State \X (1..n) -> State]  BY <1>1, StepType
<1>3. \A v \in State, k \in 1..n : h[<<v, k>>] = UnquoteStep(v, lit[k])  OBVIOUS
<1> HIDE DEF h, n
<1>a. Passing(State, n, Unread, h)  BY <1>1, <1>2, StepType DEF Passing
<1>b. PICK u : Passed(State, n, Unread, h, u)  BY <1>a, PassDefined
<1>4. u \in [0..n -> State] /\ u[0] = Unread /\ \A k \in 1..n : u[k] = h[<<u[k - 1], k>>]
  BY <1>b DEF Passed
<1>5. ASSUME NEW k \in 0..n PROVE u[k] = UnquoteAt(lit, u, k)
  <2>1. CASE k = 0  BY <1>4, <2>1 DEF UnquoteAt
  <2>2. CASE k # 0
    <3>1. k \in 1..n /\ k - 1 \in 0..n  BY <1>1, <2>2
    <3> QED  BY <1>3, <1>4, <2>2, <3>1 DEF UnquoteAt
  <2> QED  BY <2>1, <2>2
<1>6. u = [k \in 0..n |-> UnquoteAt(lit, u, k)]  BY <1>4, <1>5
<1> DEFINE c == UnquoteLoop(lit)
<1>7. c = [k \in 0..n |-> UnquoteAt(lit, c, k)]  BY <1>6 DEF UnquoteLoop, n
<1> HIDE DEF c
<1>8. Unquotes(lit, n, c) /\ Unquotes(lit, n, u)  BY <1>5, <1>7 DEF Unquotes
<1>9. c[n] = u[n]  BY <1>1, <1>8, UnquoteSame
<1>10. u[n] \in State  BY <1>1, <1>4
<1> QED  BY <1>8, <1>9, <1>10, UnquotedIsLoop DEF c, n

\* unquote of nothing, and of a literal with one character more.
LEMMA UnquoteNone == Unquoted(<< >>) = Unread
<1> DEFINE none == << >>
<1>1. none \in Seq(Char) /\ Len(none) = 0 /\ 0 \in 0..Len(none)  OBVIOUS
<1> HIDE DEF none
<1>2. UnquoteLoop(none)[0] = UnquoteAt(none, UnquoteLoop(none), 0)
  BY <1>1, UnquotePass DEF Unquotes
<1>3. Unquoted(none) = Unread  BY <1>1, <1>2, UnquotedIsLoop DEF UnquoteAt
<1> QED  BY <1>3 DEF none

LEMMA UnquoteOneMore ==
  ASSUME NEW lit \in Seq(Char), NEW c \in Char
  PROVE  Unquoted(Append(lit, c)) = UnquoteStep(Unquoted(lit), c)
<1> DEFINE more == Append(lit, c)
           u == UnquoteLoop(lit)
           w == UnquoteLoop(more)
           n == Len(lit)
<1>1. more \in Seq(Char) /\ Len(more) = n + 1 /\ n \in Nat /\ more[n + 1] = c
      /\ \A k \in 1..n : lit[k] = more[k]
  OBVIOUS
<1>2. Unquotes(lit, n, u) /\ Unquotes(more, n + 1, w)
  BY <1>1, UnquotePass
<1>3. Unquoted(lit) = u[n] /\ Unquoted(more) = w[n + 1]
  BY <1>1, UnquotedIsLoop
<1> HIDE DEF more, u, w, n
<1>4. Unquotes(more, n, w)  BY <1>1, <1>2 DEF Unquotes
<1>5. u[n] = w[n]  BY <1>1, <1>2, <1>4, UnquoteSame
<1>6. w[n + 1] = UnquoteStep(w[n], c)  BY <1>1, <1>2 DEF Unquotes, UnquoteAt
<1> QED  BY <1>3, <1>5, <1>6 DEF more

\* stripCR.
StripAt(b, u, k) == IF k = 0 THEN << >>
                    ELSE IF b[k] # "cr" THEN Append(u[k - 1], b[k]) ELSE u[k - 1]

Strips(b, n, u) == \A k \in 0..n : u[k] = StripAt(b, u, k)

StripLoop(b) == CHOOSE u : u = [k \in 0..Len(b) |-> StripAt(b, u, k)]

LEMMA StripIsLoop == \A b : stripCR(b) = StripLoop(b)[Len(b)]
BY DEF stripCR, StripLoop, StripAt

LEMMA StripSame ==
  ASSUME NEW n \in Nat, NEW b, NEW more, \A k \in 1..n : b[k] = more[k],
         NEW u, Strips(b, n, u), NEW w, Strips(more, n, w)
  PROVE  u[n] = w[n]
<1> DEFINE T == {k \in 0..n : w[k] # u[k]}
<1>1. T \subseteq Nat  OBVIOUS
<1> SUFFICES ASSUME T # {} PROVE FALSE  OBVIOUS
<1>2. PICK k \in T : \A j \in T : k <= j  BY <1>1, Least
<1>3. u[k] = StripAt(b, u, k) /\ w[k] = StripAt(more, w, k)  BY <1>2 DEF Strips
<1>4. k # 0  BY <1>2, <1>3 DEF StripAt
<1>5. k - 1 \in 0..n /\ k - 1 \notin T  BY <1>2, <1>4
<1>6. w[k - 1] = u[k - 1] /\ more[k] = b[k]  BY <1>2, <1>4, <1>5
<1> QED  BY <1>2, <1>3, <1>4, <1>6 DEF StripAt

LEMMA StripPass ==
  ASSUME NEW b \in Seq(Char)
  PROVE  Strips(b, Len(b), StripLoop(b)) /\ stripCR(b) \in Seq(Char)
<1> DEFINE n == Len(b)
           X == Seq(Char)
           h == [w \in X \X (1..n) |->
                   IF b[w[2]] # "cr" THEN Append(w[1], b[w[2]]) ELSE w[1]]
<1>1. n \in Nat /\ \A k \in 1..n : b[k] \in Char  OBVIOUS
<1>2. \A v \in X, k \in 1..n : (IF b[k] # "cr" THEN Append(v, b[k]) ELSE v) \in X
  BY <1>1
<1>3. h \in [X \X (1..n) -> X]  BY <1>2
<1>4. \A v \in X, k \in 1..n :
        h[<<v, k>>] = IF b[k] # "cr" THEN Append(v, b[k]) ELSE v
  OBVIOUS
<1>5. << >> \in X  OBVIOUS
<1> HIDE DEF h, n, X
<1>6. Passing(X, n, << >>, h)  BY <1>1, <1>3, <1>5 DEF Passing
<1>7. PICK u : Passed(X, n, << >>, h, u)  BY <1>6, PassDefined
<1>8. u \in [0..n -> X] /\ u[0] = << >> /\ \A k \in 1..n : u[k] = h[<<u[k - 1], k>>]
  BY <1>7 DEF Passed
<1>9. ASSUME NEW k \in 0..n PROVE u[k] = StripAt(b, u, k)
  <2>1. CASE k = 0  BY <1>8, <2>1 DEF StripAt
  <2>2. CASE k # 0
    <3>1. k \in 1..n /\ k - 1 \in 0..n  BY <1>1, <2>2
    <3> QED  BY <1>4, <1>8, <2>2, <3>1 DEF StripAt
  <2> QED  BY <2>1, <2>2
<1>10. u = [k \in 0..n |-> StripAt(b, u, k)]  BY <1>8, <1>9
<1> DEFINE c == StripLoop(b)
<1>11. c = [k \in 0..n |-> StripAt(b, c, k)]  BY <1>10 DEF StripLoop, n
<1> HIDE DEF c
<1>12. Strips(b, n, c) /\ Strips(b, n, u)  BY <1>9, <1>11 DEF Strips
<1>13. c[n] = u[n]  BY <1>1, <1>12, StripSame
<1>14. u[n] \in X  BY <1>1, <1>8
<1> QED  BY <1>12, <1>13, <1>14, StripIsLoop DEF c, n, X

LEMMA StripNone == stripCR(<< >>) = << >>
<1> DEFINE none == << >>
<1>1. none \in Seq(Char) /\ Len(none) = 0 /\ 0 \in 0..Len(none)  OBVIOUS
<1> HIDE DEF none
<1>2. StripLoop(none)[0] = StripAt(none, StripLoop(none), 0)
  BY <1>1, StripPass DEF Strips
<1>3. stripCR(none) = << >>  BY <1>1, <1>2, StripIsLoop DEF StripAt
<1> QED  BY <1>3 DEF none

LEMMA StripOneMore ==
  ASSUME NEW b \in Seq(Char), NEW c \in Char
  PROVE  stripCR(Append(b, c)) = IF c # "cr" THEN Append(stripCR(b), c) ELSE stripCR(b)
<1> DEFINE more == Append(b, c)
           u == StripLoop(b)
           w == StripLoop(more)
           n == Len(b)
<1>1. more \in Seq(Char) /\ Len(more) = n + 1 /\ n \in Nat /\ more[n + 1] = c
      /\ \A k \in 1..n : b[k] = more[k]
  OBVIOUS
<1>2. Strips(b, n, u) /\ Strips(more, n + 1, w)  BY <1>1, StripPass
<1>3. stripCR(b) = u[n] /\ stripCR(more) = w[n + 1]  BY <1>1, StripIsLoop
<1> HIDE DEF more, u, w, n
<1>4. Strips(more, n, w)  BY <1>1, <1>2 DEF Strips
<1>5. u[n] = w[n]  BY <1>1, <1>2, <1>4, StripSame
<1>6. w[n + 1] = IF c # "cr" THEN Append(w[n], c) ELSE w[n]
  BY <1>1, <1>2 DEF Strips, StripAt
<1> QED  BY <1>3, <1>5, <1>6 DEF more

\* The text with CR LF line ends is a text.
DosAt(x, u, k) == IF k = 0 THEN << >>
                  ELSE IF x[k] = "nl" /\ (k = 1 \/ x[k - 1] # "cr")
                  THEN Append(Append(u[k - 1], "cr"), "nl") ELSE Append(u[k - 1], x[k])

DosLoop(x) == CHOOSE u : u = [k \in 0..Len(x) |-> DosAt(x, u, k)]

LEMMA DosPass ==
  ASSUME NEW x \in Seq(Char)
  PROVE  /\ Dos(x) = DosLoop(x)[Len(x)]
         /\ \A k \in 0..Len(x) : /\ DosLoop(x)[k] = DosAt(x, DosLoop(x), k)
                                 /\ DosLoop(x)[k] \in Seq(Char)
<1> DEFINE n == Len(x)
           X == Seq(Char)
           Longer(v, k) == IF x[k] = "nl" /\ (k = 1 \/ x[k - 1] # "cr")
                           THEN Append(Append(v, "cr"), "nl") ELSE Append(v, x[k])
           h == [w \in X \X (1..n) |-> Longer(w[1], w[2])]
<1>1. n \in Nat /\ \A k \in 1..n : x[k] \in Char  OBVIOUS
<1>2. ASSUME NEW v \in X, NEW k \in 1..n PROVE Longer(v, k) \in X
  <2>1. "cr" \in Char /\ "nl" \in Char  BY DEF Char, White
  <2>2. Append(v, "cr") \in X /\ Append(v, x[k]) \in X  BY <1>1, <2>1
  <2>3. Append(Append(v, "cr"), "nl") \in X  BY <2>1, <2>2
  <2> QED  BY <2>2, <2>3
<1> HIDE DEF Longer
<1>3. h \in [X \X (1..n) -> X]  BY <1>2
<1>4. \A v \in X, k \in 1..n : h[<<v, k>>] = Longer(v, k)  OBVIOUS
<1>5. << >> \in X  OBVIOUS
<1> HIDE DEF h, n, X
<1>6. Passing(X, n, << >>, h)  BY <1>1, <1>3, <1>5 DEF Passing
<1>7. PICK u : Passed(X, n, << >>, h, u)  BY <1>6, PassDefined
<1>8. u \in [0..n -> X] /\ u[0] = << >> /\ \A k \in 1..n : u[k] = h[<<u[k - 1], k>>]
  BY <1>7 DEF Passed
<1>9. ASSUME NEW k \in 0..n PROVE u[k] = DosAt(x, u, k)
  <2>1. CASE k = 0  BY <1>8, <2>1 DEF DosAt
  <2>2. CASE k # 0
    <3>1. k \in 1..n /\ k - 1 \in 0..n  BY <1>1, <2>2
    <3> QED  BY <1>4, <1>8, <2>2, <3>1 DEF DosAt, Longer
  <2> QED  BY <2>1, <2>2
<1>10. u = [k \in 0..n |-> DosAt(x, u, k)]  BY <1>8, <1>9
<1> DEFINE c == DosLoop(x)
<1>11. c = [k \in 0..n |-> DosAt(x, c, k)]  BY <1>10 DEF DosLoop, n
<1>12. Dos(x) = c[n]  BY DEF Dos, DosLoop, DosAt, n
<1> HIDE DEF c
<1> DEFINE T == {k \in 0..n : c[k] \notin X}
<1>13. T = {}
  <2>1. T \subseteq Nat  OBVIOUS
  <2> SUFFICES ASSUME T # {} PROVE FALSE  OBVIOUS
  <2>2. PICK k \in T : \A j \in T : k <= j  BY <2>1, Least
  <2>3. c[k] = DosAt(x, c, k)  BY <1>11, <2>2
  <2>4. k # 0  BY <1>5, <2>2, <2>3 DEF DosAt
  <2>5. k \in 1..n /\ k - 1 \in 0..n /\ k - 1 \notin T  BY <1>1, <2>2, <2>4
  <2>6. c[k - 1] \in X /\ c[k] = Longer(c[k - 1], k)
    BY <2>3, <2>4, <2>5 DEF DosAt, Longer
  <2> QED  BY <1>2, <2>2, <2>5, <2>6
<1>14. \A k \in 0..n : c[k] = DosAt(x, c, k) /\ c[k] \in X  BY <1>11, <1>13
<1> QED  BY <1>12, <1>14 DEF X, c, n

LEMMA DosType ==
  ASSUME NEW x \in Seq(Char)
  PROVE  Dos(x) \in Seq(Char)
<1>1. Len(x) \in 0..Len(x)  OBVIOUS
<1> QED  BY <1>1, DosPass

-----------------------------------------------------------------------------
(* The text *)

LEMMA CharAt ==
  ASSUME NEW x \in Seq(Char), NEW i
  PROVE  /\ i \in 1..Len(x) <=> Ch(x, i) # EOF
         /\ i \in 1..Len(x) => Ch(x, i) = x[i] /\ x[i] \in Char
<1>1. EOF \notin Char  BY DEF EOF, Char, Letter, White
<1>2. DOMAIN x = 1..Len(x) /\ \A k \in 1..Len(x) : x[k] \in Char  OBVIOUS
<1> QED  BY <1>1, <1>2 DEF Ch

\* Where the text from p to before i is one character longer.
LEMMA OneCharMore ==
  ASSUME NEW x \in Seq(Char), NEW p \in 1..(Len(x) + 1), NEW i \in p..Len(x)
  PROVE  /\ SubSeq(x, p, p - 1) = << >>
         /\ SubSeq(x, p, i - 1) \in Seq(Char)
         /\ SubSeq(x, p, i) = Append(SubSeq(x, p, i - 1), x[i])
<1> DEFINE a == SubSeq(x, p, i - 1)
           b == SubSeq(x, p, i)
<1>1. Len(x) \in Nat /\ p \in Nat /\ i \in Nat /\ 1 <= p /\ p <= i /\ i <= Len(x)
      /\ \A k \in 1..Len(x) : x[k] \in Char
  OBVIOUS
<1>2. SubSeq(x, p, p - 1) = << >>  BY <1>1
<1>3. a \in Seq(Char) /\ Len(a) = i - p /\ \A k \in 1..(i - p) : a[k] = x[(p + k) - 1]
  BY <1>1
<1>4. b \in Seq(Char) /\ Len(b) = (i - p) + 1
      /\ \A k \in 1..((i - p) + 1) : b[k] = x[(p + k) - 1]
  BY <1>1
<1> HIDE DEF a, b
<1> DEFINE c == Append(a, x[i])
<1>5. c \in Seq(Char) /\ Len(c) = (i - p) + 1 /\ c[(i - p) + 1] = x[i]
      /\ \A k \in 1..(i - p) : c[k] = a[k]
  <2> DEFINE ch == x[i]
             n == i - p
  <2>1. ch \in Char /\ n \in Nat /\ a \in Seq(Char) /\ Len(a) = n  BY <1>1, <1>3
  <2> HIDE DEF ch, n
  <2>2. /\ Append(a, ch) \in Seq(Char) /\ Len(Append(a, ch)) = n + 1
        /\ Append(a, ch)[n + 1] = ch /\ \A k \in 1..n : Append(a, ch)[k] = a[k]
    BY <2>1
  <2> QED  BY <2>2 DEF ch, n
<1> HIDE DEF c
<1>6. ASSUME NEW k \in 1..((i - p) + 1) PROVE b[k] = c[k]
  <2>1. CASE k \in 1..(i - p)  BY <1>3, <1>4, <1>5, <2>1
  <2>2. CASE k = (i - p) + 1
    <3>1. (p + k) - 1 = i  BY <1>1, <2>2
    <3> QED  BY <1>4, <1>5, <2>2, <3>1
  <2> QED  BY <1>1, <2>1, <2>2
<1>7. b = c  BY <1>4, <1>5, <1>6
<1> QED  BY <1>2, <1>3, <1>7 DEF a, b, c

LEMMA AfterRight ==
  ASSUME NEW x \in Seq(Char), NEW S, EOF \notin S, NEW i \in 1..(Len(x) + 1)
  PROVE  After(x, S, i) \in i..(Len(x) + 1) /\ Ch(x, After(x, S, i)) \notin S
<1> DEFINE T == {j \in i..(Len(x) + 1) : Ch(x, j) \notin S}
<1>1. Len(x) \in Nat  OBVIOUS
<1>2. Ch(x, Len(x) + 1) = EOF  BY <1>1, CharAt
<1>3. Len(x) + 1 \in T /\ T \subseteq Nat  BY <1>1, <1>2
<1>4. PICK m \in T : \A y \in T : m <= y  BY <1>3, Least
<1>5. Min(T) \in T  BY <1>4 DEF Min
<1> QED  BY <1>5 DEF After

\* unquote over the text from p to before i, as it is and without its CRs.
Plain(x, p, i)    == Unquoted(SubSeq(x, p, i - 1))
Stripped(x, p, i) == Unquoted(stripCR(SubSeq(x, p, i - 1)))

LEMMA PlainReads ==
  ASSUME NEW x \in Seq(Char), NEW p \in 1..(Len(x) + 1)
  PROVE  /\ Plain(x, p, p) = Unread
         /\ \A i \in p..Len(x) :
              /\ Plain(x, p, i) \in State
              /\ Plain(x, p, i + 1) = UnquoteStep(Plain(x, p, i), Ch(x, i))
<1>1. p \in Nat /\ Len(x) \in Nat /\ 1 <= p  OBVIOUS
<1>2. SubSeq(x, p, p - 1) = << >>  BY <1>1
<1>3. Plain(x, p, p) = Unread  BY <1>2, UnquoteNone DEF Plain
<1>4. ASSUME NEW i \in p..Len(x)
      PROVE  /\ Plain(x, p, i) \in State
             /\ Plain(x, p, i + 1) = UnquoteStep(Plain(x, p, i), Ch(x, i))
  <2> DEFINE a == SubSeq(x, p, i - 1)
  <2>1. a \in Seq(Char) /\ SubSeq(x, p, i) = Append(a, x[i])  BY OneCharMore
  <2>2. Ch(x, i) = x[i] /\ x[i] \in Char  BY <1>1, CharAt
  <2> HIDE DEF a
  <2>3. Unquoted(Append(a, x[i])) = UnquoteStep(Unquoted(a), x[i])
    BY <2>1, <2>2, UnquoteOneMore
  <2>4. Unquoted(a) \in State  BY <2>1, UnquotePass
  <2>5. (i + 1) - 1 = i  BY <1>1
  <2> QED  BY <2>1, <2>2, <2>3, <2>4, <2>5 DEF Plain, a
<1> QED  BY <1>3, <1>4

LEMMA StrippedReads ==
  ASSUME NEW x \in Seq(Char), NEW p \in 1..(Len(x) + 1)
  PROVE  /\ Stripped(x, p, p) = Unread
         /\ \A i \in p..Len(x) :
              /\ Stripped(x, p, i) \in State
              /\ Stripped(x, p, i + 1) = IF Ch(x, i) = "cr" THEN Stripped(x, p, i)
                                      ELSE UnquoteStep(Stripped(x, p, i), Ch(x, i))
<1>1. p \in Nat /\ Len(x) \in Nat /\ 1 <= p  OBVIOUS
<1>2. SubSeq(x, p, p - 1) = << >>  BY <1>1
<1>3. Stripped(x, p, p) = Unread  BY <1>2, UnquoteNone, StripNone DEF Stripped
<1>4. ASSUME NEW i \in p..Len(x)
      PROVE  /\ Stripped(x, p, i) \in State
             /\ Stripped(x, p, i + 1) = IF Ch(x, i) = "cr" THEN Stripped(x, p, i)
                                     ELSE UnquoteStep(Stripped(x, p, i), Ch(x, i))
  <2> DEFINE a == SubSeq(x, p, i - 1)
  <2>1. a \in Seq(Char) /\ SubSeq(x, p, i) = Append(a, x[i])  BY OneCharMore
  <2>2. Ch(x, i) = x[i] /\ x[i] \in Char  BY <1>1, CharAt
  <2> HIDE DEF a
  <2>3. stripCR(Append(a, x[i])) =
          IF x[i] # "cr" THEN Append(stripCR(a), x[i]) ELSE stripCR(a)
    BY <2>1, <2>2, StripOneMore
  <2>4. stripCR(a) \in Seq(Char)  BY <2>1, StripPass
  <2>5. Unquoted(Append(stripCR(a), x[i])) = UnquoteStep(Unquoted(stripCR(a)), x[i])
    BY <2>2, <2>4, UnquoteOneMore
  <2>6. Unquoted(stripCR(a)) \in State  BY <2>4, UnquotePass
  <2>7. (i + 1) - 1 = i  BY <1>1
  <2> QED  BY <2>1, <2>2, <2>3, <2>5, <2>6, <2>7 DEF Stripped, a
<1> QED  BY <1>3, <1>4

\* What unquote makes of the characters that scanner lets through: between two
\* characters, inside quotes or not, and behind a backslash.
Reading(u, q) == u \in State /\ u.q = q /\ u.esc = FALSE /\ u.panic = FALSE
Escaped(u, q) == u \in State /\ u.q = q /\ u.esc = TRUE /\ u.panic = FALSE

LEMMA StepReads ==
  ASSUME NEW u, NEW q \in BOOLEAN, NEW c \in Char
  PROVE  /\ Reading(u, q) =>
              IF c = "quote" THEN Reading(UnquoteStep(u, c), ~q)
              ELSE IF c = "back" THEN Escaped(UnquoteStep(u, c), q)
              ELSE Reading(UnquoteStep(u, c), q)
         /\ Escaped(u, q) /\ (c \in {"back", "quote", "n"} \/ (~q /\ c = "nl")) =>
              Reading(UnquoteStep(u, c), q)
<1>1. u \in State => UnquoteStep(u, c) \in State  BY StepType
<1>2. ASSUME Reading(u, q)
      PROVE  IF c = "quote" THEN Reading(UnquoteStep(u, c), ~q)
             ELSE IF c = "back" THEN Escaped(UnquoteStep(u, c), q)
             ELSE Reading(UnquoteStep(u, c), q)
  <2>1. CASE c = "quote"
    <3>1. UnquoteStep(u, c) = [u EXCEPT !.q = ~@]  BY <1>2, <2>1 DEF UnquoteStep, Reading
    <3> QED  BY <1>1, <1>2, <2>1, <3>1 DEF Reading, State
  <2>2. CASE c = "back"
    <3>1. UnquoteStep(u, c) = [u EXCEPT !.esc = TRUE]
      BY <1>2, <2>2 DEF UnquoteStep, Reading
    <3> QED  BY <1>1, <1>2, <2>2, <3>1 DEF Reading, Escaped, State
  <2>3. CASE c \notin {"quote", "back"}
    <3>1. UnquoteStep(u, c) = [u EXCEPT !.out = Append(@, c)]
      BY <1>2, <2>3 DEF UnquoteStep, Reading
    <3> QED  BY <1>1, <1>2, <2>3, <3>1 DEF Reading, State
  <2> QED  BY <2>1, <2>2, <2>3
<1>3. ASSUME Escaped(u, q), c \in {"back", "quote", "n"} \/ (~q /\ c = "nl")
      PROVE  Reading(UnquoteStep(u, c), q)
  <2> DEFINE d == IF c = "n" THEN "nl" ELSE c
  <2>1. CASE c \in {"back", "quote", "n"}
    <3>0. ~u.panic /\ u.esc  BY <1>3 DEF Escaped
    <3>1. UnquoteStep(u, c) = [u EXCEPT !.esc = FALSE, !.out = Append(@, d)]
      BY <2>1, <3>0 DEF UnquoteStep
    <3> HIDE DEF d
    <3> QED  BY <1>1, <1>3, <3>1 DEF Reading, Escaped, State
  <2>2. CASE ~q /\ c = "nl"
    <3>0. ~u.panic /\ u.esc /\ ~u.q  BY <1>3, <2>2 DEF Escaped
    <3>1. UnquoteStep(u, c) = [u EXCEPT !.esc = FALSE]
      BY <2>2, <3>0 DEF UnquoteStep
    <3> QED  BY <1>1, <1>3, <3>1 DEF Reading, Escaped, State
  <2> QED  BY <1>3, <2>1, <2>2
<1> QED  BY <1>2, <1>3

-----------------------------------------------------------------------------
(* The scanner's loops *)

\* What is left of the text at i, more than nothing until the loop is left.
Left(x, i) == IF i = 0 THEN 0 ELSE IF i > Len(x) THEN 1 ELSE (Len(x) + 2) - i

LEMMA LeftType ==
  ASSUME NEW x \in Seq(Char)
  PROVE  \A i \in Nat : Left(x, i) \in 0..(Len(x) + 1)
BY DEF Left

LEMMA LessLeft ==
  ASSUME NEW x \in Seq(Char), NEW i \in Nat \ {0}, NEW k \in Nat,
         k = 0 \/ (i \in 1..Len(x) /\ i < k)
  PROVE  Left(x, k) < Left(x, i)
<1>1. Len(x) \in Nat  OBVIOUS
<1> QED  BY <1>1 DEF Left

\* scanString.
StringStops(x) == {i \in Nat : i = 0 \/ Ch(x, i) = "quote"}
StringTurns(x) == [i \in Nat |-> StringTurn(x, i)]
StringLeft(x)  == [i \in Nat |-> Left(x, i)]

LEMMA StringCases ==
  ASSUME NEW x, NEW i \in Nat
  PROVE  \/ StringTurn(x, i) = 0
         \/ Ch(x, i) = "back" /\ Ch(x, i + 1) \in {"back", "quote"} /\ StringTurn(x, i) = i + 2
         \/ Ch(x, i) \notin {"nl", "back", EOF} /\ StringTurn(x, i) = i + 1
<1>1. CASE Ch(x, i) \in {"nl", EOF}  BY <1>1 DEF StringTurn, EOF
<1>2. CASE Ch(x, i) = "back"  BY <1>2 DEF StringTurn, EOF, Escapes
<1>3. CASE Ch(x, i) \notin {"nl", "back", EOF}  BY <1>3 DEF StringTurn
<1> QED  BY <1>1, <1>2, <1>3

LEMMA StringTurnsOn ==
  ASSUME NEW x \in Seq(Char), NEW i \in Nat \ StringStops(x)
  PROVE  /\ StringTurn(x, i) \in Nat
         /\ StringTurn(x, i) = 0 \/ (i \in 1..Len(x) /\ i < StringTurn(x, i))
<1>1. i \in 1..Len(x) <=> Ch(x, i) # EOF  BY CharAt
<1>2. Ch(x, i) = "back" => Ch(x, i) # EOF  BY DEF EOF
<1> QED  BY <1>1, <1>2, StringCases

LEMMA StringEnds ==
  ASSUME NEW x \in Seq(Char)
  PROVE  Ending(Nat, StringStops(x), StringTurns(x), StringLeft(x), Len(x) + 1)
<1>1. \A i \in Nat : StringTurn(x, i) \in Nat  BY StringCases
<1>2. StringTurns(x) \in [Nat -> Nat]  BY <1>1 DEF StringTurns
<1>3. StringLeft(x) \in [Nat -> 0..(Len(x) + 1)]  BY LeftType DEF StringLeft
<1>4. ASSUME NEW i \in Nat \ StringStops(x)
      PROVE  StringLeft(x)[StringTurns(x)[i]] < StringLeft(x)[i]
  <2>1. i # 0  BY DEF StringStops
  <2>2. Left(x, StringTurn(x, i)) < Left(x, i)  BY <2>1, StringTurnsOn, LessLeft
  <2> QED  BY <1>1, <2>2 DEF StringTurns, StringLeft
<1>5. Len(x) + 1 \in Nat /\ StringStops(x) \subseteq Nat  BY DEF StringStops
<1> QED  BY <1>2, <1>3, <1>4, <1>5 DEF Ending

\* The loop as a function of where it begins.
StringScan(x) ==
  CHOOSE s : s = [i \in Nat |-> IF i = 0 \/ Ch(x, i) = "quote" THEN i ELSE s[StringTurn(x, i)]]

LEMMA StringLoop ==
  ASSUME NEW x \in Seq(Char)
  PROVE  /\ \A i : scanString(x, i) = StringScan(x)[i]
         /\ StringScan(x) = Looped(Nat, StringStops(x), StringTurns(x), StringScan(x))
<1> DEFINE Again(g) ==
             [i \in Nat |-> IF i = 0 \/ Ch(x, i) = "quote" THEN i ELSE g[StringTurn(x, i)]]
<1>1. \A g : Looped(Nat, StringStops(x), StringTurns(x), g) = Again(g)
  BY DEF Looped, StringStops, StringTurns
<1>2. \E f : f = Looped(Nat, StringStops(x), StringTurns(x), f)
  BY StringEnds, LoopDefined
<1>3. \E f : f = Again(f)
  BY <1>1, <1>2
<1>4. StringScan(x) = Again(StringScan(x))
  BY <1>3 DEF StringScan
<1>5. \A i : scanString(x, i) = StringScan(x)[i]
  BY DEF scanString, StringScan
<1> HIDE DEF Again
<1> QED  BY <1>1, <1>4, <1>5

\* A string from the quote at p on: unquote is inside quotes wherever the loop is.
LEMMA StringRight ==
  ASSUME NEW x \in Seq(Char), NEW p \in 1..Len(x), Ch(x, p) = "quote"
  PROVE  LET e == scanString(x, p + 1) IN
         e = 0 \/ (e \in p..Len(x) /\ Reading(Plain(x, p, e + 1), FALSE))
<1> DEFINE Inside(i) == i \in (p + 1)..(Len(x) + 1) /\ Reading(Plain(x, p, i), TRUE)
           I == {i \in Nat : i = 0 \/ Inside(i)}
           e == scanString(x, p + 1)
<1>1. p \in Nat /\ Len(x) \in Nat /\ 1 <= p /\ p <= Len(x)  OBVIOUS
<1>2. \A i \in p..Len(x) :
        Ch(x, i) \in Char /\ Plain(x, p, i + 1) = UnquoteStep(Plain(x, p, i), Ch(x, i))
  BY <1>1, CharAt, PlainReads
<1>a. 0 \in I /\ I \subseteq Nat /\ \A i \in Nat : Inside(i) => i \in I  OBVIOUS
<1>b. \A i \in I : i # 0 => Inside(i)  OBVIOUS
<1> HIDE DEF I
<1>3. p + 1 \in I
  <2>1. Plain(x, p, p) = Unread  BY <1>1, PlainReads
  <2>2. Reading(Unread, FALSE)  BY StepType DEF Reading, Unread
  <2>3. Plain(x, p, p + 1) = UnquoteStep(Unread, "quote") /\ "quote" \in Char
    BY <1>1, <1>2, <2>1
  <2>4. Reading(Plain(x, p, p + 1), TRUE)  BY <2>2, <2>3, StepReads
  <2>5. p + 1 \in (p + 1)..(Len(x) + 1) /\ p + 1 \in Nat  BY <1>1
  <2> QED  BY <1>a, <2>4, <2>5
<1>4. ASSUME NEW i \in I \ StringStops(x) PROVE StringTurn(x, i) \in I
  <2>1. i \in Nat /\ i \in (p + 1)..(Len(x) + 1) /\ Reading(Plain(x, p, i), TRUE)
        /\ Ch(x, i) # "quote"
    BY <1>4, <1>a, <1>b DEF StringStops
  <2>2. CASE StringTurn(x, i) = 0  BY <1>a, <2>2
  <2>3. CASE /\ Ch(x, i) = "back" /\ Ch(x, i + 1) \in {"back", "quote"}
             /\ StringTurn(x, i) = i + 2
    <3>1. Ch(x, i) # EOF /\ Ch(x, i + 1) # EOF  BY <2>3 DEF EOF
    <3>2. i \in p..Len(x) /\ i + 1 \in p..Len(x)
      BY <1>1, <2>1, <3>1, CharAt
    <3>3. Escaped(Plain(x, p, i + 1), TRUE)
      BY <1>2, <2>1, <2>3, <3>2, StepReads
    <3>4. /\ (i + 1) + 1 = i + 2 /\ Ch(x, i + 1) \in Char
          /\ Plain(x, p, (i + 1) + 1) = UnquoteStep(Plain(x, p, i + 1), Ch(x, i + 1))
      BY <1>2, <2>1, <3>2
    <3>5. Reading(Plain(x, p, i + 2), TRUE)
      BY <2>3, <3>3, <3>4, StepReads
    <3>6. i + 2 \in (p + 1)..(Len(x) + 1) /\ i + 2 \in Nat  BY <1>1, <2>1, <3>2
    <3> QED  BY <1>a, <2>3, <3>5, <3>6
  <2>4. CASE Ch(x, i) \notin {"nl", "back", EOF} /\ StringTurn(x, i) = i + 1
    <3>1. i \in p..Len(x)  BY <1>1, <2>1, <2>4, CharAt
    <3>2. Reading(Plain(x, p, i + 1), TRUE)
      BY <1>2, <2>1, <2>4, <3>1, StepReads
    <3>3. i + 1 \in (p + 1)..(Len(x) + 1) /\ i + 1 \in Nat  BY <1>1, <3>1
    <3> QED  BY <1>a, <2>4, <3>2, <3>3
  <2> QED  BY <2>1, <2>2, <2>3, <2>4, StringCases
<1>5. \A i \in I \ StringStops(x) : StringTurns(x)[i] \in I  BY <1>4, <1>a DEF StringTurns
<1>6. Kept(Nat, StringStops(x), StringTurns(x), I)  BY <1>5, <1>a DEF Kept
<1>7. e \in I /\ e \in StringStops(x)
  BY <1>3, <1>6, StringEnds, StringLoop, LoopKeeps
<1> HIDE DEF e
<1>8. CASE e # 0
  <2>1. e \in (p + 1)..(Len(x) + 1) /\ Reading(Plain(x, p, e), TRUE) /\ Ch(x, e) = "quote"
    BY <1>7, <1>8, <1>b DEF StringStops
  <2>2. Ch(x, e) # EOF  BY <2>1 DEF EOF
  <2>3. e \in p..Len(x)  BY <1>1, <2>1, <2>2, CharAt
  <2>4. Reading(Plain(x, p, e + 1), FALSE)  BY <1>2, <2>1, <2>3, StepReads
  <2> QED  BY <2>3, <2>4 DEF e
<1> QED  BY <1>8 DEF e

\* scanValString.
ValueStops(x) == {v \in ValueState : ValueEnds(x, v)}
ValueTurns(x) == [v \in ValueState |-> IF ValueEnds(x, v) THEN v ELSE ValueTurn(x, v)]
ValueLeft(x)  == [v \in ValueState |-> Left(x, v.at)]

\* What one turn does.
LEMMA ValueCases ==
  ASSUME NEW x, NEW v \in ValueState, ~ValueEnds(x, v)
  PROVE  LET i == v.at IN
         \/ ValueTurn(x, v) = BadValue
         \/ /\ v.q /\ Ch(x, i) = "back" /\ Ch(x, i + 1) \in {"back", "quote", "n"}
            /\ ValueTurn(x, v) = AllOfIt(i + 2, TRUE)
         \/ /\ ~v.q /\ Ch(x, i) = "back" /\ Ch(x, i + 1) = "nl"
            /\ ValueTurn(x, v) = AllOfIt(i + 2, FALSE)
         \/ /\ ~v.q /\ Ch(x, i) = "back" /\ Ch(x, i + 1) = "cr" /\ Ch(x, i + 2) = "nl"
            /\ ValueTurn(x, v) = AllOfIt(i + 3, FALSE)
         \/ Ch(x, i) = "quote" /\ ValueTurn(x, v) = AllOfIt(i + 1, ~v.q)
         \/ /\ Ch(x, i) \notin {"back", "quote", EOF, "nl"}
            /\ \/ ValueTurn(x, v) = AllOfIt(i + 1, v.q)
               \/ ~v.q /\ ValueTurn(x, v) = [at |-> i + 1, end |-> v.end, q |-> v.q]
<1> DEFINE i == v.at
<1>1. i \in Nat /\ v.end \in Nat /\ v.q \in BOOLEAN  BY DEF ValueState
<1>2. (i + 1) + 1 = i + 2 /\ (i + 2) + 1 = i + 3  BY <1>1
<1>3. v.q \/ Ch(x, i) \notin {EOF, "nl"}  BY DEF ValueEnds
<1>4. CASE Ch(x, i) \in {EOF, "nl"}  BY <1>3, <1>4 DEF ValueTurn, EOF
<1>5. CASE Ch(x, i) = "back" /\ v.q  BY <1>1, <1>2, <1>5 DEF ValueTurn, EOF, Escapes
<1>6. CASE Ch(x, i) = "back" /\ ~v.q
  <2>1. CASE Ch(x, i + 1) = "cr"
    <3>1. ValueTurn(x, v) = IF Ch(x, (i + 1) + 1) = "nl" THEN AllOfIt(((i + 1) + 1) + 1, FALSE)
                         ELSE BadValue
      BY <1>6, <2>1 DEF ValueTurn
    <3> QED  BY <1>2, <1>6, <2>1, <3>1
  <2>2. CASE Ch(x, i + 1) # "cr"  BY <1>1, <1>2, <1>6, <2>2 DEF ValueTurn
  <2> QED  BY <2>1, <2>2
<1>7. CASE Ch(x, i) = "quote"  BY <1>7 DEF ValueTurn, EOF
<1>8. CASE Ch(x, i) \notin {"back", "quote", EOF, "nl"}
  <2>1. ValueTurn(x, v) = [at |-> i + 1, end |-> EndAfter(x, i, v.end, v.q), q |-> v.q]
    BY <1>8 DEF ValueTurn
  <2> QED  BY <1>8, <2>1 DEF EndAfter, AllOfIt
<1> QED  BY <1>4, <1>5, <1>6, <1>7, <1>8

LEMMA ValueParts ==
  /\ BadValue \in ValueState /\ BadValue.at = 0
  /\ \A i \in Nat, q \in BOOLEAN :
       /\ AllOfIt(i, q) \in ValueState
       /\ AllOfIt(i, q).at = i /\ AllOfIt(i, q).end = i /\ AllOfIt(i, q).q = q
BY DEF BadValue, AllOfIt, ValueState

LEMMA ValueTurnsOn ==
  ASSUME NEW x \in Seq(Char), NEW v \in ValueState, ~ValueEnds(x, v)
  PROVE  /\ ValueTurn(x, v) \in ValueState /\ v.at \in Nat \ {0}
         /\ ValueTurn(x, v).at = 0 \/ (v.at \in 1..Len(x) /\ v.at < ValueTurn(x, v).at)
<1> DEFINE i == v.at
<1>1. i \in Nat /\ v.end \in Nat /\ v.q \in BOOLEAN /\ i # 0  BY DEF ValueState, ValueEnds
<1>2. Ch(x, i) # EOF => i \in 1..Len(x)  BY CharAt
<1>3. ASSUME NEW k \in Nat, NEW q \in BOOLEAN,
             ValueTurn(x, v) = AllOfIt(k, q), i < k, Ch(x, i) # EOF
      PROVE  ValueTurn(x, v) \in ValueState /\ i \in 1..Len(x) /\ i < ValueTurn(x, v).at
  BY <1>2, <1>3, ValueParts
<1>4. ASSUME ValueTurn(x, v) = [at |-> i + 1, end |-> v.end, q |-> v.q], Ch(x, i) # EOF
      PROVE  ValueTurn(x, v) \in ValueState /\ i \in 1..Len(x) /\ i < ValueTurn(x, v).at
  BY <1>1, <1>2, <1>4 DEF ValueState
<1>5. "back" # EOF /\ "quote" # EOF /\ i + 1 \in Nat /\ i + 2 \in Nat /\ i + 3 \in Nat
      /\ i < i + 1 /\ i < i + 2 /\ i < i + 3 /\ (~v.q) \in BOOLEAN
  BY <1>1 DEF EOF
<1>6. CASE ValueTurn(x, v) = BadValue  BY <1>1, <1>6, ValueParts
<1>7. CASE ValueTurn(x, v) # BadValue
  <2>1. ValueTurn(x, v) \in ValueState /\ i \in 1..Len(x) /\ i < ValueTurn(x, v).at
    BY <1>1, <1>3, <1>4, <1>5, <1>7, ValueCases
  <2> QED  BY <1>1, <2>1
<1> QED  BY <1>6, <1>7

LEMMA ValueEnding ==
  ASSUME NEW x \in Seq(Char)
  PROVE  Ending(ValueState, ValueStops(x), ValueTurns(x), ValueLeft(x), Len(x) + 1)
<1>1. \A v \in ValueState \ ValueStops(x) : ~ValueEnds(x, v)  BY DEF ValueStops
<1>2. \A v \in ValueState : ~ValueEnds(x, v) => ValueTurn(x, v) \in ValueState
  BY ValueTurnsOn
<1>3. ValueTurns(x) \in [ValueState -> ValueState]  BY <1>2 DEF ValueTurns
<1>4. \A v \in ValueState : v.at \in Nat  BY DEF ValueState
<1>5. ValueLeft(x) \in [ValueState -> 0..(Len(x) + 1)]  BY <1>4, LeftType DEF ValueLeft
<1>6. ASSUME NEW v \in ValueState \ ValueStops(x)
      PROVE  ValueLeft(x)[ValueTurns(x)[v]] < ValueLeft(x)[v]
  <2>1. Left(x, ValueTurn(x, v).at) < Left(x, v.at)
    BY <1>1, <1>2, <1>4, ValueTurnsOn, LessLeft
  <2> QED  BY <1>1, <1>2, <2>1 DEF ValueTurns, ValueLeft
<1>7. Len(x) + 1 \in Nat /\ ValueStops(x) \subseteq ValueState  BY DEF ValueStops
<1> QED  BY <1>3, <1>5, <1>6, <1>7 DEF Ending

\* The loop as a function of where it begins.
ValueScan(x) ==
  CHOOSE s : s = [v \in ValueState |-> IF ValueEnds(x, v) THEN v ELSE s[ValueTurn(x, v)]]

LEMMA ValueLoop ==
  ASSUME NEW x \in Seq(Char)
  PROVE  /\ \A v : scanValString(x, v) = ValueScan(x)[v]
         /\ ValueScan(x) = Looped(ValueState, ValueStops(x), ValueTurns(x), ValueScan(x))
<1> DEFINE Again(g) == [v \in ValueState |-> IF ValueEnds(x, v) THEN v ELSE g[ValueTurn(x, v)]]
<1>1. \A g : Looped(ValueState, ValueStops(x), ValueTurns(x), g) = Again(g)
  BY DEF Looped, ValueStops, ValueTurns
<1>2. \E f : f = Looped(ValueState, ValueStops(x), ValueTurns(x), f)
  BY ValueEnding, LoopDefined
<1>3. \E f : f = Again(f)
  BY <1>1, <1>2
<1>4. ValueScan(x) = Again(ValueScan(x))
  BY <1>3 DEF ValueScan
<1>5. \A v : scanValString(x, v) = ValueScan(x)[v]
  BY DEF scanValString, ValueScan
<1> HIDE DEF Again
<1> QED  BY <1>1, <1>4, <1>5

\* A value from p on: unquote is where the loop is, both at the place scanned and
\* where the literal would end.
ValueInv(x, p, v) ==
  \/ v = BadValue
  \/ /\ v.at \in p..(Len(x) + 1) /\ v.end \in p..(Len(x) + 1)
     /\ Reading(Stripped(x, p, v.at), v.q) /\ Reading(Stripped(x, p, v.end), v.q)

LEMMA ValueAt ==
  ASSUME NEW x, NEW p, NEW i \in Nat, i \in p..(Len(x) + 1), NEW q \in BOOLEAN,
         Reading(Stripped(x, p, i), q)
  PROVE  ValueInv(x, p, AllOfIt(i, q))
BY ValueParts DEF ValueInv

\* One character that is not a backslash, and a backslash with what it escapes.
LEMMA StrippedNext ==
  ASSUME NEW x \in Seq(Char), NEW p \in 1..(Len(x) + 1), NEW i \in p..Len(x),
         NEW q \in BOOLEAN,
         Reading(Stripped(x, p, i), q)
  PROVE  /\ Ch(x, i) \notin {"quote", "back"} => Reading(Stripped(x, p, i + 1), q)
         /\ Ch(x, i) = "quote" => Reading(Stripped(x, p, i + 1), ~q)
         /\ Ch(x, i) = "back" => Escaped(Stripped(x, p, i + 1), q)
<1>1. p \in Nat /\ Len(x) \in Nat /\ 1 <= p  OBVIOUS
<1>2. Ch(x, i) \in Char  BY <1>1, CharAt
<1>3. Stripped(x, p, i + 1) = IF Ch(x, i) = "cr" THEN Stripped(x, p, i)
                           ELSE UnquoteStep(Stripped(x, p, i), Ch(x, i))
  BY StrippedReads
<1>4. CASE Ch(x, i) = "cr"  BY <1>3, <1>4
<1>5. CASE Ch(x, i) # "cr"  BY <1>2, <1>3, <1>5, StepReads
<1> QED  BY <1>4, <1>5

LEMMA StrippedEscape ==
  ASSUME NEW x \in Seq(Char), NEW p \in 1..(Len(x) + 1), NEW i \in p..Len(x),
         NEW q \in BOOLEAN,
         Escaped(Stripped(x, p, i), q)
  PROVE  /\ Ch(x, i) \in {"back", "quote", "n"} \/ (~q /\ Ch(x, i) = "nl") =>
              Reading(Stripped(x, p, i + 1), q)
         /\ Ch(x, i) = "cr" => Escaped(Stripped(x, p, i + 1), q)
<1>1. p \in Nat /\ Len(x) \in Nat /\ 1 <= p  OBVIOUS
<1>2. Ch(x, i) \in Char  BY <1>1, CharAt
<1>3. Stripped(x, p, i + 1) = IF Ch(x, i) = "cr" THEN Stripped(x, p, i)
                           ELSE UnquoteStep(Stripped(x, p, i), Ch(x, i))
  BY StrippedReads
<1>4. CASE Ch(x, i) = "cr"  BY <1>3, <1>4
<1>5. CASE Ch(x, i) # "cr"  BY <1>2, <1>3, <1>5, StepReads
<1> QED  BY <1>4, <1>5

LEMMA ValueTurnKeeps ==
  ASSUME NEW x \in Seq(Char), NEW p \in 1..(Len(x) + 1), NEW v \in ValueState,
         ~ValueEnds(x, v),
         ValueInv(x, p, v)
  PROVE  ValueInv(x, p, ValueTurn(x, v))
<1> DEFINE i == v.at
           n == Len(x)
<1>1. i \in Nat /\ v.end \in Nat /\ v.q \in BOOLEAN /\ (~v.q) \in BOOLEAN /\ i # 0
  BY DEF ValueState, ValueEnds
<1>2. v # BadValue  BY ValueParts DEF ValueEnds
<1>3. /\ i \in p..(n + 1) /\ v.end \in p..(n + 1)
      /\ Reading(Stripped(x, p, i), v.q) /\ Reading(Stripped(x, p, v.end), v.q)
  BY <1>2 DEF ValueInv
<1>4. p \in Nat /\ n \in Nat /\ 1 <= p  OBVIOUS
<1>5. \A k \in Nat : Ch(x, k) # EOF => k \in 1..n  BY CharAt
<1>e. EOF \notin {"back", "quote", "n", "nl", "cr"}  BY DEF EOF
<1> HIDE DEF i, n
<1>6. CASE ValueTurn(x, v) = BadValue  BY <1>6 DEF ValueInv
<1>7. CASE /\ v.q /\ Ch(x, i) = "back" /\ Ch(x, i + 1) \in {"back", "quote", "n"}
           /\ ValueTurn(x, v) = AllOfIt(i + 2, TRUE)
  <2>1. i \in p..n /\ i + 1 \in p..n /\ i + 2 \in p..(n + 1) /\ i + 2 \in Nat
        /\ (i + 1) + 1 = i + 2
    BY <1>1, <1>3, <1>4, <1>5, <1>e, <1>7
  <2>2. Escaped(Stripped(x, p, i + 1), TRUE)  BY <1>3, <1>7, <2>1, StrippedNext DEF n
  <2>3. Reading(Stripped(x, p, i + 2), TRUE)  BY <1>7, <2>1, <2>2, StrippedEscape DEF n
  <2> QED  BY <1>7, <2>1, <2>3, ValueAt DEF n
<1>8. CASE /\ ~v.q /\ Ch(x, i) = "back" /\ Ch(x, i + 1) = "nl"
           /\ ValueTurn(x, v) = AllOfIt(i + 2, FALSE)
  <2>1. i \in p..n /\ i + 1 \in p..n /\ i + 2 \in p..(n + 1) /\ i + 2 \in Nat
        /\ (i + 1) + 1 = i + 2
    BY <1>1, <1>3, <1>4, <1>5, <1>e, <1>8
  <2>2. Escaped(Stripped(x, p, i + 1), FALSE)  BY <1>1, <1>3, <1>8, <2>1, StrippedNext DEF n
  <2>3. Reading(Stripped(x, p, i + 2), FALSE)  BY <1>8, <2>1, <2>2, StrippedEscape DEF n
  <2> QED  BY <1>8, <2>1, <2>3, ValueAt DEF n
<1>9. CASE /\ ~v.q /\ Ch(x, i) = "back" /\ Ch(x, i + 1) = "cr" /\ Ch(x, i + 2) = "nl"
           /\ ValueTurn(x, v) = AllOfIt(i + 3, FALSE)
  <2>1. i \in p..n /\ i + 1 \in p..n /\ i + 2 \in p..n /\ i + 3 \in p..(n + 1)
        /\ i + 3 \in Nat /\ (i + 1) + 1 = i + 2 /\ (i + 2) + 1 = i + 3
    BY <1>1, <1>3, <1>4, <1>5, <1>e, <1>9
  <2>2. Escaped(Stripped(x, p, i + 1), FALSE)  BY <1>1, <1>3, <1>9, <2>1, StrippedNext DEF n
  <2>3. Escaped(Stripped(x, p, i + 2), FALSE)  BY <1>9, <2>1, <2>2, StrippedEscape DEF n
  <2>4. Reading(Stripped(x, p, i + 3), FALSE)  BY <1>9, <2>1, <2>3, StrippedEscape DEF n
  <2> QED  BY <1>9, <2>1, <2>4, ValueAt DEF n
<1>10. CASE Ch(x, i) = "quote" /\ ValueTurn(x, v) = AllOfIt(i + 1, ~v.q)
  <2>1. i \in p..n /\ i + 1 \in p..(n + 1) /\ i + 1 \in Nat
    BY <1>1, <1>3, <1>4, <1>5, <1>e, <1>10
  <2>2. Reading(Stripped(x, p, i + 1), ~v.q)  BY <1>1, <1>3, <1>10, <2>1, StrippedNext DEF n
  <2> QED  BY <1>1, <1>10, <2>1, <2>2, ValueAt DEF n
<1>11. CASE /\ Ch(x, i) \notin {"back", "quote", EOF, "nl"}
            /\ \/ ValueTurn(x, v) = AllOfIt(i + 1, v.q)
               \/ ~v.q /\ ValueTurn(x, v) = [at |-> i + 1, end |-> v.end, q |-> v.q]
  <2>1. i \in p..n /\ i + 1 \in p..(n + 1) /\ i + 1 \in Nat
    BY <1>1, <1>3, <1>4, <1>5, <1>11
  <2>2. Reading(Stripped(x, p, i + 1), v.q)  BY <1>1, <1>3, <1>11, <2>1, StrippedNext DEF n
  <2>3. CASE ValueTurn(x, v) = AllOfIt(i + 1, v.q)
    BY <1>1, <2>1, <2>2, <2>3, ValueAt DEF n
  <2>4. CASE ValueTurn(x, v) = [at |-> i + 1, end |-> v.end, q |-> v.q]
    BY <1>3, <2>1, <2>2, <2>4 DEF ValueInv, n
  <2> QED  BY <1>11, <2>3, <2>4
<1> QED  BY <1>6, <1>7, <1>8, <1>9, <1>10, <1>11, ValueCases DEF i

LEMMA ValueRight ==
  ASSUME NEW x \in Seq(Char), NEW p \in 1..(Len(x) + 1)
  PROVE  LET v == scanValString(x, AllOfIt(p, FALSE)) IN
         v.at = 0 \/ (/\ v.at \in p..(Len(x) + 1) /\ v.end \in p..(Len(x) + 1)
                      /\ Reading(Stripped(x, p, v.end), FALSE))
<1> DEFINE I == {v \in ValueState : ValueInv(x, p, v)}
           z == AllOfIt(p, FALSE)
           v == scanValString(x, z)
<1>1. p \in Nat /\ Len(x) \in Nat  OBVIOUS
<1>2. Reading(Stripped(x, p, p), FALSE)
  <2>1. Stripped(x, p, p) = Unread  BY StrippedReads
  <2>2. Reading(Unread, FALSE)  BY StepType DEF Reading, Unread
  <2> QED  BY <2>1, <2>2
<1>3. z \in I
  <2>1. p \in Nat /\ p \in p..(Len(x) + 1)  BY <1>1
  <2>2. z \in ValueState  BY <2>1, ValueParts
  <2>3. ValueInv(x, p, z)  BY <1>2, <2>1, ValueAt
  <2> QED  BY <2>2, <2>3
<1>4. ASSUME NEW w \in I \ ValueStops(x) PROVE ValueTurns(x)[w] \in I
  <2>1. w \in ValueState /\ ValueInv(x, p, w) /\ ~ValueEnds(x, w)  BY <1>4 DEF ValueStops
  <2>2. ValueTurn(x, w) \in ValueState /\ ValueInv(x, p, ValueTurn(x, w))
    BY <2>1, ValueTurnsOn, ValueTurnKeeps
  <2> QED  BY <2>1, <2>2 DEF ValueTurns
<1>5. Kept(ValueState, ValueStops(x), ValueTurns(x), I)  BY <1>4 DEF Kept
<1> HIDE DEF I, z
<1>6. v \in I /\ v \in ValueStops(x)
  BY <1>3, <1>5, ValueEnding, ValueLoop, LoopKeeps
<1> HIDE DEF v
<1>7. ValueInv(x, p, v) /\ ValueEnds(x, v)  BY <1>6 DEF I, ValueStops
<1>8. v = BadValue \/ v.at = 0 \/ ~v.q  BY <1>7 DEF ValueEnds
<1>9. CASE v.at = 0  BY <1>9 DEF v, z
<1>10. CASE v.at # 0
  <2>1. v # BadValue  BY <1>10, ValueParts
  <2>2. /\ v.at \in p..(Len(x) + 1) /\ v.end \in p..(Len(x) + 1)
        /\ Reading(Stripped(x, p, v.end), v.q) /\ ~v.q
    BY <1>7, <1>8, <1>10, <2>1 DEF ValueInv
  <2>3. v \in ValueState  BY <1>6 DEF I
  <2>4. v.q = FALSE  BY <2>2, <2>3 DEF ValueState
  <2> QED  BY <2>2, <2>4 DEF v, z
<1> QED  BY <1>9, <1>10

-----------------------------------------------------------------------------
(* Tokens *)

TokenRight(x, tok) ==
  /\ tok.start \in 1..(Len(x) + 1)
  /\ tok.kind # "ERROR" => tok.at \in 1..(Len(x) + 1)
  /\ tok.kind = "STRING" => ~unquote(tok.lit).panic

LEMMA ReadingToItsEnd ==
  ASSUME NEW lit, Reading(Unquoted(lit), FALSE)
  PROVE  ~unquote(lit).panic
BY DEF Reading, unquote

LEMMA OneToken ==
  ASSUME NEW x, NEW kind, NEW lit, NEW start \in 1..(Len(x) + 1), NEW at,
         at = 0 \/ (at \in 1..(Len(x) + 1) /\ (kind = "STRING" => ~unquote(lit).panic))
  PROVE  TokenRight(x, Token(x, kind, lit, start, at))
<1> DEFINE tok == Token(x, kind, lit, start, at)
<1>1. tok.lit = lit /\ tok.at = at /\ tok.start = start
      /\ tok.kind = IF at > 0 /\ Readable(x, at) THEN kind ELSE "ERROR"
  BY DEF Token
<1>2. CASE at = 0
  <2>1. tok.kind = "ERROR"  BY <1>1, <1>2
  <2> QED  BY <1>1, <2>1 DEF TokenRight
<1>3. CASE at # 0
  <2>1. tok.kind \in {kind, "ERROR"}  BY <1>1
  <2> HIDE DEF tok
  <2>2. TokenRight(x, tok)  BY <1>1, <1>3, <2>1 DEF TokenRight
  <2> QED  BY <2>2 DEF tok
<1> QED  BY <1>2, <1>3

LEMMA ScanRight ==
  ASSUME NEW x \in Seq(Char), NEW i \in 1..(Len(x) + 1), NEW nextVal \in BOOLEAN
  PROVE  TokenRight(x, Scan(x, i, nextVal))
<1> DEFINE n == Len(x)
           blank == After(x, White, i)
           p == IF ~nextVal /\ Ch(x, blank) = "semi"
                THEN After(x, Char \ {"nl"}, blank) ELSE blank
           v == scanValString(x, AllOfIt(p, FALSE))
           id == After(x, Letter \cup {"1"}, p)
           e == scanString(x, p + 1)
<1>1. n \in Nat  OBVIOUS
<1>2. EOF \notin White /\ EOF \notin Char \ {"nl"} /\ EOF \notin Letter \cup {"1"}
  BY DEF EOF, White, Char, Letter
<1>3. blank \in i..(n + 1)  BY <1>2, AfterRight
<1>4. blank \in 1..(n + 1)  BY <1>1, <1>3
<1> HIDE DEF blank
<1>5. p \in 1..(n + 1)
  <2>1. After(x, Char \ {"nl"}, blank) \in blank..(n + 1)  BY <1>2, <1>4, AfterRight
  <2> QED  BY <1>1, <1>4, <2>1
<1> HIDE DEF p
<1>6. CASE nextVal
  <2> DEFINE lit == stripCR(SubSeq(x, p, v.end - 1))
  <2>1. Scan(x, i, nextVal) = Token(x, "STRING", lit, blank, v.at)  BY <1>6 DEF Scan, p, blank
  <2>2. v.at = 0 \/ (v.at \in p..(n + 1) /\ Reading(Stripped(x, p, v.end), FALSE))
    BY <1>5, ValueRight
  <2>3. CASE v.at = 0  BY <2>1, <2>3, <1>4, OneToken
  <2>4. CASE v.at # 0
    <3>1. Reading(Unquoted(lit), FALSE)  BY <2>2, <2>4 DEF Stripped
    <3>2. ~unquote(lit).panic  BY <3>1, ReadingToItsEnd
    <3>3. v.at \in 1..(n + 1)
      <4> DEFINE k == v.at
      <4>1. k \in p..(n + 1)  BY <2>2, <2>4
      <4> HIDE DEF k
      <4>2. k \in 1..(n + 1)  BY <1>1, <1>5, <4>1
      <4> QED  BY <4>2 DEF k
    <3> QED  BY <2>1, <3>2, <3>3, <1>4, OneToken
  <2> QED  BY <2>3, <2>4
<1>7. CASE ~nextVal
  <2>1. CASE Ch(x, p) \in Letter
    <3> DEFINE lit == SubSeq(x, p, id - 1)
    <3>1. Scan(x, i, nextVal) = Token(x, "IDENT", lit, blank, id)
      BY <1>7, <2>1 DEF Scan, p, blank, Letter, EOF
    <3>2. id \in p..(n + 1)  BY <1>2, <1>5, AfterRight
    <3>3. id \in 1..(n + 1)  BY <1>1, <1>5, <3>2
    <3> QED  BY <3>1, <3>3, <1>4, OneToken
  <2>2. CASE Ch(x, p) = "quote"
    <3> DEFINE lit == SubSeq(x, p, e)
               at == IF e = 0 THEN 0 ELSE e + 1
    <3>1. Scan(x, i, nextVal) = Token(x, "STRING", lit, blank, at)
      BY <1>7, <2>2 DEF Scan, p, blank, Letter, EOF
    <3>2. p \in 1..n  BY <1>5, <2>2, CharAt DEF EOF
    <3>3. e = 0 \/ (e \in p..n /\ Reading(Plain(x, p, e + 1), FALSE))
      BY <2>2, <3>2, StringRight
    <3>4. CASE e = 0  BY <3>1, <3>4, <1>4, OneToken
    <3>5. CASE e # 0
      <4>1. e \in p..n /\ Reading(Plain(x, p, e + 1), FALSE)  BY <3>3, <3>5
      <4> HIDE DEF e
      <4>2. (e + 1) - 1 = e /\ e + 1 \in 1..(n + 1)  BY <1>1, <3>2, <4>1
      <4>3. Reading(Unquoted(lit), FALSE)  BY <4>1, <4>2 DEF Plain
      <4>4. ~unquote(lit).panic  BY <4>3, ReadingToItsEnd
      <4> QED  BY <3>1, <3>5, <4>2, <4>4, <1>4, OneToken
    <3> QED  BY <3>4, <3>5
  <2>3. CASE Ch(x, p) = EOF
    <3>1. Scan(x, i, nextVal) = Token(x, "EOF", << >>, blank, p)
      BY <1>7, <2>3 DEF Scan, p, blank, Letter, EOF
    <3> QED  BY <1>5, <3>1, <1>4, OneToken
  <2>4. CASE Ch(x, p) \notin Letter \cup {"quote", EOF}
    <3>1. PICK kind \in {"EOL", "LBRACK", "RBRACK", "ASSIGN", "ERROR"} :
            Scan(x, i, nextVal) = Token(x, kind, << >>, blank, p + 1)
      <4>1. CASE Ch(x, p) = "nl"  BY <1>7, <4>1 DEF Scan, p, blank, Letter, EOF
      <4>2. CASE Ch(x, p) = "lb"  BY <1>7, <4>2 DEF Scan, p, blank, Letter, EOF
      <4>3. CASE Ch(x, p) = "rb"  BY <1>7, <4>3 DEF Scan, p, blank, Letter, EOF
      <4>4. CASE Ch(x, p) = "eq"  BY <1>7, <4>4 DEF Scan, p, blank, Letter, EOF
      <4>5. CASE Ch(x, p) \notin {"nl", "lb", "rb", "eq"}
        BY <1>7, <2>4, <4>5 DEF Scan, p, blank
      <4> QED  BY <4>1, <4>2, <4>3, <4>4, <4>5
    <3>2. p \in 1..n  BY <1>5, <2>4, CharAt
    <3>3. p + 1 \in 1..(n + 1)  BY <1>1, <3>2
    <3> QED  BY <3>1, <3>3, <1>4, OneToken
  <2> QED  BY <2>1, <2>2, <2>3, <2>4
<1> QED  BY <1>6, <1>7

-----------------------------------------------------------------------------
Text == src \in Seq(Char)

(* readInto *)

\* The token in hand is one the scanner gave out, and nothing has panicked yet.
GInv == /\ Text /\ TokenRight(src, t) /\ result # "panic"
        /\ stmt \in 1..(Len(src) + 1)

FirstRight == TokenRight(src, Scan(src, 1, FALSE))

LEMMA FirstToken == Text => FirstRight
<1> SUFFICES ASSUME Text PROVE FirstRight  OBVIOUS
<1>1. 1 \in 1..(Len(src) + 1) /\ FALSE \in BOOLEAN  BY DEF Text
<1> QED  BY <1>1, ScanRight DEF FirstRight, Text

LEMMA InitGInv == Init => GInv
<1> SUFFICES ASSUME Init PROVE GInv  OBVIOUS
<1>1. Text  BY SourcesAssumption DEF Init, Text
<1>2. 1 \in 1..(Len(src) + 1)  BY <1>1 DEF Text
<1> QED  BY <1>1, <1>2, FirstToken DEF Init, GInv, FirstRight

\* The next token, of a text that stays.
LEMMA NextToken ==
  ASSUME GInv, ScanNext, t.kind # "ERROR", src' = src, result' # "panic",
         stmt' \in {stmt, t.start}
  PROVE  GInv'
<1>1. t.at \in 1..(Len(src) + 1) /\ (t.kind = "ASSIGN") \in BOOLEAN
  BY DEF GInv, TokenRight
<1>2. TokenRight(src, Scan(src, t.at, t.kind = "ASSIGN"))  BY <1>1, ScanRight DEF GInv, Text
<1> DEFINE s == Scan(src, t.at, t.kind = "ASSIGN")
<1> HIDE DEF s
<1>3. t' = s /\ TokenRight(src, s)  BY <1>2 DEF ScanNext, s
<1>4. TokenRight(src, t)'  BY <1>3 DEF TokenRight, unquote
<1>5. t.start \in 1..(Len(src) + 1)  BY DEF GInv, TokenRight
<1> QED  BY <1>4, <1>5 DEF GInv, Text

LEMMA SameToken ==
  ASSUME GInv, UNCHANGED <<t, src>>, result' # "panic", stmt' \in {stmt, t.start}
  PROVE  GInv'
BY DEF GInv, Text, TokenRight

LEMMA SetNoPanic ==
  ASSUME NEW blank, NEW v, Set(blank, v), result # "panic"
  PROVE  result' # "panic"
BY DEF Set

LEMMA ReadGInv ==
  ASSUME GInv, Read
  PROVE  GInv'
<1>1. src' = src /\ result # "panic"  BY DEF Read, GInv
<1>2. CASE EndOfText  BY <1>1, <1>2, SameToken DEF EndOfText
<1>3. CASE EndOfLine  BY <1>1, <1>3, NextToken DEF EndOfLine
<1>4. CASE Bracket  BY <1>1, <1>4, NextToken DEF Bracket
<1>5. CASE Variable  BY <1>1, <1>5, NextToken DEF Variable
<1>6. CASE NotAStatement  BY <1>1, <1>6, SameToken DEF NotAStatement, Fail
<1>7. CASE Section  BY <1>1, <1>7, NextToken DEF Section
<1>8. CASE Subsection
  <2>1. t.kind = "STRING" /\ ~unquote(t.lit).panic
    BY <1>8 DEF Subsection, GInv, TokenRight
  <2>2. CASE unquote(t.lit).out = << >>
    <3>1. Fail /\ stmt' = stmt  BY <1>8, <2>1, <2>2 DEF Subsection
    <3> QED  BY <1>1, <3>1, SameToken DEF Fail
  <2>3. CASE unquote(t.lit).out # << >>
    <3>1. ScanNext /\ result' = result /\ stmt' = stmt  BY <1>8, <2>1, <2>3 DEF Subsection
    <3> QED  BY <1>1, <2>1, <3>1, NextToken
  <2> QED  BY <2>2, <2>3
<1>9. CASE CloseBracket  BY <1>1, <1>9, NextToken DEF CloseBracket
<1>10. CASE HeaderEnd  BY <1>1, <1>10, SameToken DEF HeaderEnd
<1>11. CASE SetBlank  BY <1>1, <1>11, SetNoPanic, SameToken DEF SetBlank
<1>12. CASE Assign  BY <1>1, <1>12, NextToken DEF Assign
<1>13. CASE Value
  <2>1. t.kind = "STRING" /\ ~unquote(t.lit).panic
    BY <1>13 DEF Value, GInv, TokenRight
  <2>2. ScanNext /\ result' = result /\ stmt' = stmt  BY <1>13, <2>1 DEF Value
  <2> QED  BY <1>1, <2>1, <2>2, NextToken
<1>14. CASE SetValue  BY <1>1, <1>14, SetNoPanic, SameToken DEF SetValue
<1>15. CASE Unexpected  BY <1>1, <1>15, SameToken DEF Unexpected, Fail
<1> QED
  BY <1>2, <1>3, <1>4, <1>5, <1>6, <1>7, <1>8, <1>9, <1>10, <1>11, <1>12, <1>13, <1>14, <1>15
  DEF Read

LEMMA RereadGInv ==
  ASSUME GInv, Reread
  PROVE  GInv'
<1>1. Dos(src) \in Seq(Char)  BY DosType DEF GInv, Text
<1>2. SubSeq(src, 1, stmt - 1) \in Seq(Char)
  <2>1. Len(src) \in Nat /\ src \in Seq(Char) /\ stmt - 1 \in 0..Len(src)
    BY DEF GInv, Text
  <2> QED  BY <2>1
<1>3. src' = Dos(src) \/ src' = SubSeq(src, 1, stmt - 1)  BY DEF Reread
<1>4. Text'  BY <1>1, <1>2, <1>3 DEF Text
<1>5. FirstRight'  BY <1>4, FirstToken, PTL
<1>6. 1 \in 1..(Len(src') + 1)  BY <1>4 DEF Text
<1>7. t' = Scan(src, 1, FALSE)' /\ result' = "reading" /\ stmt' = 1  BY DEF Reread
<1>8. TokenRight(src, t)'  BY <1>5, <1>7 DEF FirstRight, TokenRight, unquote
<1> QED  BY <1>4, <1>6, <1>7, <1>8 DEF GInv

LEMMA NextGInv == GInv /\ [Next]_vars => GInv'
<1> SUFFICES ASSUME GInv, [Next]_vars PROVE GInv'  OBVIOUS
<1>1. CASE UNCHANGED vars  BY <1>1 DEF vars, parser, GInv, Text, TokenRight
<1> QED  BY <1>1, ReadGInv, RereadGInv DEF Next

\* No text whatever makes unquote panic: what the scanner lets through as a string
\* or as a value (read.go: "invalid literals should be caught by scanner") has its
\* quotes closed and only escapes that unquote knows, also after stripCR.
THEOREM NoPanic == Spec => []NeverPanics
<1>1. GInv => NeverPanics  BY DEF GInv, NeverPanics
<1> QED  BY <1>1, InitGInv, NextGInv, PTL DEF Spec

---------------------------------------------------------------------------
(* The beginning y of a text x, its first c characters: a token of x that  *)
(* is read without an error and ends there is the token of y.              *)

LEMMA LoopInduction ==
  ASSUME NEW D, NEW S, NEW turn, NEW left, NEW K, Ending(D, S, turn, left, K), NEW Good,
         \A v \in D : v \in S \/ turn[v] \in Good => v \in Good
  PROVE  D \subseteq Good
<1> DEFINE T == {left[v] : v \in D \ Good}
<1> SUFFICES ASSUME D \ Good # {} PROVE FALSE  OBVIOUS
<1>1. T \subseteq Nat /\ T # {}  BY DEF Ending
<1>2. PICK n \in T : \A j \in T : n <= j  BY <1>1, Least
<1>3. PICK v \in D \ Good : n = left[v]  BY <1>2
<1>4. v \notin S /\ turn[v] \notin Good  BY <1>3
<1>5. turn[v] \in D /\ left[turn[v]] < left[v]  BY <1>3, <1>4 DEF Ending
<1>6. left[turn[v]] \in T  BY <1>4, <1>5
<1>7. left[turn[v]] \in Nat /\ left[v] \in Nat  BY <1>3, <1>5 DEF Ending
<1> HIDE DEF T
<1> QED  BY <1>2, <1>3, <1>5, <1>6, <1>7

LEMMA AfterIs ==
  ASSUME NEW x \in Seq(Char), NEW S, EOF \notin S, NEW i \in 1..(Len(x) + 1), NEW m
  PROVE  m = After(x, S, i) <=>
           /\ m \in i..(Len(x) + 1) /\ Ch(x, m) \notin S
           /\ \A k \in i..(m - 1) : Ch(x, k) \in S
<1> DEFINE T == {j \in i..(Len(x) + 1) : Ch(x, j) \notin S}
<1>1. Len(x) \in Nat  OBVIOUS
<1>2. Ch(x, Len(x) + 1) = EOF  BY <1>1, CharAt
<1>3. Len(x) + 1 \in T /\ T \subseteq Nat  BY <1>1, <1>2
<1>4. PICK a \in T : \A y \in T : a <= y  BY <1>3, Least
<1> DEFINE n == After(x, S, i)
<1>5. n \in T /\ \A y \in T : n <= y  BY <1>4 DEF Min, After
<1> HIDE DEF n
<1>6. n \in i..(Len(x) + 1) /\ Ch(x, n) \notin S  BY <1>5
<1>7. ASSUME NEW k \in i..(n - 1) PROVE Ch(x, k) \in S
  <2>1. k \in i..(Len(x) + 1) /\ ~(n <= k)  BY <1>1, <1>6
  <2> QED  BY <1>5, <2>1
<1>8. ASSUME m \in i..(Len(x) + 1), Ch(x, m) \notin S, \A k \in i..(m - 1) : Ch(x, k) \in S
      PROVE  m = n
  <2>1. m \in T  BY <1>8
  <2>2. n <= m  BY <1>5, <2>1
  <2>3. ~(n < m)
    <3>1. n < m => n \in i..(m - 1)  BY <1>6, <1>8
    <3> QED  BY <1>6, <1>8, <3>1
  <2> QED  BY <1>6, <1>8, <2>2, <2>3
<1> QED  BY <1>6, <1>7, <1>8 DEF n

Begins(x, y, c) ==
  /\ x \in Seq(Char) /\ y \in Seq(Char) /\ c \in 0..Len(x) /\ Len(y) = c
  /\ \A i \in Nat \ {0} : Ch(y, i) = IF i <= c THEN Ch(x, i) ELSE EOF
  /\ \A p \in 1..(c + 1), e \in 0..c : SubSeq(y, p, e) = SubSeq(x, p, e)

LEMMA Beginning ==
  ASSUME NEW x \in Seq(Char), NEW c \in 0..Len(x)
  PROVE  Begins(x, SubSeq(x, 1, c), c)
<1> DEFINE y == SubSeq(x, 1, c)
<1>1. Len(x) \in Nat /\ c \in Nat /\ c <= Len(x) /\ \A i \in 1..Len(x) : x[i] \in Char
  OBVIOUS
<1>2. y \in Seq(Char) /\ Len(y) = c /\ \A i \in 1..c : y[i] = x[i]
  BY <1>1
<1> HIDE DEF y
<1>3. ASSUME NEW i \in Nat \ {0} PROVE Ch(y, i) = IF i <= c THEN Ch(x, i) ELSE EOF
  <2>1. CASE i <= c
    <3>1. i \in 1..c /\ i \in 1..Len(x)  BY <1>1, <2>1
    <3> QED  BY <1>2, <2>1, <3>1, CharAt
  <2>2. CASE ~(i <= c)
    <3>1. i \notin 1..Len(y)  BY <1>2, <2>2
    <3> QED  BY <1>2, <2>2, <3>1, CharAt
  <2> QED  BY <2>1, <2>2
<1>4. ASSUME NEW p \in 1..(c + 1), NEW e \in 0..c PROVE SubSeq(y, p, e) = SubSeq(x, p, e)
  <2> DEFINE a == SubSeq(y, p, e)
             b == SubSeq(x, p, e)
             n == IF p <= e THEN (e - p) + 1 ELSE 0
  <2>1. p \in Nat /\ e \in Nat /\ 1 <= p /\ e <= c /\ n \in Nat  BY <1>1
  <2>2. a = [k \in 1..n |-> y[(p + k) - 1]]
    BY <1>2, <2>1
  <2>3. b = [k \in 1..n |-> x[(p + k) - 1]]
    BY <1>1, <2>1
  <2>4. \A k \in 1..n : (p + k) - 1 \in 1..c  BY <1>1, <2>1
  <2> HIDE DEF n, a, b
  <2> QED  BY <1>2, <2>2, <2>3, <2>4 DEF a, b
<1> QED  BY <1>1, <1>2, <1>3, <1>4 DEF y, Begins

LEMMA AfterOfBeginning ==
  ASSUME NEW x, NEW y, NEW c, Begins(x, y, c), NEW S, EOF \notin S,
         NEW i \in 1..(c + 1), After(x, S, i) <= c + 1
  PROVE  After(y, S, i) = After(x, S, i)
<1> DEFINE m == After(x, S, i)
<1>1. x \in Seq(Char) /\ y \in Seq(Char) /\ c \in Nat /\ c <= Len(x) /\ Len(x) \in Nat
      /\ Len(y) = c
  BY DEF Begins
<1>2. i \in 1..(Len(x) + 1) /\ i \in 1..(Len(y) + 1) /\ i \in Nat /\ i # 0  BY <1>1
<1>3. m \in i..(Len(x) + 1) /\ Ch(x, m) \notin S /\ \A k \in i..(m - 1) : Ch(x, k) \in S
  BY <1>1, <1>2, AfterIs
<1>4. m <= c + 1  OBVIOUS
<1> HIDE DEF m
<1>5. m \in i..(Len(y) + 1) /\ m \in Nat \ {0}  BY <1>1, <1>2, <1>3, <1>4
<1>6. Ch(y, m) \notin S  BY <1>3, <1>5 DEF Begins
<1>7. ASSUME NEW k \in i..(m - 1) PROVE Ch(y, k) \in S
  <2>1. k \in Nat \ {0} /\ k <= c  BY <1>1, <1>2, <1>4, <1>5
  <2> QED  BY <1>3, <2>1 DEF Begins
<1>8. m = After(y, S, i)  BY <1>1, <1>2, <1>5, <1>6, <1>7, AfterIs
<1> QED  BY <1>8 DEF m

LEMMA StringOfBeginning ==
  ASSUME NEW x, NEW y, NEW c, Begins(x, y, c), NEW i \in Nat, i # 0, scanString(x, i) # 0
  PROVE  /\ scanString(x, i) \in Nat /\ i <= scanString(x, i)
         /\ scanString(x, i) <= c => scanString(y, i) = scanString(x, i)
<1> DEFINE g == StringScan(x)
           h == StringScan(y)
           Right(k) == g[k] # 0 /\ k # 0 =>
                         g[k] \in Nat /\ k <= g[k] /\ (g[k] <= c => h[k] = g[k])
           Good == {k \in Nat : Right(k)}
<1>1. x \in Seq(Char) /\ y \in Seq(Char) /\ c \in Nat
      /\ \A k \in Nat \ {0} : k <= c => Ch(y, k) = Ch(x, k)
  BY DEF Begins
<1>2. /\ \A k : scanString(x, k) = g[k]
      /\ g = Looped(Nat, StringStops(x), StringTurns(x), g)
      /\ \A k : scanString(y, k) = h[k]
      /\ h = Looped(Nat, StringStops(y), StringTurns(y), h)
  BY <1>1, StringLoop
<1> HIDE DEF g, h
<1>3. \A k \in Nat : StringTurn(x, k) \in Nat /\ StringTurn(y, k) \in Nat
  BY StringCases
<1>4. \A k \in Nat : g[k] = IF k = 0 \/ Ch(x, k) = "quote" THEN k ELSE g[StringTurn(x, k)]
  BY <1>2 DEF Looped, StringStops, StringTurns
<1>5. \A k \in Nat : h[k] = IF k = 0 \/ Ch(y, k) = "quote" THEN k ELSE h[StringTurn(y, k)]
  BY <1>2 DEF Looped, StringStops, StringTurns
<1>6. ASSUME NEW k \in Nat, k \in StringStops(x) \/ StringTurns(x)[k] \in Good
      PROVE  k \in Good
  <2> SUFFICES ASSUME g[k] # 0, k # 0
               PROVE  g[k] \in Nat /\ k <= g[k] /\ (g[k] <= c => h[k] = g[k])
    OBVIOUS
  <2>1. CASE Ch(x, k) = "quote"
    <3>1. g[k] = k  BY <1>4, <2>1
    <3>2. k <= c => Ch(y, k) = "quote"  BY <1>1, <2>1
    <3> QED  BY <1>5, <3>1, <3>2
  <2>2. CASE Ch(x, k) # "quote"
    <3> DEFINE n == StringTurn(x, k)
    <3>1. n \in Nat /\ g[k] = g[n]  BY <1>3, <1>4, <2>2
    <3>2. n # 0
      <4>1. g[0] = 0  BY <1>4
      <4> QED  BY <3>1, <4>1
    <3>3. n \in Good  BY <1>6, <2>2 DEF StringStops, StringTurns
    <3>4. g[n] \in Nat /\ n <= g[n] /\ (g[n] <= c => h[n] = g[n])
      BY <3>1, <3>2, <3>3
    <3>5. k < n /\ (n <= c => StringTurn(y, k) = n /\ Ch(y, k) # "quote")
      <4>1. CASE Ch(x, k) = "back" /\ Ch(x, k + 1) \in {"back", "quote"} /\ n = k + 2
        <5>1. n <= c => Ch(y, k) = "back" /\ Ch(y, k + 1) \in {"back", "quote"}
          BY <1>1, <4>1
        <5> QED  BY <4>1, <5>1 DEF StringTurn, Escapes, EOF
      <4>2. CASE Ch(x, k) \notin {"nl", "back", EOF} /\ n = k + 1
        <5>1. n <= c => Ch(y, k) \notin {"nl", "back", EOF} /\ Ch(y, k) # "quote"
          BY <1>1, <2>2, <4>2
        <5> HIDE DEF n
        <5>2. n <= c => StringTurn(y, k) = k + 1  BY <5>1 DEF StringTurn
        <5> QED  BY <4>2, <5>1, <5>2
      <4> QED  BY <3>2, <4>1, <4>2, StringCases
    <3> HIDE DEF n
    <3>6. g[k] <= c => n <= c  BY <1>1, <3>1, <3>4
    <3>7. g[k] <= c => h[k] = h[n]  BY <1>5, <3>5, <3>6
    <3> QED  BY <3>1, <3>4, <3>5, <3>7
  <2> QED  BY <2>1, <2>2
<1>7. Nat \subseteq Good
  <2> HIDE DEF Good
  <2> QED  BY <1>1, <1>6, StringEnds, LoopInduction
<1>8. Right(i)  BY <1>7
<1> QED  BY <1>2, <1>8

LEMMA SameTurn ==
  ASSUME NEW x, NEW y, NEW v \in ValueState,
         Ch(y, v.at) = Ch(x, v.at),
         Ch(x, v.at) = "back" => Ch(y, v.at + 1) = Ch(x, v.at + 1),
         ~v.q /\ Ch(x, v.at) = "back" /\ Ch(x, v.at + 1) = "cr" =>
           Ch(y, v.at + 2) = Ch(x, v.at + 2)
  PROVE  ValueTurn(y, v) = ValueTurn(x, v)
<1> DEFINE i == v.at
<1>1. i \in Nat /\ v.q \in BOOLEAN /\ (i + 1) + 1 = i + 2  BY DEF ValueState
<1>2. CASE v.q /\ Ch(x, i) \in {EOF, "nl"}  BY <1>2 DEF ValueTurn, EOF
<1>3. CASE v.q /\ Ch(x, i) = "back"  BY <1>3 DEF ValueTurn, EOF
<1>4. CASE ~v.q /\ Ch(x, i) = "back"
  <2>1. CASE Ch(x, i + 1) = "cr"
    <3> DEFINE k == (i + 1) + 1
    <3>1. Ch(y, k) = Ch(x, k) /\ Ch(y, i + 1) = "cr"  BY <1>1, <1>4, <2>1
    <3>2. ValueTurn(x, v) = IF Ch(x, k) = "nl" THEN AllOfIt(k + 1, FALSE) ELSE BadValue
      BY <1>4, <2>1 DEF ValueTurn
    <3>3. ValueTurn(y, v) = IF Ch(y, k) = "nl" THEN AllOfIt(k + 1, FALSE) ELSE BadValue
      BY <1>4, <3>1 DEF ValueTurn
    <3> HIDE DEF k, i
    <3> QED  BY <3>1, <3>2, <3>3
  <2>2. CASE Ch(x, i + 1) # "cr"  BY <1>4, <2>2 DEF ValueTurn
  <2> QED  BY <2>1, <2>2
<1>5. CASE Ch(x, i) = "quote"  BY <1>5 DEF ValueTurn, EOF
<1>6. CASE Ch(x, i) \notin {"back", "quote"} /\ ~(v.q /\ Ch(x, i) \in {EOF, "nl"})
  <2>1. ValueTurn(x, v) = [at |-> i + 1, end |-> EndAfter(x, i, v.end, v.q), q |-> v.q]
    BY <1>6 DEF ValueTurn
  <2>2. ValueTurn(y, v) = [at |-> i + 1, end |-> EndAfter(y, i, v.end, v.q), q |-> v.q]
    BY <1>6 DEF ValueTurn
  <2> QED  BY <2>1, <2>2 DEF EndAfter
<1> QED  BY <1>1, <1>2, <1>3, <1>4, <1>5, <1>6

LEMMA ValueOfBeginning ==
  ASSUME NEW x, NEW y, NEW c, Begins(x, y, c), NEW v \in ValueState,
         scanValString(x, v).at # 0
  PROVE  /\ scanValString(x, v) \in ValueState /\ v.at <= scanValString(x, v).at
         /\ scanValString(x, v).at <= c + 1 => scanValString(y, v) = scanValString(x, v)
<1> DEFINE g == ValueScan(x)
           h == ValueScan(y)
           Right(w) == g[w].at # 0 => /\ g[w] \in ValueState /\ w.at <= g[w].at
                                      /\ g[w].at <= c + 1 => h[w] = g[w]
           Good == {w \in ValueState : Right(w)}
<1>1. x \in Seq(Char) /\ y \in Seq(Char) /\ c \in Nat
      /\ \A k \in Nat \ {0} : Ch(y, k) = IF k <= c THEN Ch(x, k) ELSE EOF
  BY DEF Begins
<1>2. /\ \A w : scanValString(x, w) = g[w]
      /\ g = Looped(ValueState, ValueStops(x), ValueTurns(x), g)
      /\ \A w : scanValString(y, w) = h[w]
      /\ h = Looped(ValueState, ValueStops(y), ValueTurns(y), h)
  BY <1>1, ValueLoop
<1> HIDE DEF g, h
<1>3. \A w \in ValueState : ~ValueEnds(x, w) => ValueTurn(x, w) \in ValueState
  BY <1>1, ValueTurnsOn
<1>4. \A w \in ValueState : g[w] = IF ValueEnds(x, w) THEN w ELSE g[ValueTurn(x, w)]
  BY <1>2 DEF Looped, ValueStops, ValueTurns
<1>5. \A w \in ValueState : h[w] = IF ValueEnds(y, w) THEN w ELSE h[ValueTurn(y, w)]
  BY <1>2 DEF Looped, ValueStops, ValueTurns
<1>6. ASSUME NEW w \in ValueState, w \in ValueStops(x) \/ ValueTurns(x)[w] \in Good
      PROVE  w \in Good
  <2> SUFFICES ASSUME g[w].at # 0
               PROVE  /\ g[w] \in ValueState /\ w.at <= g[w].at
                      /\ g[w].at <= c + 1 => h[w] = g[w]
    OBVIOUS
  <2>0. w.at \in Nat /\ w.q \in BOOLEAN  BY DEF ValueState
  <2>1. CASE ValueEnds(x, w)
    <3>1. g[w] = w  BY <1>4, <2>1
    <3>2. w.at # 0 /\ ~w.q /\ Ch(x, w.at) \in {EOF, "nl", "semi"}
      BY <2>1, <3>1 DEF ValueEnds
    <3>3. ~w.q /\ Ch(y, w.at) \in {EOF, "nl", "semi"}  BY <1>1, <2>0, <3>2
    <3>4. ValueEnds(y, w)  BY <3>3 DEF ValueEnds
    <3> QED  BY <1>5, <2>0, <3>1, <3>4
  <2>2. CASE ~ValueEnds(x, w)
    <3> DEFINE n == ValueTurn(x, w)
               i == w.at
    <3>1. n \in ValueState /\ g[w] = g[n] /\ n.at \in Nat
      BY <1>3, <1>4, <2>2 DEF ValueState
    <3>2. n # BadValue
      <4>1. g[BadValue] = BadValue /\ BadValue.at = 0
        BY <1>4, ValueParts DEF ValueEnds
      <4> QED  BY <3>1, <4>1
    <3>3. n \in Good  BY <1>6, <2>2 DEF ValueStops, ValueTurns
    <3>4. g[n] \in ValueState /\ n.at <= g[n].at /\ (g[n].at <= c + 1 => h[n] = g[n])
      BY <3>1, <3>3
    <3>5. i # 0  BY <2>2 DEF ValueEnds
    <3>6. i < n.at /\ (n.at <= c + 1 => ValueTurn(y, w) = n /\ ~ValueEnds(y, w))
      <4>1. ~w.q => Ch(x, i) \notin {EOF, "nl", "semi"}  BY <2>2, <3>5 DEF ValueEnds
      <4>2. (~w.q) \in BOOLEAN /\ i + 1 \in Nat /\ i + 2 \in Nat /\ i + 3 \in Nat
        BY <2>0
      <4>3. /\ i < n.at
            /\ Ch(x, i) = "back" => i + 1 < n.at
            /\ ~w.q /\ Ch(x, i) = "back" /\ Ch(x, i + 1) = "cr" => i + 2 < n.at
        <5> HIDE DEF n
        <5>1. ValueTurn(x, w) = n  BY DEF n
        <5>2. CASE /\ w.q /\ Ch(x, i) = "back" /\ Ch(x, i + 1) \in {"back", "quote", "n"}
                   /\ n = AllOfIt(i + 2, TRUE)
          <6>1. n.at = i + 2  BY <4>2, <5>2, <2>0, ValueParts
          <6>2. i < n.at /\ i + 1 < n.at  BY <2>0, <6>1
          <6> QED  BY <5>2, <6>2
        <5>3. CASE /\ ~w.q /\ Ch(x, i) = "back" /\ Ch(x, i + 1) = "nl"
                   /\ n = AllOfIt(i + 2, FALSE)
          <6>1. n.at = i + 2  BY <4>2, <5>3, <2>0, ValueParts
          <6>2. i < n.at /\ i + 1 < n.at  BY <2>0, <6>1
          <6> QED  BY <5>3, <6>2
        <5>4. CASE /\ ~w.q /\ Ch(x, i) = "back" /\ Ch(x, i + 1) = "cr" /\ Ch(x, i + 2) = "nl"
                   /\ n = AllOfIt(i + 3, FALSE)
          <6>1. n.at = i + 3  BY <4>2, <5>4, <2>0, ValueParts
          <6>2. i < n.at /\ i + 1 < n.at /\ i + 2 < n.at  BY <2>0, <6>1
          <6> QED  BY <5>4, <6>2
        <5>5. CASE Ch(x, i) = "quote" /\ n = AllOfIt(i + 1, ~w.q)
          <6>1. n.at = i + 1  BY <4>2, <5>5, <2>0, ValueParts
          <6>2. i < n.at  BY <2>0, <6>1
          <6> QED  BY <5>5, <6>2
        <5>6. CASE /\ Ch(x, i) \notin {"back", "quote", EOF, "nl"}
                   /\ \/ n = AllOfIt(i + 1, w.q)
                      \/ ~w.q /\ n = [at |-> i + 1, end |-> w.end, q |-> w.q]
          BY <2>0, <4>2, <5>6, ValueParts
        <5> QED  BY <2>2, <3>2, <5>1, <5>2, <5>3, <5>4, <5>5, <5>6, ValueCases
      <4> HIDE DEF n
      <4>4. ASSUME n.at <= c + 1
            PROVE  ValueTurn(y, w) = n /\ ~ValueEnds(y, w)
        <5>1. Ch(y, i) = Ch(x, i)  BY <1>1, <2>0, <3>1, <3>5, <4>3, <4>4
        <5>2. Ch(x, i) = "back" => Ch(y, i + 1) = Ch(x, i + 1)
          BY <1>1, <2>0, <3>1, <4>2, <4>3, <4>4
        <5>3. ~w.q /\ Ch(x, i) = "back" /\ Ch(x, i + 1) = "cr" => Ch(y, i + 2) = Ch(x, i + 2)
          BY <1>1, <2>0, <3>1, <4>2, <4>3, <4>4
        <5>4. ValueTurn(y, w) = n  BY <5>1, <5>2, <5>3, SameTurn DEF n
        <5> QED  BY <3>5, <4>1, <5>1, <5>4 DEF ValueEnds
      <4> QED  BY <4>3, <4>4
    <3> HIDE DEF n
    <3>7. g[w].at <= c + 1 => n.at <= c + 1
      BY <1>1, <3>1, <3>4 DEF ValueState
    <3>8. g[w].at <= c + 1 => h[w] = h[n]  BY <1>5, <3>6, <3>7
    <3>9. w.at <= g[w].at  BY <2>0, <3>1, <3>4, <3>6 DEF ValueState
    <3> QED  BY <3>1, <3>4, <3>8, <3>9
  <2> QED  BY <2>1, <2>2
<1>7. ValueState \subseteq Good
  <2> HIDE DEF Good
  <2> QED  BY <1>1, <1>6, ValueEnding, LoopInduction
<1>8. Right(v)  BY <1>7
<1> QED  BY <1>2, <1>8

\* The parts of Scan.
Blank(x, i) == After(x, White, i)

TokenAt(x, i, nextVal) ==
  IF ~nextVal /\ Ch(x, Blank(x, i)) = "semi"
  THEN After(x, Char \ {"nl"}, Blank(x, i)) ELSE Blank(x, i)

ValueFrom(x, blank, p) ==
  LET v == scanValString(x, AllOfIt(p, FALSE))
  IN  Token(x, "STRING", stripCR(SubSeq(x, p, v.end - 1)), blank, v.at)

IdentFrom(x, blank, p) ==
  LET id == After(x, Letter \cup {"1"}, p)
  IN  Token(x, "IDENT", SubSeq(x, p, id - 1), blank, id)

StringFrom(x, blank, p) ==
  LET e == scanString(x, p + 1)
  IN  Token(x, "STRING", SubSeq(x, p, e), blank, IF e = 0 THEN 0 ELSE e + 1)

EndFrom(x, blank, p) == Token(x, "EOF", << >>, blank, p)

KindOf(ch) == IF ch = "nl" THEN "EOL" ELSE IF ch = "lb" THEN "LBRACK"
              ELSE IF ch = "rb" THEN "RBRACK" ELSE IF ch = "eq" THEN "ASSIGN" ELSE "ERROR"

OneFrom(x, blank, p) == Token(x, KindOf(Ch(x, p)), << >>, blank, p + 1)

TokenFrom(x, blank, p, nextVal) ==
  IF nextVal THEN ValueFrom(x, blank, p)
  ELSE IF Ch(x, p) \in Letter THEN IdentFrom(x, blank, p)
  ELSE IF Ch(x, p) = "quote" THEN StringFrom(x, blank, p)
  ELSE IF Ch(x, p) = EOF THEN EndFrom(x, blank, p)
  ELSE OneFrom(x, blank, p)

LEMMA ScanParts ==
  ASSUME NEW x, NEW i, NEW nextVal \in BOOLEAN
  PROVE  Scan(x, i, nextVal) = TokenFrom(x, Blank(x, i), TokenAt(x, i, nextVal), nextVal)
<1> DEFINE blank == Blank(x, i)
           p == TokenAt(x, i, nextVal)
<1>1. CASE nextVal  BY <1>1 DEF Scan, TokenFrom, ValueFrom, Blank, TokenAt
<1>2. CASE ~nextVal /\ Ch(x, p) \in Letter
  BY <1>2 DEF Scan, TokenFrom, IdentFrom, Blank, TokenAt, Letter, EOF
<1>3. CASE ~nextVal /\ Ch(x, p) = "quote"
  BY <1>3 DEF Scan, TokenFrom, StringFrom, Blank, TokenAt, Letter, EOF
<1>4. CASE ~nextVal /\ Ch(x, p) = EOF
  BY <1>4 DEF Scan, TokenFrom, EndFrom, Blank, TokenAt, Letter, EOF
<1>5. CASE ~nextVal /\ Ch(x, p) \notin Letter \cup {"quote", EOF}
  <2>1. TokenFrom(x, blank, p, nextVal) = OneFrom(x, blank, p)
    BY <1>5 DEF TokenFrom
  <2>2. CASE Ch(x, p) = "nl"
    BY <1>5, <2>1, <2>2 DEF Scan, OneFrom, KindOf, Blank, TokenAt, Letter, EOF
  <2>3. CASE Ch(x, p) = "lb"
    BY <1>5, <2>1, <2>3 DEF Scan, OneFrom, KindOf, Blank, TokenAt, Letter, EOF
  <2>4. CASE Ch(x, p) = "rb"
    BY <1>5, <2>1, <2>4 DEF Scan, OneFrom, KindOf, Blank, TokenAt, Letter, EOF
  <2>5. CASE Ch(x, p) = "eq"
    BY <1>5, <2>1, <2>5 DEF Scan, OneFrom, KindOf, Blank, TokenAt, Letter, EOF
  <2>6. CASE Ch(x, p) \notin {"nl", "lb", "rb", "eq"}
    BY <1>5, <2>1, <2>6 DEF Scan, OneFrom, KindOf, Blank, TokenAt
  <2> QED  BY <2>2, <2>3, <2>4, <2>5, <2>6
<1> QED  BY <1>1, <1>2, <1>3, <1>4, <1>5

\* Where a token begins.
LEMMA ScanPlaces ==
  ASSUME NEW x \in Seq(Char), NEW i \in 1..(Len(x) + 1), NEW nextVal \in BOOLEAN
  PROVE  LET blank == Blank(x, i)
             p == TokenAt(x, i, nextVal)
         IN  /\ blank \in i..(Len(x) + 1) /\ p \in blank..(Len(x) + 1)
             /\ blank \in 1..(Len(x) + 1) /\ p \in 1..(Len(x) + 1)
             /\ \A k \in i..(blank - 1) : Ch(x, k) \in White
             /\ nextVal => p = blank
             /\ p # blank => Ch(x, p) \in {"nl", EOF}
<1> DEFINE n == Len(x)
           blank == Blank(x, i)
           p == TokenAt(x, i, nextVal)
<1>1. n \in Nat  OBVIOUS
<1>2. EOF \notin White /\ EOF \notin Char \ {"nl"}
  BY DEF EOF, White, Char, Letter
<1>3. blank \in i..(n + 1) /\ \A k \in i..(blank - 1) : Ch(x, k) \in White
  BY <1>2, AfterIs DEF Blank
<1>4. blank \in 1..(n + 1)  BY <1>1, <1>3
<1> HIDE DEF blank
<1>5. p = blank \/ (~nextVal /\ p = After(x, Char \ {"nl"}, blank))
  BY DEF TokenAt, blank
<1> HIDE DEF p
<1>6. CASE p = blank  BY <1>1, <1>3, <1>4, <1>6 DEF p, blank
<1>7. CASE ~nextVal /\ p = After(x, Char \ {"nl"}, blank)
  <2>1. p \in blank..(n + 1) /\ Ch(x, p) \notin Char \ {"nl"}
    BY <1>2, <1>4, <1>7, AfterRight
  <2>2. p \in 1..(n + 1)  BY <1>1, <1>4, <2>1
  <2>3. Ch(x, p) \in {"nl", EOF}  BY <2>1, CharAt
  <2> QED  BY <1>1, <1>3, <1>4, <1>7, <2>1, <2>2, <2>3 DEF p, blank
<1> QED  BY <1>5, <1>6, <1>7

LEMMA TokenFields ==
  ASSUME NEW x, NEW kind, NEW lit, NEW start, NEW at
  PROVE  LET tok == Token(x, kind, lit, start, at)
         IN  /\ tok.lit = lit /\ tok.start = start /\ tok.at = at
             /\ tok.kind = IF at > 0 /\ Readable(x, at) THEN kind ELSE "ERROR"
BY DEF Token

\* What is known of where a token starts and ends.
LEMMA ScanEnds ==
  ASSUME NEW x \in Seq(Char), NEW i \in 1..(Len(x) + 1), NEW nextVal \in BOOLEAN
  PROVE  LET tok == Scan(x, i, nextVal)
         IN  /\ tok.start = Blank(x, i)
             /\ tok.kind # "ERROR" =>
                  /\ Readable(x, tok.at) /\ tok.at \in tok.start..(Len(x) + 1)
                  /\ ~nextVal /\ tok.kind # "EOF" => tok.start < tok.at
                  /\ nextVal => tok.kind = "STRING"
                  /\ tok.kind = "EOF" => tok.at = Len(x) + 1
                  /\ tok.kind = "EOL" => Ch(x, tok.at - 1) = "nl"
             /\ tok.kind \in {"ERROR", "EOL", "EOF", "LBRACK", "RBRACK", "ASSIGN",
                              "IDENT", "STRING"}
<1> DEFINE n == Len(x)
           blank == Blank(x, i)
           p == TokenAt(x, i, nextVal)
           tok == Scan(x, i, nextVal)
           kinds == {"ERROR", "EOL", "EOF", "LBRACK", "RBRACK", "ASSIGN", "IDENT", "STRING"}
           Fine(s) ==
             /\ s.start = blank
             /\ s.kind # "ERROR" =>
                  /\ Readable(x, s.at) /\ s.at \in s.start..(n + 1)
                  /\ ~nextVal /\ s.kind # "EOF" => s.start < s.at
                  /\ nextVal => s.kind = "STRING"
                  /\ s.kind = "EOF" => s.at = n + 1
                  /\ s.kind = "EOL" => Ch(x, s.at - 1) = "nl"
             /\ s.kind \in kinds
<1>1. tok = TokenFrom(x, blank, p, nextVal)  BY ScanParts
<1>2. blank \in 1..(n + 1) /\ p \in blank..(n + 1) /\ p \in 1..(n + 1) /\ n \in Nat
      /\ (nextVal => p = blank)
  BY ScanPlaces
<1> HIDE DEF n, blank, p, tok
<1>3. ASSUME NEW kind \in kinds, NEW lit, NEW at,
             at = 0 \/ (/\ at \in blank..(n + 1)
                        /\ ~nextVal /\ kind # "EOF" => blank < at
                        /\ nextVal => kind = "STRING"
                        /\ kind = "EOF" => at = n + 1
                        /\ kind = "EOL" => Ch(x, at - 1) = "nl"),
             tok = Token(x, kind, lit, blank, at)
      PROVE  Fine(tok)
  <2>1. tok.start = blank /\ tok.at = at
        /\ tok.kind = IF at > 0 /\ Readable(x, at) THEN kind ELSE "ERROR"
    BY <1>3, TokenFields
  <2>2. CASE at = 0
    <3>1. tok.kind = "ERROR"  BY <2>1, <2>2
    <3> QED  BY <2>1, <3>1
  <2>3. CASE at # 0  BY <1>3, <2>1, <2>3
  <2> QED  BY <2>2, <2>3
<1> HIDE DEF Fine
<1>4. CASE nextVal
  <2> DEFINE v == scanValString(x, AllOfIt(p, FALSE))
  <2>1. tok = ValueFrom(x, blank, p)  BY <1>1, <1>4 DEF TokenFrom
  <2>2. v.at = 0 \/ v.at \in p..(n + 1)  BY <1>2, ValueRight DEF n
  <2>3. PICK lit : tok = Token(x, "STRING", lit, blank, v.at)  BY <2>1 DEF ValueFrom
  <2> HIDE DEF v
  <2>4. Fine(tok)  BY <1>2, <1>3, <1>4, <2>2, <2>3
  <2> QED  BY <2>4 DEF Fine, n, blank, tok
<1>5. CASE ~nextVal /\ Ch(x, p) \in Letter
  <2> DEFINE id == After(x, Letter \cup {"1"}, p)
  <2>1. tok = IdentFrom(x, blank, p)  BY <1>1, <1>5 DEF TokenFrom
  <2>2. EOF \notin Letter \cup {"1"}  BY DEF EOF, Letter
  <2>3. id \in p..(n + 1) /\ Ch(x, id) \notin Letter \cup {"1"}
    BY <1>2, <2>2, AfterRight DEF n
  <2>4. PICK lit : tok = Token(x, "IDENT", lit, blank, id)  BY <2>1 DEF IdentFrom
  <2> HIDE DEF id
  <2>5. id # p  BY <1>5, <2>3
  <2>6. id \in blank..(n + 1) /\ blank < id  BY <1>2, <2>3, <2>5
  <2>7. Fine(tok)  BY <1>3, <1>5, <2>4, <2>6
  <2> QED  BY <2>7 DEF Fine, n, blank, tok
<1>6. CASE ~nextVal /\ Ch(x, p) = "quote"
  <2> DEFINE e == scanString(x, p + 1)
             at == IF e = 0 THEN 0 ELSE e + 1
  <2>1. tok = StringFrom(x, blank, p)
    BY <1>1, <1>6 DEF TokenFrom, Letter
  <2>2. p \in 1..n  BY <1>2, <1>6, CharAt DEF EOF, n
  <2>3. e = 0 \/ e \in p..n  BY <1>6, <2>2, StringRight DEF n
  <2>4. PICK lit : tok = Token(x, "STRING", lit, blank, at)  BY <2>1 DEF StringFrom
  <2> HIDE DEF e
  <2>5. at = 0 \/ (at \in blank..(n + 1) /\ blank < at)  BY <1>2, <2>2, <2>3
  <2> HIDE DEF at
  <2>6. Fine(tok)  BY <1>3, <1>6, <2>4, <2>5
  <2> QED  BY <2>6 DEF Fine, n, blank, tok
<1>7. CASE ~nextVal /\ Ch(x, p) = EOF
  <2>1. tok = Token(x, "EOF", << >>, blank, p)
    BY <1>1, <1>7 DEF TokenFrom, EndFrom, Letter, EOF
  <2>2. p = n + 1  BY <1>2, <1>7, CharAt DEF n
  <2>3. Fine(tok)  BY <1>2, <1>3, <1>7, <2>1, <2>2
  <2> QED  BY <2>3 DEF Fine, n, blank, tok
<1>8. CASE ~nextVal /\ Ch(x, p) \notin Letter \cup {"quote", EOF}
  <2> DEFINE kind == KindOf(Ch(x, p))
  <2>1. tok = Token(x, kind, << >>, blank, p + 1)
    BY <1>1, <1>8 DEF TokenFrom, OneFrom
  <2>2. p \in 1..n  BY <1>2, <1>8, CharAt DEF n
  <2>3. p + 1 \in blank..(n + 1) /\ blank < p + 1 /\ (p + 1) - 1 = p  BY <1>2, <2>2
  <2>4. kind \in {"EOL", "LBRACK", "RBRACK", "ASSIGN", "ERROR"}
        /\ (kind = "EOL" => Ch(x, p) = "nl")
    BY DEF KindOf
  <2> HIDE DEF kind
  <2>5. Fine(tok)  BY <1>3, <1>8, <2>1, <2>3, <2>4
  <2> QED  BY <2>5 DEF Fine, n, blank, tok
<1> QED  BY <1>4, <1>5, <1>6, <1>7, <1>8

\* A token that ends within the beginning of a text is the beginning's token.
LEMMA ScanOfBeginning ==
  ASSUME NEW x, NEW y, NEW c, Begins(x, y, c), NEW i \in 1..(c + 1), NEW nextVal \in BOOLEAN,
         Scan(x, i, nextVal).kind # "ERROR", Scan(x, i, nextVal).at <= c + 1
  PROVE  Scan(y, i, nextVal) = Scan(x, i, nextVal)
<1> DEFINE blank == Blank(x, i)
           p == TokenAt(x, i, nextVal)
           tok == Scan(x, i, nextVal)
<1>a. x \in Seq(Char) /\ y \in Seq(Char) /\ c \in 0..Len(x)  BY DEF Begins
<1>b. c \in Nat /\ c <= Len(x) /\ Len(x) \in Nat  BY <1>a
<1>0. /\ x \in Seq(Char) /\ y \in Seq(Char) /\ c \in Nat /\ c <= Len(x) /\ Len(x) \in Nat
      /\ Len(y) = c
      /\ \A k \in Nat \ {0} : Ch(y, k) = IF k <= c THEN Ch(x, k) ELSE EOF
      /\ \A q \in 1..(c + 1), e \in 0..c : SubSeq(y, q, e) = SubSeq(x, q, e)
  BY <1>a, <1>b DEF Begins
<1>1. i \in 1..(Len(x) + 1)  BY <1>0
<1>2. /\ blank \in i..(Len(x) + 1) /\ p \in blank..(Len(x) + 1)
      /\ blank \in 1..(Len(x) + 1) /\ p \in 1..(Len(x) + 1) /\ (nextVal => p = blank)
  BY <1>0, <1>1, ScanPlaces
<1>3. tok = TokenFrom(x, blank, p, nextVal)
  BY ScanParts
<1>4. tok.kind # "ERROR" /\ tok.at <= c + 1  OBVIOUS
<1> HIDE DEF blank, p, tok
<1>e. EOF \notin White /\ EOF \notin Char \ {"nl"} /\ EOF \notin Letter \cup {"1"}
  BY DEF EOF, White, Char, Letter
\* Tokens that are the same once they begin at the same place.
<1>5. ASSUME NEW kind, NEW lit, NEW at, tok = Token(x, kind, lit, blank, at)
      PROVE  /\ at > 0 /\ at <= c + 1
             /\ at \in Nat => Token(y, kind, lit, blank, at) = tok
  <2>1. at > 0 /\ Readable(x, at) /\ at <= c + 1
    BY <1>4, <1>5, TokenFields
  <2>2. ASSUME at \in Nat PROVE Readable(y, at)
    <3>1. ASSUME NEW k \in 1..at PROVE Ch(y, k) # "nul"
      <4>1. k \in Nat \ {0} /\ Ch(x, k) # "nul"  BY <2>1, <2>2 DEF Readable
      <4> QED  BY <1>0, <4>1 DEF EOF
    <3> QED  BY <3>1 DEF Readable
  <2> QED  BY <1>5, <2>1, <2>2 DEF Token
<1>6. ASSUME p <= c + 1
      PROVE  Blank(y, i) = blank /\ TokenAt(y, i, nextVal) = p
  <2>1. blank <= c + 1  BY <1>0, <1>2, <1>6
  <2>2. Blank(y, i) = blank  BY <1>e, <2>1, AfterOfBeginning DEF Blank, blank
  <2>3. CASE nextVal  BY <2>2, <2>3 DEF TokenAt, p, blank
  <2>4. CASE ~nextVal /\ Ch(x, blank) # "semi"
    <3>1. Ch(y, blank) # "semi"  BY <1>0, <1>2, <2>4 DEF EOF
    <3> QED  BY <2>2, <2>4, <3>1 DEF TokenAt, p, blank
  <2>5. CASE ~nextVal /\ Ch(x, blank) = "semi"
    <3>1. p = After(x, Char \ {"nl"}, blank)  BY <2>5 DEF p, TokenAt, blank
    <3>2. "semi" \in Char \ {"nl"}  BY DEF Char
    <3>3. p # blank
      <4>1. Ch(x, p) \notin Char \ {"nl"}  BY <1>0, <1>2, <1>e, <3>1, AfterRight
      <4> QED  BY <2>5, <3>2, <4>1
    <3>4. blank <= c  BY <1>0, <1>2, <1>6, <3>3
    <3>5. Ch(y, blank) = "semi"  BY <1>0, <1>2, <2>5, <3>4
    <3>6. blank \in 1..(c + 1)  BY <1>0, <1>2, <2>1
    <3>7. After(y, Char \ {"nl"}, blank) = p
      BY <1>6, <1>e, <3>1, <3>6, AfterOfBeginning
    <3> QED  BY <2>2, <2>5, <3>5, <3>7 DEF TokenAt, blank
  <2> QED  BY <2>3, <2>4, <2>5
<1>7. ASSUME p <= c + 1, TokenFrom(y, blank, p, nextVal) = tok
      PROVE  Scan(y, i, nextVal) = tok
  BY <1>6, <1>7, ScanParts
<1>8. CASE nextVal
  <2> DEFINE z == AllOfIt(p, FALSE)
             v == scanValString(x, z)
             lit == stripCR(SubSeq(x, p, v.end - 1))
  <2>1. tok = Token(x, "STRING", lit, blank, v.at)
    BY <1>3, <1>8 DEF TokenFrom, ValueFrom
  <2>2. v.at > 0 /\ v.at <= c + 1
        /\ (v.at \in Nat => Token(y, "STRING", lit, blank, v.at) = tok)
    BY <1>5, <2>1
  <2>3. z \in ValueState /\ z.at = p
    <3>1. p \in Nat /\ FALSE \in BOOLEAN  BY <1>0, <1>2
    <3> QED  BY <3>1, ValueParts
  <2>4. v \in ValueState /\ p <= v.at /\ scanValString(y, z) = v
    <3> HIDE DEF z
    <3>1. v.at # 0  BY <2>2
    <3> QED  BY <2>2, <2>3, <3>1, ValueOfBeginning
  <2> HIDE DEF v
  <2>5. p <= c + 1 /\ v.at \in Nat /\ v.end \in Nat /\ p \in 1..(c + 1)
    BY <1>0, <1>2, <2>2, <2>4 DEF ValueState
  <2>6. v.end - 1 \in 0..c
    <3>1. p \in 1..(Len(y) + 1) /\ v.at # 0  BY <1>0, <2>2, <2>5
    <3>2. v.end \in p..(Len(y) + 1)  BY <1>0, <2>4, <3>1, ValueRight
    <3> QED  BY <1>0, <2>5, <3>2
  <2>7. SubSeq(y, p, v.end - 1) = SubSeq(x, p, v.end - 1)
    BY <1>0, <2>5, <2>6
  <2>8. TokenFrom(y, blank, p, nextVal) = tok
    BY <1>8, <2>2, <2>4, <2>5, <2>7 DEF TokenFrom, ValueFrom
  <2> QED  BY <1>7, <2>5, <2>8 DEF tok
<1>9. CASE ~nextVal /\ Ch(x, p) \in Letter
  <2> DEFINE id == After(x, Letter \cup {"1"}, p)
             lit == SubSeq(x, p, id - 1)
  <2>1. tok = Token(x, "IDENT", lit, blank, id)
    BY <1>3, <1>9 DEF TokenFrom, IdentFrom
  <2>2. id <= c + 1 /\ (id \in Nat => Token(y, "IDENT", lit, blank, id) = tok)
    BY <1>5, <2>1
  <2>3. id \in p..(Len(x) + 1) /\ Ch(x, id) \notin Letter \cup {"1"}
    BY <1>0, <1>2, <1>e, AfterRight
  <2>4. id # p  BY <1>9, <2>3
  <2>5. p \in Nat \ {0} /\ p <= c /\ p \in 1..(c + 1) /\ id \in Nat /\ id - 1 \in 0..c
    <3> HIDE DEF id
    <3> QED  BY <1>0, <1>2, <2>2, <2>3, <2>4
  <2>6. After(y, Letter \cup {"1"}, p) = id  BY <1>e, <2>2, <2>5, AfterOfBeginning
  <2>7. Ch(y, p) \in Letter /\ SubSeq(y, p, id - 1) = lit  BY <1>0, <1>9, <2>5
  <2>8. IdentFrom(y, blank, p) = Token(y, "IDENT", lit, blank, id)
    BY <2>6, <2>7 DEF IdentFrom
  <2>9. TokenFrom(y, blank, p, nextVal) = tok
    BY <1>9, <2>2, <2>5, <2>7, <2>8 DEF TokenFrom
  <2> QED  BY <1>7, <2>5, <2>9 DEF tok
<1>10. CASE ~nextVal /\ Ch(x, p) = "quote"
  <2> DEFINE e == scanString(x, p + 1)
             lit == SubSeq(x, p, e)
             at == IF e = 0 THEN 0 ELSE e + 1
  <2>1. tok = Token(x, "STRING", lit, blank, at)
    BY <1>3, <1>10 DEF TokenFrom, StringFrom, Letter
  <2>2. at > 0 /\ at <= c + 1 /\ (at \in Nat => Token(y, "STRING", lit, blank, at) = tok)
    BY <1>5, <2>1
  <2>3. p + 1 \in Nat /\ p + 1 # 0 /\ e # 0  BY <1>2, <2>2
  <2>4. e \in Nat /\ p + 1 <= e /\ (e <= c => scanString(y, p + 1) = e)
    BY <2>3, StringOfBeginning
  <2> HIDE DEF e
  <2>5. p \in Nat \ {0} /\ p <= c /\ p <= c + 1 /\ p \in 1..(c + 1) /\ e \in 0..c
        /\ e <= c /\ at \in Nat
    BY <1>0, <1>2, <2>2, <2>3, <2>4
  <2>6. Ch(y, p) = "quote" /\ SubSeq(y, p, e) = lit  BY <1>0, <1>10, <2>5
  <2>7. StringFrom(y, blank, p) = Token(y, "STRING", lit, blank, at)
    BY <2>4, <2>5, <2>6 DEF StringFrom
  <2>8. TokenFrom(y, blank, p, nextVal) = tok
    BY <1>10, <2>2, <2>5, <2>6, <2>7 DEF TokenFrom, Letter
  <2> QED  BY <1>7, <2>5, <2>8 DEF tok
<1>11. CASE ~nextVal /\ Ch(x, p) = EOF
  <2>1. tok = Token(x, "EOF", << >>, blank, p)
    BY <1>3, <1>11 DEF TokenFrom, EndFrom, Letter, EOF
  <2>2. p <= c + 1 /\ p \in Nat \ {0} /\ Token(y, "EOF", << >>, blank, p) = tok
    BY <1>2, <1>5, <2>1
  <2>3. Ch(y, p) = EOF  BY <1>0, <1>11, <2>2
  <2>4. TokenFrom(y, blank, p, nextVal) = tok
    BY <1>11, <2>2, <2>3 DEF TokenFrom, EndFrom, Letter, EOF
  <2> QED  BY <1>7, <2>2, <2>4 DEF tok
<1>12. CASE ~nextVal /\ Ch(x, p) \notin Letter \cup {"quote", EOF}
  <2>1. tok = OneFrom(x, blank, p)
    BY <1>3, <1>12 DEF TokenFrom
  <2>2. p + 1 <= c + 1 /\ Token(y, KindOf(Ch(x, p)), << >>, blank, p + 1) = tok
    BY <1>2, <1>5, <2>1 DEF OneFrom
  <2>3. p \in Nat \ {0} /\ p <= c /\ p <= c + 1  BY <1>0, <1>2, <2>2
  <2>4. Ch(y, p) = Ch(x, p)  BY <1>0, <2>3
  <2>5. TokenFrom(y, blank, p, nextVal) = tok
    BY <1>12, <2>2, <2>4 DEF TokenFrom, OneFrom
  <2> QED  BY <1>7, <2>3, <2>5 DEF tok
<1> QED  BY <1>8, <1>9, <1>10, <1>11, <1>12


---------------------------------------------------------------------------
(* The state of readInto as a value, and one turn of its loop as a         *)
(* function of that and of the text: Gcfg's actions, which take the state  *)
(* from the variables, cannot be said of two texts at once.                *)

ParserState(a, b, c, d, e, f, g, h, i) ==
  [t |-> a, want |-> b, sect |-> c, sub |-> d, name |-> e, val |-> f,
   config |-> g, result |-> h, stmt |-> i]

Parser == ParserState(t, want, sect, sub, name, val, config, result, stmt)

\* An operator, so that the provers need not look into the record.
Put(p, field, z) == [p EXCEPT ![field] = z]

\* The token is one that readInto goes on behind.
Consumes(p) ==
  LET k == p.t.kind
      u == unquote(p.t.lit)
  IN  \/ p.want = "statement" /\ (k \in {"EOL", "LBRACK"} \/ (k = "IDENT" /\ p.sect # << >>))
      \/ p.want = "section" /\ k = "IDENT"
      \/ p.want = "subsection" /\ (k = "RBRACK" \/ (k = "STRING" /\ ~u.panic /\ u.out # << >>))
      \/ p.want = "bracket" /\ k = "RBRACK"
      \/ p.want = "assign" /\ k = "ASSIGN"
      \/ p.want = "value" /\ k = "STRING" /\ ~u.panic

\* What it does but for the next token.
Moved(p) ==
  LET k == p.t.kind
      u == unquote(p.t.lit)
  IN  IF p.want = "statement"
      THEN IF k = "EOL" THEN p
           ELSE IF k = "LBRACK" THEN Put(Put(p, "want", "section"), "stmt", p.t.start)
           ELSE Put(Put(Put(p, "want", "assign"), "name", p.t.lit), "stmt", p.t.start)
      ELSE IF p.want = "section"
      THEN Put(Put(Put(p, "sect", p.t.lit), "sub", << >>), "want", "subsection")
      ELSE IF p.want \in {"subsection", "bracket"}
      THEN IF k = "RBRACK" THEN Put(p, "want", "header end")
           ELSE Put(Put(p, "sub", u.out), "want", "bracket")
      ELSE IF p.want = "assign" THEN Put(p, "want", "value")
      ELSE Put(Put(p, "val", u.out), "want", "value end")

\* KnownSection, Accepts, WithSection, Stored, HalfSet and Set.
Known(p) == p.sect \in Maps \/ (p.sect \in Structs /\ p.sub = << >>)

ConvertsTo(n, blank, v) ==
  CASE Kind[n].of = "string" -> ~blank
    [] Kind[n].of = "bool"   -> blank \/ v \in Bools
    [] Kind[n].of = "scan"   -> ~blank /\ Scanned(n, v).out # << >> /\ Scanned(n, v).all

ConvertedTo(n, blank, v) ==
  CASE Kind[n].of = "string" -> v
    [] Kind[n].of = "bool"   -> IF blank THEN True ELSE v
    [] Kind[n].of = "scan"   -> Scanned(n, v).out

Takes(p, blank, v) == /\ p.name \in DOMAIN Kind
                      /\ (Kind[p.name].multi /\ blank) \/ ConvertsTo(p.name, blank, v)

Sectioned(p) == IF p.sect \in Maps THEN With(p.config, <<p.sect, p.sub>>, << >>) ELSE p.config

Storing(p, c, blank, v) ==
  LET key == <<p.sect, p.sub, p.name>>
      old == IF key \in DOMAIN c THEN c[key] ELSE << >>
      new == ConvertedTo(p.name, blank, v)
  IN  With(c, key, IF ~Kind[p.name].multi THEN <<new>>
                   ELSE IF blank THEN << >> ELSE Append(old, new))

Halved(p, v) == HalfSet(Sectioned(p), <<p.sect, p.sub, p.name>>, v)

Refusing(p, blank, v) ==
  IF ~Known(p) THEN p.config ELSE IF blank THEN Sectioned(p) ELSE Halved(p, v)

Setting(p, blank, v) ==
  IF Known(p) /\ Takes(p, blank, v)
  THEN Put(Put(p, "config", Storing(p, Sectioned(p), blank, v)), "want", "statement")
  ELSE Put(Put(p, "config", Refusing(p, blank, v)), "result", "error")

\* What it does otherwise.
Rested(p) ==
  LET k == p.t.kind
      end == k \in {"EOL", "EOF"}
  IN  IF p.want = "statement"
      THEN IF k = "EOF" THEN Put(p, "result", "ok")
           ELSE Put(Put(p, "result", "error"), "stmt", p.t.start)
      ELSE IF p.want \in {"subsection", "value"} /\ k = "STRING" /\ unquote(p.t.lit).panic
      THEN Put(p, "result", "panic")
      ELSE IF p.want = "header end" /\ end THEN Put(p, "want", "statement")
      ELSE IF p.want = "assign" /\ end THEN Setting(p, TRUE, << >>)
      ELSE IF p.want = "value end" /\ end THEN Setting(p, FALSE, p.val)
      ELSE Put(p, "result", "error")

NextOf(x, p) == Scan(x, p.t.at, p.t.kind = "ASSIGN")

Shift(x, p) == IF Consumes(p) THEN Put(Moved(p), "t", NextOf(x, p)) ELSE Rested(p)

LEMMA ParserStateFields ==
  ASSUME NEW a, NEW b, NEW c, NEW d, NEW e, NEW f, NEW g, NEW h, NEW i
  PROVE  LET r == ParserState(a, b, c, d, e, f, g, h, i)
         IN /\ r.t = a /\ r.want = b /\ r.sect = c /\ r.sub = d /\ r.name = e /\ r.val = f
            /\ r.config = g /\ r.result = h /\ r.stmt = i
BY DEF ParserState

LEMMA ParserStatePut ==
  ASSUME NEW a, NEW b, NEW c, NEW d, NEW e, NEW f, NEW g, NEW h, NEW i, NEW z
  PROVE  LET r == ParserState(a, b, c, d, e, f, g, h, i)
         IN /\ Put(r, "t", z) = ParserState(z, b, c, d, e, f, g, h, i)
            /\ Put(r, "want", z) = ParserState(a, z, c, d, e, f, g, h, i)
            /\ Put(r, "sect", z) = ParserState(a, b, z, d, e, f, g, h, i)
            /\ Put(r, "sub", z) = ParserState(a, b, c, z, e, f, g, h, i)
            /\ Put(r, "name", z) = ParserState(a, b, c, d, z, f, g, h, i)
            /\ Put(r, "val", z) = ParserState(a, b, c, d, e, z, g, h, i)
            /\ Put(r, "config", z) = ParserState(a, b, c, d, e, f, z, h, i)
            /\ Put(r, "result", z) = ParserState(a, b, c, d, e, f, g, z, i)
            /\ Put(r, "stmt", z) = ParserState(a, b, c, d, e, f, g, h, z)
<1> DEFINE r == ParserState(a, b, c, d, e, f, g, h, i)
<1>1. Put(r, "t", z) = ParserState(z, b, c, d, e, f, g, h, i)  BY DEF ParserState, Put
<1>2. Put(r, "want", z) = ParserState(a, z, c, d, e, f, g, h, i)  BY DEF ParserState, Put
<1>3. Put(r, "sect", z) = ParserState(a, b, z, d, e, f, g, h, i)  BY DEF ParserState, Put
<1>4. Put(r, "sub", z) = ParserState(a, b, c, z, e, f, g, h, i)  BY DEF ParserState, Put
<1>5. Put(r, "name", z) = ParserState(a, b, c, d, z, f, g, h, i)  BY DEF ParserState, Put
<1>6. Put(r, "val", z) = ParserState(a, b, c, d, e, z, g, h, i)  BY DEF ParserState, Put
<1>7. Put(r, "config", z) = ParserState(a, b, c, d, e, f, z, h, i)  BY DEF ParserState, Put
<1>8. Put(r, "result", z) = ParserState(a, b, c, d, e, f, g, z, i)  BY DEF ParserState, Put
<1>9. Put(r, "stmt", z) = ParserState(a, b, c, d, e, f, g, h, z)  BY DEF ParserState, Put
<1> QED  BY <1>1, <1>2, <1>3, <1>4, <1>5, <1>6, <1>7, <1>8, <1>9

LEMMA ParserFields ==
  /\ Parser.t = t /\ Parser.want = want /\ Parser.sect = sect /\ Parser.sub = sub
  /\ Parser.name = name /\ Parser.val = val /\ Parser.config = config
  /\ Parser.result = result /\ Parser.stmt = stmt
BY ParserStateFields DEF Parser

\* Every action of readInto is such a turn.
LEMMA SetIs ==
  ASSUME NEW blank \in BOOLEAN, NEW v, Set(blank, v),
         UNCHANGED <<t, sect, sub, name, val, stmt>>
  PROVE  Parser' = Setting(Parser, blank, v)
<1>1. /\ Known(Parser) = KnownSection /\ Takes(Parser, blank, v) = Accepts(blank, v)
      /\ Sectioned(Parser) = WithSection(config)
      /\ Storing(Parser, Sectioned(Parser), blank, v) = Stored(WithSection(config), blank, v)
      /\ Halved(Parser, v) = HalfSet(WithSection(config), <<sect, sub, name>>, v)
  <2>1. /\ ConvertsTo(name, blank, v) = Converts(blank, v)
        /\ ConvertedTo(name, blank, v) = Converted(blank, v)
    BY DEF ConvertsTo, Converts, ConvertedTo, Converted
  <2>2. /\ Known(Parser) = KnownSection /\ Takes(Parser, blank, v) = Accepts(blank, v)
        /\ Sectioned(Parser) = WithSection(config)
    BY ParserFields, <2>1 DEF Known, KnownSection, Takes, Accepts, Sectioned, WithSection
  <2>3. Storing(Parser, Sectioned(Parser), blank, v) = Stored(WithSection(config), blank, v)
    BY ParserFields, <2>1, <2>2 DEF Storing, Stored
  <2>4. Halved(Parser, v) = HalfSet(WithSection(config), <<sect, sub, name>>, v)
    BY ParserFields, <2>2 DEF Halved
  <2> QED  BY <2>2, <2>3, <2>4
<1>2. CASE KnownSection /\ Accepts(blank, v)
  <2>1. config' = Stored(WithSection(config), blank, v) /\ want' = "statement"
        /\ result' = result
    BY <1>2 DEF Set
  <2>2. Parser' = Put(Put(Parser, "config",
                          Stored(WithSection(config), blank, v)), "want", "statement")
    BY ParserStatePut, <2>1 DEF Parser
  <2> QED  BY <1>1, <1>2, <2>2 DEF Setting
<1>3. CASE ~(KnownSection /\ Accepts(blank, v))
  <2> DEFINE c == Refusing(Parser, blank, v)
  <2>1. Parser.config = config  BY ParserFields
  <2>2. config' = c /\ want' = want /\ result' = "error"
    BY <1>1, <1>3, <2>1 DEF Set, Refusing
  <2> HIDE DEF c
  <2>3. Parser' = Put(Put(Parser, "config", c), "result", "error")
    BY ParserStatePut, <2>2 DEF Parser
  <2> QED  BY <1>1, <1>3, <2>3 DEF Setting, c
<1> QED  BY <1>2, <1>3

LEMMA ReadShifts ==
  ASSUME Read
  PROVE  Parser.result = "reading" /\ Parser' = Shift(src, Parser)
<1> DEFINE p == Parser
<1>0. result = "reading"
  BY DEF Read, EndOfText, EndOfLine, Bracket, Variable, NotAStatement, Section, Subsection,
         CloseBracket, HeaderEnd, SetBlank, Assign, Value, SetValue, Unexpected, Looking
<1>1. CASE EndOfText
  <2>1. ~Consumes(p) /\ Rested(p) = Put(p, "result", "ok")
    BY <1>1, ParserFields DEF EndOfText, Looking, Consumes, Rested
  <2>2. p' = Put(p, "result", "ok")  BY ParserStatePut, <1>1 DEF EndOfText, Parser
  <2> QED  BY <1>0, <2>1, <2>2, ParserFields DEF Shift
<1>2. CASE EndOfLine
  <2>1. Consumes(p) /\ Moved(p) = p
    BY <1>2, ParserFields DEF EndOfLine, Looking, Consumes, Moved
  <2>2. p' = Put(p, "t", NextOf(src, p))
    BY ParserStatePut, <1>2, ParserFields DEF EndOfLine, ScanNext, NextOf, Parser
  <2> QED  BY <1>0, <2>1, <2>2, ParserFields DEF Shift
<1>3. CASE Bracket
  <2>1. Consumes(p) /\ Moved(p) = Put(Put(p, "want", "section"), "stmt", t.start)
    BY <1>3, ParserFields DEF Bracket, Looking, Consumes, Moved
  <2>2. p' = Put(Put(Put(p, "want", "section"), "stmt", t.start), "t", NextOf(src, p))
    BY ParserStatePut, <1>3, ParserFields DEF Bracket, ScanNext, NextOf, Parser
  <2> QED  BY <1>0, <2>1, <2>2, ParserFields DEF Shift
<1>4. CASE Variable
  <2>1. /\ Consumes(p)
        /\ Moved(p) = Put(Put(Put(p, "want", "assign"), "name", t.lit), "stmt", t.start)
    BY <1>4, ParserFields DEF Variable, Looking, Consumes, Moved
  <2>2. p' =
          Put(Put(Put(Put(p, "want", "assign"), "name", t.lit), "stmt", t.start),
              "t", NextOf(src, p))
    BY ParserStatePut, <1>4, ParserFields DEF Variable, ScanNext, NextOf, Parser
  <2> QED  BY <1>0, <2>1, <2>2, ParserFields DEF Shift
<1>5. CASE NotAStatement
  <2>1. ~Consumes(p) /\ Rested(p) = Put(Put(p, "result", "error"), "stmt", t.start)
    BY <1>5, ParserFields DEF NotAStatement, Looking, Consumes, Rested
  <2>2. p' = Put(Put(p, "result", "error"), "stmt", t.start)
    BY ParserStatePut, <1>5 DEF NotAStatement, Fail, Parser
  <2> QED  BY <1>0, <2>1, <2>2, ParserFields DEF Shift
<1>6. CASE Section
  <2>1. /\ Consumes(p)
        /\ Moved(p) = Put(Put(Put(p, "sect", t.lit), "sub", << >>), "want", "subsection")
    BY <1>6, ParserFields DEF Section, Looking, Consumes, Moved
  <2>2. p' =
          Put(Put(Put(Put(p, "sect", t.lit), "sub", << >>), "want", "subsection"),
              "t", NextOf(src, p))
    BY ParserStatePut, <1>6, ParserFields DEF Section, ScanNext, NextOf, Parser
  <2> QED  BY <1>0, <2>1, <2>2, ParserFields DEF Shift
<1>7. CASE Subsection
  <2> DEFINE u == unquote(t.lit)
  <2>1. p.want = "subsection" /\ p.t.kind = "STRING" /\ unquote(p.t.lit) = u
    BY <1>7, ParserFields DEF Subsection, Looking
  <2>2. CASE u.panic
    <3>1. ~Consumes(p) /\ Rested(p) = Put(p, "result", "panic")
      BY <2>1, <2>2 DEF Consumes, Rested
    <3>2. p' = Put(p, "result", "panic")
      BY ParserStatePut, <1>7, <2>2 DEF Subsection, Panic, Parser
    <3> QED  BY <1>0, <3>1, <3>2, ParserFields DEF Shift
  <2>3. CASE ~u.panic /\ u.out = << >>
    <3>1. ~Consumes(p) /\ Rested(p) = Put(p, "result", "error")
      BY <2>1, <2>3 DEF Consumes, Rested
    <3>2. p' = Put(p, "result", "error")
      BY ParserStatePut, <1>7, <2>3 DEF Subsection, Fail, Parser
    <3> QED  BY <1>0, <3>1, <3>2, ParserFields DEF Shift
  <2>4. CASE ~u.panic /\ u.out # << >>
    <3>1. Consumes(p) /\ Moved(p) = Put(Put(p, "sub", u.out), "want", "bracket")
      BY <2>1, <2>4 DEF Consumes, Moved
    <3>2. p' = Put(Put(Put(p, "sub", u.out), "want", "bracket"), "t", NextOf(src, p))
      BY ParserStatePut, <1>7, <2>4, ParserFields DEF Subsection, ScanNext, NextOf, Parser
    <3> QED  BY <1>0, <3>1, <3>2, ParserFields DEF Shift
  <2> QED  BY <2>2, <2>3, <2>4
<1>8. CASE CloseBracket
  <2>1. Consumes(p) /\ Moved(p) = Put(p, "want", "header end")
    BY <1>8, ParserFields DEF CloseBracket, Looking, Consumes, Moved
  <2>2. p' = Put(Put(p, "want", "header end"), "t", NextOf(src, p))
    <3>1. /\ t' = NextOf(src, p) /\ want' = "header end"
          /\ UNCHANGED <<sect, sub, name, val, config, result, stmt>>
      BY <1>8, ParserFields DEF CloseBracket, ScanNext, NextOf
    <3> DEFINE w == "header end"
    <3>2. t' = NextOf(src, p) /\ want' = w
          /\ UNCHANGED <<sect, sub, name, val, config, result, stmt>>
      BY <3>1
    <3> HIDE DEF w
    <3>3. p' = Put(Put(p, "want", w), "t", NextOf(src, p))  BY <3>2, ParserStatePut DEF Parser
    <3> QED  BY <3>3 DEF w
  <2> QED  BY <1>0, <2>1, <2>2, ParserFields DEF Shift
<1>9. CASE HeaderEnd
  <2>1. ~Consumes(p) /\ Rested(p) = Put(p, "want", "statement")
    BY <1>9, ParserFields DEF HeaderEnd, Looking, AtEnd, Consumes, Rested
  <2>2. p' = Put(p, "want", "statement")  
    <3>1. /\ want' = "statement"
          /\ UNCHANGED <<t, sect, sub, name, val, config, result, stmt>>
      BY <1>9 DEF HeaderEnd
    <3> QED  BY <3>1, ParserStatePut DEF Parser
  <2> QED  BY <1>0, <2>1, <2>2, ParserFields DEF Shift
<1>10. CASE SetBlank
  <2>1. ~Consumes(p) /\ Rested(p) = Setting(p, TRUE, << >>)
    BY <1>10, ParserFields DEF SetBlank, Looking, AtEnd, Consumes, Rested
  <2>2. Set(TRUE, << >>) /\ UNCHANGED <<t, sect, sub, name, val, stmt>>  BY <1>10 DEF SetBlank
  <2>3. p' = Setting(p, TRUE, << >>)  BY <2>2, SetIs
  <2> QED  BY <1>0, <2>1, <2>3, ParserFields DEF Shift
<1>11. CASE Assign
  <2>1. Consumes(p) /\ Moved(p) = Put(p, "want", "value")
    BY <1>11, ParserFields DEF Assign, Looking, Consumes, Moved
  <2>2. p' = Put(Put(p, "want", "value"), "t", NextOf(src, p))
    BY ParserStatePut, <1>11, ParserFields DEF Assign, ScanNext, NextOf, Parser
  <2> QED  BY <1>0, <2>1, <2>2, ParserFields DEF Shift
<1>12. CASE Value
  <2> DEFINE u == unquote(t.lit)
  <2>1. p.want = "value" /\ p.t.kind = "STRING" /\ unquote(p.t.lit) = u
    BY <1>12, ParserFields DEF Value, Looking
  <2>2. CASE u.panic
    <3>1. ~Consumes(p) /\ Rested(p) = Put(p, "result", "panic")
      BY <2>1, <2>2 DEF Consumes, Rested
    <3>2. p' = Put(p, "result", "panic")
      BY ParserStatePut, <1>12, <2>2 DEF Value, Panic, Parser
    <3> QED  BY <1>0, <3>1, <3>2, ParserFields DEF Shift
  <2>3. CASE ~u.panic
    <3>1. Consumes(p) /\ Moved(p) = Put(Put(p, "val", u.out), "want", "value end")
      BY <2>1, <2>3 DEF Consumes, Moved
    <3>2. p' = Put(Put(Put(p, "val", u.out), "want", "value end"), "t", NextOf(src, p))
      <4>1. /\ t' = NextOf(src, p) /\ want' = "value end" /\ val' = u.out
            /\ UNCHANGED <<sect, sub, name, config, result, stmt>>
        BY <1>12, <2>3, ParserFields DEF Value, ScanNext, NextOf
      <4> DEFINE w == "value end"
                 o == u.out
      <4>2. /\ t' = NextOf(src, p) /\ want' = w /\ val' = o
            /\ UNCHANGED <<sect, sub, name, config, result, stmt>>
        BY <4>1
      <4> HIDE DEF w, o
      <4>3. p' = Put(Put(Put(p, "val", o), "want", w), "t", NextOf(src, p))
        BY <4>2, ParserStatePut DEF Parser
      <4> QED  BY <4>3 DEF w, o
    <3> QED  BY <1>0, <3>1, <3>2, ParserFields DEF Shift
  <2> QED  BY <2>2, <2>3
<1>13. CASE SetValue
  <2>1. ~Consumes(p) /\ Rested(p) = Setting(p, FALSE, val)
    BY <1>13, ParserFields DEF SetValue, Looking, AtEnd, Consumes, Rested
  <2>2. Set(FALSE, val) /\ UNCHANGED <<t, sect, sub, name, val, stmt>>  BY <1>13 DEF SetValue
  <2>3. p' = Setting(p, FALSE, val)  BY <2>2, SetIs
  <2> QED  BY <1>0, <2>1, <2>3, ParserFields DEF Shift
<1>14. CASE Unexpected
  <2>1. ~Consumes(p) /\ Rested(p) = Put(p, "result", "error")
    BY <1>14, ParserFields DEF Unexpected, Looking, AtEnd, Consumes, Rested
  <2>2. p' = Put(p, "result", "error")  
    <3>1. /\ result' = "error"
          /\ UNCHANGED <<t, want, sect, sub, name, val, config, stmt>>
      BY <1>14 DEF Unexpected, Fail
    <3> QED  BY <3>1, ParserStatePut DEF Parser
  <2> QED  BY <1>0, <2>1, <2>2, ParserFields DEF Shift
<1> QED
  BY <1>1, <1>2, <1>3, <1>4, <1>5, <1>6, <1>7, <1>8, <1>9, <1>10, <1>11, <1>12, <1>13, <1>14
     DEF Read

IsParser(p) ==
  p = ParserState(p.t, p.want, p.sect, p.sub, p.name, p.val, p.config, p.result, p.stmt)

LEMMA PutFields ==
  ASSUME NEW p, IsParser(p), NEW z
  PROVE  LET At(q, u, w, c, r, s) ==
               /\ IsParser(q) /\ q.t = u /\ q.want = w
               /\ q.config = c /\ q.result = r /\ q.stmt = s
         IN  /\ At(Put(p, "t", z), z, p.want, p.config, p.result, p.stmt)
             /\ At(Put(p, "want", z), p.t, z, p.config, p.result, p.stmt)
             /\ At(Put(p, "sect", z), p.t, p.want, p.config, p.result, p.stmt)
             /\ At(Put(p, "sub", z), p.t, p.want, p.config, p.result, p.stmt)
             /\ At(Put(p, "name", z), p.t, p.want, p.config, p.result, p.stmt)
             /\ At(Put(p, "val", z), p.t, p.want, p.config, p.result, p.stmt)
             /\ At(Put(p, "config", z), p.t, p.want, z, p.result, p.stmt)
             /\ At(Put(p, "result", z), p.t, p.want, p.config, z, p.stmt)
             /\ At(Put(p, "stmt", z), p.t, p.want, p.config, p.result, z)
<1> DEFINE At(q, u, w, c, r, s) ==
             IsParser(q) /\ q.t = u /\ q.want = w /\ q.config = c /\ q.result = r /\ q.stmt = s
           S(a, b, c, d, e, f, g, h, i) == ParserState(a, b, c, d, e, f, g, h, i)
<1>0. ASSUME NEW a, NEW b, NEW c, NEW d, NEW e, NEW f, NEW g, NEW h, NEW i,
             NEW q, q = ParserState(a, b, c, d, e, f, g, h, i)
      PROVE  At(q, a, b, g, h, i)
  BY <1>0, ParserStateFields DEF IsParser
<1> HIDE DEF At
<1>1. p = ParserState(p.t, p.want, p.sect, p.sub, p.name, p.val, p.config, p.result, p.stmt)
  BY DEF IsParser
<1>2. At(Put(p, "t", z), z, p.want, p.config, p.result, p.stmt)  BY <1>0, <1>1, ParserStatePut
<1>3. At(Put(p, "want", z), p.t, z, p.config, p.result, p.stmt)  BY <1>0, <1>1, ParserStatePut
<1>4. At(Put(p, "sect", z), p.t, p.want, p.config, p.result, p.stmt)
  BY <1>0, <1>1, ParserStatePut
<1>5. At(Put(p, "sub", z), p.t, p.want, p.config, p.result, p.stmt)
  BY <1>0, <1>1, ParserStatePut
<1>6. At(Put(p, "name", z), p.t, p.want, p.config, p.result, p.stmt)
  BY <1>0, <1>1, ParserStatePut
<1>7. At(Put(p, "val", z), p.t, p.want, p.config, p.result, p.stmt)
  BY <1>0, <1>1, ParserStatePut
<1>8. At(Put(p, "config", z), p.t, p.want, z, p.result, p.stmt)  BY <1>0, <1>1, ParserStatePut
<1>9. At(Put(p, "result", z), p.t, p.want, p.config, z, p.stmt)  BY <1>0, <1>1, ParserStatePut
<1>10. At(Put(p, "stmt", z), p.t, p.want, p.config, p.result, z)  BY <1>0, <1>1, ParserStatePut
<1> QED  BY <1>2, <1>3, <1>4, <1>5, <1>6, <1>7, <1>8, <1>9, <1>10 DEF At

\* An entry for a subsection is no value.
LEMMA SectionedValues ==
  ASSUME NEW p
  PROVE  Values(Sectioned(p)) = Values(p.config)
<1> DEFINE c == p.config
           key == <<p.sect, p.sub>>
           d == With(c, key, << >>)
<1>1. CASE p.sect \in Maps
  <2>1. Sectioned(p) = d  BY <1>1 DEF Sectioned
  <2>2. Len(key) = 2  OBVIOUS
  <2>3. DOMAIN d = DOMAIN c \cup {key} /\ \A k \in DOMAIN c : k # key => d[k] = c[k]
    BY DEF With
  <2> HIDE DEF d, key, c
  <2>4. {k \in DOMAIN d : Len(k) = 3} = {k \in DOMAIN c : Len(k) = 3}
    BY <2>2, <2>3
  <2>5. \A k \in {k \in DOMAIN c : Len(k) = 3} : d[k] = c[k]
    BY <2>2, <2>3
  <2>6. Values(d) = Values(c)
    BY <2>4, <2>5 DEF Values
  <2> QED  BY <2>1, <2>6 DEF d, c, key
<1>2. CASE p.sect \notin Maps  BY <1>2 DEF Sectioned
<1> QED  BY <1>1, <1>2

\* The key of a value has three parts, so the values tell what a refusal adds to them.
LEMMA RefusalValues ==
  ASSUME NEW c, NEW d, Values(c) = Values(d), NEW s, NEW b, NEW n, NEW v
  PROVE  Values(HalfSet(c, <<s, b, n>>, v)) = Values(HalfSet(d, <<s, b, n>>, v))
<1> DEFINE key == <<s, b, n>>
           new == <<Scanned(n, v).out>>
           ofC == {k \in DOMAIN c : Len(k) = 3}
           ofD == {k \in DOMAIN d : Len(k) = 3}
<1>1. Len(key) = 3 /\ key[3] = n  OBVIOUS
<1> HIDE DEF key, new
<1>2. \A k \in ofC : k \in ofD /\ d[k] = c[k]
  <2> SUFFICES ASSUME NEW k \in ofC PROVE k \in ofD /\ d[k] = c[k]  OBVIOUS
  <2>1. <<k, c[k]>> \in Values(d)  BY DEF Values
  <2> QED  BY <2>1 DEF Values
<1>3. \A k \in ofD : k \in ofC
  <2> SUFFICES ASSUME NEW k \in ofD PROVE k \in ofC  OBVIOUS
  <2>1. <<k, d[k]>> \in Values(c)  BY DEF Values
  <2> QED  BY <2>1 DEF Values
<1>4. key \in DOMAIN c <=> key \in DOMAIN d  BY <1>1, <1>2, <1>3
<1>5. Values(With(c, key, new)) = Values(With(d, key, new))
  <2> DEFINE e == With(c, key, new)
             f == With(d, key, new)
  <2>1. /\ DOMAIN e = DOMAIN c \cup {key} /\ DOMAIN f = DOMAIN d \cup {key}
        /\ e[key] = new /\ f[key] = new
        /\ \A k \in DOMAIN c : k # key => e[k] = c[k]
        /\ \A k \in DOMAIN d : k # key => f[k] = d[k]
    BY DEF With
  <2> HIDE DEF e, f
  <2>2. {k \in DOMAIN e : Len(k) = 3} = {k \in DOMAIN f : Len(k) = 3}
    BY <1>1, <1>2, <1>3, <2>1
  <2>3. \A k \in {k \in DOMAIN e : Len(k) = 3} : e[k] = f[k]  BY <1>2, <2>1
  <2>4. Values(e) = Values(f)  BY <2>2, <2>3 DEF Values
  <2> QED  BY <2>4 DEF e, f
<1> DEFINE scans == /\ n \in DOMAIN Kind /\ Kind[n].of = "scan" /\ ~Kind[n].multi
                    /\ Kind[n].ptr => key \in DOMAIN c
                    /\ Scanned(n, v).out # << >>
<1>6. /\ HalfSet(c, key, v) = IF scans THEN With(c, key, new) ELSE c
      /\ HalfSet(d, key, v) = IF scans THEN With(d, key, new) ELSE d
  BY <1>1, <1>4 DEF HalfSet, new
<1> HIDE DEF scans
<1>7. Values(HalfSet(c, key, v)) = Values(HalfSet(d, key, v))  BY <1>5, <1>6
<1> QED  BY <1>7 DEF key

\* Refused, and the values that an error leaves when v are those set before.
RefusedBy(p) ==
  IF p.want = "value end" /\ p.t.kind \in {"EOL", "EOF"} /\ Known(p)
  THEN <<<<p.sect, p.sub, p.name>>, p.val>> ELSE << >>

Leaves(v, p) ==
  \A e : Values(e) = v => Values(p.config) = Values(AfterRefusal(e, RefusedBy(p)))

LEMMA PutRefused ==
  ASSUME NEW p, IsParser(p), NEW c
  PROVE  LET q == Put(Put(p, "config", c), "result", "error")
         IN  q.config = c /\ RefusedBy(q) = RefusedBy(p)
<1> DEFINE q == Put(Put(p, "config", c), "result", "error")
<1>1. p = ParserState(p.t, p.want, p.sect, p.sub, p.name, p.val, p.config, p.result, p.stmt)
  BY DEF IsParser
<1>2. Put(p, "config", c) =
        ParserState(p.t, p.want, p.sect, p.sub, p.name, p.val, c, p.result, p.stmt)
  BY <1>1, ParserStatePut
<1>3. q = ParserState(p.t, p.want, p.sect, p.sub, p.name, p.val, c, "error", p.stmt)
  BY <1>2, ParserStatePut
<1> HIDE DEF q
<1>4. q.t = p.t /\ q.want = p.want /\ q.sect = p.sect /\ q.sub = p.sub
      /\ q.name = p.name /\ q.val = p.val /\ q.config = c
  BY <1>3, ParserStateFields
<1>5. RefusedBy(q) = RefusedBy(p)  BY <1>4 DEF RefusedBy, Known
<1> QED  BY <1>4, <1>5 DEF q

\* A turn that goes on behind a token.
LEMMA Consuming ==
  ASSUME NEW p, IsParser(p), p.result = "reading", Consumes(p), NEW x
  PROVE  LET q == Shift(x, p)
         IN  /\ IsParser(q) /\ q = Put(Moved(p), "t", NextOf(x, p)) /\ IsParser(Moved(p))
             /\ q.t = NextOf(x, p) /\ q.result = "reading" /\ q.config = p.config
             /\ p.t.kind \notin {"ERROR", "EOF"}
             /\ p.want # "statement" => q.want # "statement" /\ q.stmt = p.stmt
             /\ p.want = "statement" /\ p.t.kind = "EOL" =>
                  q.want = "statement" /\ q.stmt = p.stmt
             /\ p.want = "statement" /\ p.t.kind # "EOL" =>
                  q.want # "statement" /\ q.stmt = p.t.start
             /\ p.t.kind = "ASSIGN" => q.want = "value"
<1> DEFINE k == p.t.kind
           u == unquote(p.t.lit)
           m == Moved(p)
           q == Shift(x, p)
           Right(w, n) == /\ IsParser(m) /\ m.result = p.result /\ m.config = p.config
                          /\ m.want = w /\ m.stmt = n /\ m.t = p.t
<1>0. q = Put(m, "t", NextOf(x, p))  BY DEF Shift
<1>1. CASE p.want = "statement" /\ k = "EOL"
  <2>1. m = p  BY <1>1 DEF Moved
  <2>2. Right("statement", p.stmt)  BY <1>1, <2>1
  <2> HIDE DEF m
  <2> QED  BY <1>0, <1>1, <2>2, PutFields DEF m
<1>2. CASE p.want = "statement" /\ k = "LBRACK"
  <2>1. m = Put(Put(p, "want", "section"), "stmt", p.t.start)  BY <1>2 DEF Moved
  <2>2. Right("section", p.t.start)  BY <2>1, PutFields
  <2> HIDE DEF m
  <2> QED  BY <1>0, <1>2, <2>2, PutFields DEF m
<1>3. CASE p.want = "statement" /\ k = "IDENT"
  <2>1. m = Put(Put(Put(p, "want", "assign"), "name", p.t.lit), "stmt", p.t.start)
    BY <1>3 DEF Moved
  <2>2. Right("assign", p.t.start)  BY <2>1, PutFields
  <2> HIDE DEF m
  <2> QED  BY <1>0, <1>3, <2>2, PutFields DEF m
<1>4. CASE p.want = "section" /\ k = "IDENT"
  <2>1. m = Put(Put(Put(p, "sect", p.t.lit), "sub", << >>), "want", "subsection")
    BY <1>4 DEF Moved
  <2>2. Right("subsection", p.stmt)  BY <2>1, PutFields
  <2> HIDE DEF m
  <2> QED  BY <1>0, <1>4, <2>2, PutFields DEF m
<1>5. CASE p.want \in {"subsection", "bracket"} /\ k = "RBRACK"
  <2> DEFINE w == "header end"
  <2>1. m = Put(p, "want", w) /\ w # "statement"  BY <1>5 DEF Moved
  <2> HIDE DEF w
  <2>2. Right(w, p.stmt)  BY <2>1, PutFields
  <2> HIDE DEF m
  <2> QED  BY <1>0, <1>5, <2>1, <2>2, PutFields DEF m
<1>6. CASE p.want = "subsection" /\ k = "STRING"
  <2>1. m = Put(Put(p, "sub", u.out), "want", "bracket")  BY <1>6 DEF Moved
  <2>2. Right("bracket", p.stmt)  BY <2>1, PutFields
  <2> HIDE DEF m
  <2> QED  BY <1>0, <1>6, <2>2, PutFields DEF m
<1>7. CASE p.want = "assign" /\ k = "ASSIGN"
  <2>1. m = Put(p, "want", "value")  BY <1>7 DEF Moved
  <2>2. Right("value", p.stmt)  BY <2>1, PutFields
  <2> HIDE DEF m
  <2> QED  BY <1>0, <1>7, <2>2, PutFields DEF m
<1>8. CASE p.want = "value" /\ k = "STRING"
  <2> DEFINE w == "value end"
  <2>1. m = Put(Put(p, "val", u.out), "want", w) /\ w # "statement"  BY <1>8 DEF Moved
  <2> HIDE DEF w
  <2>2. Right(w, p.stmt)  BY <2>1, PutFields
  <2> HIDE DEF m
  <2> QED  BY <1>0, <1>8, <2>1, <2>2, PutFields DEF m
<1> QED  BY <1>1, <1>2, <1>3, <1>4, <1>5, <1>6, <1>7, <1>8 DEF Consumes

\* A turn that does not.
LEMMA Resting ==
  ASSUME NEW p, IsParser(p), p.result = "reading", ~Consumes(p)
  PROVE  LET q == Rested(p)
             k == p.t.kind
         IN  /\ IsParser(q) /\ q.t = p.t
             /\ p.want = "statement" =>
                  /\ k # "EOL" /\ q.config = p.config
                  /\ k = "EOF" => q.result = "ok"
                  /\ k # "EOF" => /\ q.result = "error" /\ q.stmt = p.t.start
                                  /\ Leaves(Values(p.config), q)
             /\ p.want # "statement" =>
                  /\ q.stmt = p.stmt
                  /\ \/ q.result = "panic"
                     \/ q.result = "error" /\ Leaves(Values(p.config), q)
                     \/ q.result = "reading" /\ q.want = "statement" /\ k \in {"EOL", "EOF"}
<1> DEFINE k == p.t.kind
           end == k \in {"EOL", "EOF"}
           q == Rested(p)
           Right(r) ==
             /\ IsParser(r) /\ r.t = p.t /\ r.stmt = p.stmt
             /\ \/ r.result = "panic"
                \/ r.result = "error" /\ Leaves(Values(p.config), r)
                \/ r.result = "reading" /\ r.want = "statement" /\ end
<1>1. CASE p.want = "statement" /\ k = "EOF"
  <2>1. q = Put(p, "result", "ok")  BY <1>1 DEF Rested
  <2> QED  BY <1>1, <2>1, PutFields
<1>2. CASE p.want = "statement" /\ k # "EOF"
  <2>1. q = Put(Put(p, "result", "error"), "stmt", p.t.start)  BY <1>2 DEF Rested
  <2>2. k # "EOL"  BY <1>2 DEF Consumes
  <2>3. /\ IsParser(q) /\ q.t = p.t /\ q.want = "statement" /\ q.config = p.config
        /\ q.result = "error" /\ q.stmt = p.t.start
    BY <1>2, <2>1, PutFields
  <2> HIDE DEF q
  <2>4. RefusedBy(q) = << >>  BY <2>3 DEF RefusedBy
  <2>5. Leaves(Values(p.config), q)  BY <2>3, <2>4 DEF Leaves, AfterRefusal
  <2> QED  BY <1>2, <2>2, <2>3, <2>5 DEF q
<1>3. CASE p.want # "statement"
  <2>1. ASSUME NEW blank \in BOOLEAN, NEW v, end, q = Setting(p, blank, v),
               blank => p.want = "assign", ~blank => p.want = "value end" /\ v = p.val
        PROVE  Right(q)
    <3>1. CASE Known(p) /\ Takes(p, blank, v)
      <4>1. PICK c : q = Put(Put(p, "config", c), "want", "statement")
        BY <2>1, <3>1 DEF Setting
      <4>2. IsParser(q) /\ q.t = p.t /\ q.stmt = p.stmt /\ q.result = "reading"
            /\ q.want = "statement"
        BY <4>1, PutFields
      <4> QED  BY <2>1, <4>2
    <3>2. CASE ~(Known(p) /\ Takes(p, blank, v))
      <4> DEFINE c == Refusing(p, blank, v)
      <4>1. q = Put(Put(p, "config", c), "result", "error")
        BY <2>1, <3>2 DEF Setting
      <4>2. ASSUME NEW e, Values(e) = Values(p.config)
            PROVE  Values(c) = Values(AfterRefusal(e, RefusedBy(p)))
        <5>1. CASE Known(p) /\ ~blank
          <6> DEFINE d == Sectioned(p)
                     key == <<p.sect, p.sub, p.name>>
          <6>1. c = HalfSet(d, key, v)  BY <5>1 DEF Refusing, Halved
          <6>2. AfterRefusal(e, RefusedBy(p)) = HalfSet(e, key, v)
            BY <2>1, <5>1 DEF AfterRefusal, RefusedBy, end
          <6>3. Values(d) = Values(e)  BY <4>2, SectionedValues
          <6> HIDE DEF d, c
          <6> QED  BY <6>1, <6>2, <6>3, RefusalValues
        <5>2. CASE ~(Known(p) /\ ~blank)
          <6>1. AfterRefusal(e, RefusedBy(p)) = e  BY <2>1, <5>2 DEF AfterRefusal, RefusedBy
          <6>2. Values(c) = Values(p.config)  BY <5>2, SectionedValues DEF Refusing
          <6> QED  BY <4>2, <6>1, <6>2
        <5> QED  BY <5>1, <5>2
      <4> HIDE DEF c
      <4>3. q.config = c /\ RefusedBy(q) = RefusedBy(p)  BY <4>1, PutRefused
      <4>4. Leaves(Values(p.config), q)  BY <4>2, <4>3 DEF Leaves
      <4>5. IsParser(q) /\ q.t = p.t /\ q.stmt = p.stmt /\ q.result = "error"
        BY <4>1, PutFields
      <4> QED  BY <4>4, <4>5
    <3> QED  BY <3>1, <3>2
  <2>2. ASSUME q = Put(p, "result", "error"), ~(p.want = "value end" /\ end) PROVE Right(q)
    <3>0. q = Put(p, "result", "error")  BY <2>2
    <3>1. /\ IsParser(q) /\ q.t = p.t /\ q.want = p.want /\ q.config = p.config
          /\ q.result = "error" /\ q.stmt = p.stmt
      BY <3>0, PutFields
    <3> HIDE DEF q
    <3>2. RefusedBy(q) = << >>  BY <2>2, <3>1 DEF RefusedBy
    <3>3. Leaves(Values(p.config), q)  BY <3>1, <3>2 DEF Leaves, AfterRefusal
    <3> QED  BY <3>1, <3>3
  <2>3. ASSUME q = Put(p, "result", "panic") PROVE Right(q)  BY <2>3, PutFields
  <2>4. ASSUME end, q = Put(p, "want", "statement") PROVE Right(q)  BY <2>4, PutFields
  <2>5. \/ q = Put(p, "result", "error") /\ ~(p.want = "value end" /\ end)
        \/ q = Put(p, "result", "panic")
        \/ end /\ q = Put(p, "want", "statement")
        \/ end /\ q = Setting(p, TRUE, << >>) /\ p.want = "assign"
        \/ end /\ q = Setting(p, FALSE, p.val) /\ p.want = "value end"
    <3>1. CASE p.want = "header end"  BY <1>3, <3>1 DEF Rested
    <3>2. CASE p.want = "assign"  BY <1>3, <3>2 DEF Rested
    <3>3. CASE p.want = "value end"  BY <1>3, <3>3 DEF Rested
    <3>4. CASE p.want \notin {"header end", "assign", "value end"}
      BY <1>3, <3>4 DEF Rested
    <3> QED  BY <3>1, <3>2, <3>3, <3>4
  <2> HIDE DEF q, end, Right
  <2>6. Right(q)  BY <2>1, <2>2, <2>3, <2>4, <2>5
  <2> QED  BY <1>3, <2>6 DEF Right, q, end
<1> QED  BY <1>1, <1>2, <1>3

---------------------------------------------------------------------------
(* A reading of x that fails in the statement behind c, next to a reading  *)
(* of what precedes it: they go through the same states until the first    *)
(* stands before that statement, where the second finds the text ended.    *)

\* p reads a token of the text x, a value only where readInto wants one.
Placed(x, p) ==
  /\ IsParser(p)
  /\ \E i \in 1..(Len(x) + 1), nextVal \in BOOLEAN :
       p.t = Scan(x, i, nextVal) /\ (nextVal => p.want = "value")

LEMMA PlacedToken ==
  ASSUME NEW x \in Seq(Char), NEW p, Placed(x, p)
  PROVE  /\ IsParser(p) /\ Len(x) \in Nat
         /\ p.t.start \in 1..(Len(x) + 1)
         /\ p.t.kind # "ERROR" =>
              /\ p.t.at \in p.t.start..(Len(x) + 1) /\ p.t.at \in 1..(Len(x) + 1)
              /\ Readable(x, p.t.at)
              /\ p.want # "value" /\ p.t.kind # "EOF" => p.t.start < p.t.at
         /\ p.t.kind \in {"EOL", "EOF"} => \E i \in 1..(Len(x) + 1) : p.t = Scan(x, i, FALSE)
<1>1. PICK i \in 1..(Len(x) + 1), nextVal \in BOOLEAN :
        p.t = Scan(x, i, nextVal) /\ (nextVal => p.want = "value")
  BY DEF Placed
<1> DEFINE tok == Scan(x, i, nextVal)
<1>2. Len(x) \in Nat /\ Blank(x, i) \in 1..(Len(x) + 1)  BY ScanPlaces
<1>3. /\ tok.start = Blank(x, i)
      /\ tok.kind # "ERROR" =>
           /\ tok.at \in tok.start..(Len(x) + 1) /\ Readable(x, tok.at)
           /\ ~nextVal /\ tok.kind # "EOF" => tok.start < tok.at
           /\ nextVal => tok.kind = "STRING"
  BY ScanEnds
<1>4. p.t = tok  BY <1>1
<1>5. p.t.kind \in {"EOL", "EOF"} => ~nextVal  BY <1>3, <1>4
<1>6. p.t.kind \in {"EOL", "EOF"} => p.t = Scan(x, i, FALSE)
  <2>1. ASSUME ~nextVal PROVE p.t = Scan(x, i, FALSE)
    <3>1. nextVal = FALSE  BY <2>1
    <3> QED  BY <1>1, <3>1
  <2> QED  BY <1>5, <2>1
<1>7. p.t.start \in 1..(Len(x) + 1)  BY <1>2, <1>3, <1>4
<1>8. p.want # "value" => ~nextVal  BY <1>1
<1>9. ASSUME p.t.kind # "ERROR"
      PROVE  /\ p.t.at \in p.t.start..(Len(x) + 1) /\ p.t.at \in 1..(Len(x) + 1)
             /\ Readable(x, p.t.at)
             /\ p.want # "value" /\ p.t.kind # "EOF" => p.t.start < p.t.at
  <2>1. p.t.at \in p.t.start..(Len(x) + 1) /\ Readable(x, p.t.at)  BY <1>3, <1>4, <1>9
  <2>2. ~nextVal /\ p.t.kind # "EOF" => p.t.start < p.t.at  BY <1>3, <1>4, <1>9
  <2>3. p.t.at \in 1..(Len(x) + 1)  BY <1>2, <1>7, <2>1
  <2> QED  BY <1>8, <2>1, <2>2, <2>3
<1>10. IsParser(p)  BY DEF Placed
<1> QED  BY <1>2, <1>6, <1>7, <1>9, <1>10

LEMMA PlacedShift ==
  ASSUME NEW x \in Seq(Char), NEW p, Placed(x, p), p.result = "reading",
         Shift(x, p).result = "reading"
  PROVE  Placed(x, Shift(x, p))
<1> DEFINE q == Shift(x, p)
<1>1. CASE Consumes(p)
  <2>1. /\ IsParser(q) /\ q.t = Scan(x, p.t.at, p.t.kind = "ASSIGN") /\ p.t.kind # "ERROR"
        /\ p.t.kind = "ASSIGN" => q.want = "value"
    BY <1>1, Consuming DEF Placed, NextOf
  <2>2. p.t.at \in 1..(Len(x) + 1) /\ (p.t.kind = "ASSIGN") \in BOOLEAN
    BY <2>1, PlacedToken
  <2> HIDE DEF q
  <2>3. Placed(x, q)  BY <2>1, <2>2 DEF Placed
  <2> QED  BY <2>3 DEF q
<1>2. CASE ~Consumes(p)
  <2>1. q = Rested(p)  BY <1>2 DEF Shift
  <2>2. IsParser(q) /\ q.t = p.t /\ p.t.kind \in {"EOL", "EOF"}
    BY <1>2, <2>1, Resting DEF Placed
  <2>3. PICK i \in 1..(Len(x) + 1) : p.t = Scan(x, i, FALSE)  BY <2>2, PlacedToken
  <2> HIDE DEF q
  <2>4. Placed(x, q)  BY <2>2, <2>3 DEF Placed
  <2> QED  BY <2>4 DEF q
<1> QED  BY <1>1, <1>2

\* Reading is past the place c, where no statement that is still open begins.
Past(c, p) ==
  /\ p.result = "error" => p.stmt # c + 1
  /\ p.result = "reading" =>
       /\ p.t.kind = "ERROR" \/ p.t.at > c + 1
       /\ p.want # "statement" => p.stmt # c + 1
       /\ p.want = "statement" /\ p.t.kind \notin {"EOL", "EOF"} => p.t.start # c + 1

\* It fails in the statement that begins behind c, if it fails, with the values v set
\* before.
Failing(c, v, p) ==
  /\ p.result = "error" => Leaves(v, p)
  /\ p.result = "reading" =>
       /\ Values(p.config) = v
       /\ \/ p.want = "statement" /\ p.t.start = c + 1 /\ p.t.kind \notin {"EOL", "EOF"}
          \/ p.want # "statement" /\ p.stmt = c + 1 /\ (p.t.kind = "ERROR" \/ p.t.at > c + 1)

\* A token behind c ends behind c.
LEMMA NextBehind ==
  ASSUME NEW x \in Seq(Char), NEW p, Placed(x, p), p.result = "reading", Consumes(p),
         NEW c \in Nat, p.t.at > c + 1
  PROVE  LET q == Shift(x, p)
         IN  q.t.start > c + 1 /\ q.t.start # c + 1 /\ (q.t.kind = "ERROR" \/ q.t.at > c + 1)
<1> DEFINE q == Shift(x, p)
           at == p.t.at
           nextVal == p.t.kind = "ASSIGN"
           tok == Scan(x, at, nextVal)
<1>1. q.t = tok /\ p.t.kind # "ERROR"  BY Consuming DEF Placed, NextOf
<1>2. at \in 1..(Len(x) + 1) /\ nextVal \in BOOLEAN /\ Len(x) \in Nat  BY <1>1, PlacedToken
<1> HIDE DEF at, nextVal
<1>3. Blank(x, at) \in at..(Len(x) + 1)  BY <1>2, ScanPlaces
<1>4. tok.start = Blank(x, at) /\ (tok.kind # "ERROR" => tok.at \in tok.start..(Len(x) + 1))
  BY <1>2, ScanEnds
<1> HIDE DEF tok, q
<1>5. tok.start \in Nat /\ tok.start > c + 1  BY <1>2, <1>3, <1>4 DEF at
<1>6. tok.kind # "ERROR" => tok.at > c + 1  BY <1>4, <1>5
<1> QED  BY <1>1, <1>5, <1>6 DEF q

LEMMA PastStays ==
  ASSUME NEW x \in Seq(Char), NEW p, Placed(x, p), p.result = "reading",
         NEW c \in Nat, Past(c, p)
  PROVE  Past(c, Shift(x, p))
<1> DEFINE q == Shift(x, p)
<1>1. CASE Consumes(p)
  <2>1. /\ q.result = "reading" /\ p.t.kind \notin {"ERROR", "EOF"}
        /\ p.want # "statement" => q.want # "statement" /\ q.stmt = p.stmt
        /\ p.want = "statement" /\ p.t.kind = "EOL" => q.want = "statement"
        /\ p.want = "statement" /\ p.t.kind # "EOL" =>
             q.want # "statement" /\ q.stmt = p.t.start
    BY <1>1, Consuming DEF Placed
  <2>2. p.t.at > c + 1  BY <2>1 DEF Past
  <2>3. q.t.start # c + 1 /\ (q.t.kind = "ERROR" \/ q.t.at > c + 1)  BY <1>1, <2>2, NextBehind
  <2> HIDE DEF q
  <2>4. Past(c, q)  BY <2>1, <2>3 DEF Past
  <2> QED  BY <2>4 DEF q
<1>2. CASE ~Consumes(p)
  <2>1. q = Rested(p)  BY <1>2 DEF Shift
  <2>2. /\ q.t = p.t
        /\ p.want = "statement" => \/ p.t.kind = "EOF" /\ q.result = "ok"
                                   \/ /\ p.t.kind \notin {"EOL", "EOF"}
                                      /\ q.result = "error" /\ q.stmt = p.t.start
        /\ p.want # "statement" =>
             /\ q.stmt = p.stmt
             /\ \/ q.result = "panic"
                \/ q.result = "error"
                \/ q.result = "reading" /\ q.want = "statement" /\ p.t.kind \in {"EOL", "EOF"}
    BY <1>2, <2>1, Resting DEF Placed
  <2> HIDE DEF q
  <2>3. Past(c, q)  BY <2>2 DEF Past
  <2> QED  BY <2>3 DEF q
<1> QED  BY <1>1, <1>2

LEMMA FailingStays ==
  ASSUME NEW x \in Seq(Char), NEW p, Placed(x, p), p.result = "reading",
         NEW c \in Nat, NEW v, Failing(c, v, p)
  PROVE  Failing(c, v, Shift(x, p)) \/ Past(c, Shift(x, p))
<1> DEFINE q == Shift(x, p)
<1>1. CASE Consumes(p)
  <2>1. /\ q.result = "reading" /\ p.t.kind \notin {"ERROR", "EOF"} /\ q.config = p.config
        /\ p.want # "statement" => q.want # "statement" /\ q.stmt = p.stmt
        /\ p.want = "statement" /\ p.t.kind # "EOL" =>
             q.want # "statement" /\ q.stmt = p.t.start
    BY <1>1, Consuming DEF Placed
  <2>2. p.t.at > c + 1
    <3>1. CASE p.want = "statement"
      <4>1. p.t.start = c + 1 /\ p.t.start < p.t.at  BY <2>1, <3>1, PlacedToken DEF Failing
      <4> QED  BY <4>1
    <3>2. CASE p.want # "statement"  BY <2>1, <3>2 DEF Failing
    <3> QED  BY <3>1, <3>2
  <2>3. q.t.start # c + 1 /\ (q.t.kind = "ERROR" \/ q.t.at > c + 1)  BY <1>1, <2>2, NextBehind
  <2> HIDE DEF q
  <2>4. Failing(c, v, q)  BY <2>1, <2>3 DEF Failing
  <2> QED  BY <2>4 DEF q
<1>2. CASE ~Consumes(p)
  <2>1. q = Rested(p)  BY <1>2 DEF Shift
  <2>2. /\ q.t = p.t
        /\ p.want = "statement" => /\ q.config = p.config
                                   /\ p.t.kind # "EOF" => /\ q.result = "error"
                                                          /\ Leaves(Values(p.config), q)
        /\ p.want # "statement" =>
             \/ q.result = "panic"
             \/ q.result = "error" /\ Leaves(Values(p.config), q)
             \/ q.result = "reading" /\ q.want = "statement" /\ p.t.kind \in {"EOL", "EOF"}
    BY <1>2, <2>1, Resting DEF Placed
  <2> HIDE DEF q
  <2>3. CASE p.want = "statement"
    <3>1. Failing(c, v, q)  BY <2>2, <2>3 DEF Failing
    <3> QED  BY <3>1 DEF q
  <2>4. CASE p.want # "statement" /\ q.result # "reading"
    <3>1. Failing(c, v, q)  BY <2>2, <2>4 DEF Failing
    <3> QED  BY <3>1 DEF q
  <2>5. CASE p.want # "statement" /\ q.result = "reading"
    <3>1. p.t.kind # "ERROR" /\ p.t.at > c + 1  BY <2>2, <2>5 DEF Failing
    <3>2. Past(c, q)  BY <2>2, <2>5, <3>1 DEF Past
    <3> QED  BY <3>2 DEF q
  <2> QED  BY <2>3, <2>4, <2>5
<1> QED  BY <1>1, <1>2

\* A next token of x, and what the beginning y has in its place.
LEMMA Compare ==
  ASSUME NEW x, NEW y, NEW c, Begins(x, y, c), NEW i \in 1..(c + 1), NEW nextVal \in BOOLEAN,
         \A k \in 1..(i - 1) : Ch(x, k) # "nul",
         NEW q, IsParser(q), q.result = "reading", q.t = Scan(x, i, nextVal),
         nextVal => q.want = "value", q.want # "statement" => q.stmt <= c,
         ~Past(c, q), NEW d, d = Put(q, "t", Scan(y, i, nextVal))
  PROVE  \/ d = q /\ q.t.kind # "ERROR" /\ q.t.at <= c + 1
         \/ /\ Failing(c, Values(q.config), q)
            /\ d.t.kind = "EOF" /\ d.want = "statement" /\ d.result = "reading"
            /\ d.config = q.config
<1>a. x \in Seq(Char) /\ y \in Seq(Char) /\ c \in 0..Len(x) /\ Len(y) = c
      /\ \A k \in Nat \ {0} : Ch(y, k) = IF k <= c THEN Ch(x, k) ELSE EOF
  BY DEF Begins
<1>b. c \in Nat /\ c <= Len(x) /\ Len(x) \in Nat  BY <1>a
<1>c. i \in 1..(Len(x) + 1)  BY <1>b
<1>d. Placed(x, q)  BY <1>c DEF Placed
<1>1. CASE q.t.kind # "ERROR" /\ q.t.at <= c + 1
  <2>1. Scan(y, i, nextVal) = q.t  BY <1>1, ScanOfBeginning
  <2>2. q = ParserState(q.t, q.want, q.sect, q.sub, q.name, q.val, q.config, q.result, q.stmt)
    BY DEF IsParser
  <2>3. Put(q, "t", q.t) = q  BY <2>2, ParserStatePut
  <2> QED  BY <1>1, <2>1, <2>3
<1>2. CASE q.t.kind = "ERROR" \/ ~(q.t.at <= c + 1)
  <2>1. q.t.kind = "ERROR" \/ q.t.at > c + 1
    <3>1. q.t.kind # "ERROR" => q.t.at \in 1..(Len(x) + 1)  BY <1>a, <1>d, PlacedToken
    <3> QED  BY <1>2, <1>b, <3>1
  <2>2. q.want = "statement" /\ q.t.kind \notin {"EOL", "EOF"} /\ q.t.start = c + 1
    BY <1>b, <2>1 DEF Past
  <2>3. nextVal = FALSE  BY <2>2
  <2>4. Failing(c, Values(q.config), q)  BY <2>2 DEF Failing
  <2> DEFINE tok == Scan(y, i, FALSE)
  <2>5. d.t = tok /\ d.want = "statement" /\ d.result = "reading" /\ d.config = q.config
    <3>1. d = Put(q, "t", tok)  BY <2>3
    <3> HIDE DEF tok
    <3> QED  BY <2>2, <3>1, PutFields
  <2>6. Blank(x, i) = c + 1  BY <1>a, <1>c, <2>2, ScanEnds
  <2>7. Blank(y, i) = c + 1
    <3>1. EOF \notin White  BY DEF EOF, White
    <3> QED  BY <1>b, <2>6, <3>1, AfterOfBeginning DEF Blank
  <2>8. c + 1 \in Nat \ {0} /\ ~(c + 1 <= c)  BY <1>b
  <2>9. Ch(y, c + 1) = EOF  BY <1>a, <2>8
  <2>10. TokenAt(y, i, FALSE) = c + 1  BY <2>7, <2>9 DEF TokenAt, EOF
  <2>11. tok = Token(y, "EOF", << >>, c + 1, c + 1)
    BY <2>7, <2>9, <2>10, ScanParts DEF TokenFrom, EndFrom, Letter, EOF
  <2>12. Readable(y, c + 1)
    <3>1. ASSUME NEW k \in 1..(c + 1) PROVE Ch(y, k) # "nul"
      <4>1. k \in Nat \ {0} /\ (k <= c \/ k = c + 1)  BY <1>b
      <4>2. CASE k = c + 1  BY <2>9, <4>2 DEF EOF
      <4>3. CASE k <= c /\ k < i
        <5>1. k \in 1..(i - 1)  BY <1>b, <4>1, <4>3
        <5>2. Ch(x, k) # "nul"  BY <5>1
        <5> QED  BY <1>a, <4>1, <4>3, <5>2
      <4>4. CASE k <= c /\ ~(k < i)
        <5>1. k \in i..((c + 1) - 1)  BY <1>b, <4>1, <4>4
        <5>2. Ch(x, k) \in White  BY <1>a, <1>c, <2>6, <5>1, ScanPlaces
        <5> QED  BY <1>a, <4>1, <4>4, <5>2 DEF White
      <4> QED  BY <4>1, <4>2, <4>3, <4>4
    <3> QED  BY <3>1 DEF Readable
  <2>13. tok.kind = "EOF"
    <3> DEFINE e == c + 1
    <3>1. e > 0 /\ Readable(y, e)  BY <1>b, <2>12
    <3>2. tok = Token(y, "EOF", << >>, e, e)  BY <2>11
    <3> HIDE DEF e, tok
    <3> QED  BY <3>1, <3>2, TokenFields
  <2> HIDE DEF tok
  <2> QED  BY <2>4, <2>5, <2>13
<1> QED  BY <1>1, <1>2

---------------------------------------------------------------------------
(* A reading of the text x: the states of readInto from its start on.      *)

Start(x) ==
  ParserState(Scan(x, 1, FALSE), "statement", << >>, << >>, << >>, << >>, << >>, "reading", 1)

Path(x, r, n) ==
  /\ n \in Nat /\ r[0] = Start(x)
  /\ \A k \in 0..(n - 1) : r[k].result = "reading" /\ r[k + 1] = Shift(x, r[k])

\* Induction on the number of turns.
LEMMA Counting ==
  ASSUME NEW n \in Nat, NEW G, 0 \in G, \A k \in 0..(n - 1) : k \in G => k + 1 \in G
  PROVE  \A k \in 0..n : k \in G
<1> DEFINE B == (0..n) \ G
<1> SUFFICES ASSUME B # {} PROVE FALSE  OBVIOUS
<1>1. B \in SUBSET Nat  OBVIOUS
<1>2. PICK m \in B : \A j \in B : m <= j  BY <1>1, Least
<1>3. m \in 0..n /\ m # 0 /\ m \notin G  OBVIOUS
<1>4. m - 1 \in 0..(n - 1) /\ (m - 1) + 1 = m /\ m - 1 \in 0..n /\ ~(m <= m - 1)  BY <1>3
<1>5. m - 1 \in G  BY <1>2, <1>4
<1> QED  BY <1>3, <1>4, <1>5

LEMMA StartIs ==
  ASSUME NEW x
  PROVE  LET q == Start(x)
         IN  /\ IsParser(q) /\ q.t = Scan(x, 1, FALSE) /\ q.want = "statement"
             /\ q.config = << >> /\ q.result = "reading" /\ q.stmt = 1
<1> DEFINE tok == Scan(x, 1, FALSE)
<1>1. Start(x) = ParserState(tok, "statement", << >>, << >>, << >>, << >>, << >>, "reading", 1)
  BY DEF Start
<1> HIDE DEF tok
<1>2. Start(x).t = tok /\ IsParser(Start(x))  BY <1>1, ParserStateFields DEF IsParser
<1>3. Start(x).want = "statement" /\ Start(x).config = << >>  BY <1>1, ParserStateFields
<1>4. Start(x).result = "reading" /\ Start(x).stmt = 1  BY <1>1, ParserStateFields
<1> QED  BY <1>2, <1>3, <1>4 DEF tok

LEMMA PathPlaced ==
  ASSUME NEW x \in Seq(Char), NEW r, NEW n, Path(x, r, n)
  PROVE  \A k \in 0..n : r[k].result = "reading" => Placed(x, r[k])
<1> DEFINE G == {k \in 0..n : r[k].result = "reading" => Placed(x, r[k])}
<1>0. n \in Nat  BY DEF Path
<1>1. 0 \in G
  <2>1. 0 \in 0..n  BY <1>0
  <2>2. 1 \in 1..(Len(x) + 1)  OBVIOUS
  <2>3. Placed(x, Start(x))  BY <2>2, StartIs DEF Placed
  <2> QED  BY <2>1, <2>3 DEF Path
<1>2. ASSUME NEW k \in 0..(n - 1), k \in G PROVE k + 1 \in G
  <2>1. r[k].result = "reading" /\ r[k + 1] = Shift(x, r[k])  BY DEF Path
  <2>2. k + 1 \in 0..n  BY <1>0
  <2>3. Placed(x, r[k])  BY <1>2, <2>1
  <2>4. r[k + 1].result = "reading" => Placed(x, r[k + 1])  BY <2>1, <2>3, PlacedShift
  <2> QED  BY <2>2, <2>4
<1> HIDE DEF G
<1>3. \A k \in 0..n : k \in G  BY <1>0, <1>1, <1>2, Counting
<1> QED  BY <1>3 DEF G

\* A reading that fails in the statement behind c is never past it before that.
LEMMA NeverPast ==
  ASSUME NEW x \in Seq(Char), NEW c \in Nat, NEW r, NEW n, Path(x, r, n), Past(c, r[n]) = FALSE
  PROVE  \A k \in 0..n : ~Past(c, r[k])
<1>0. n \in Nat  BY DEF Path
<1> SUFFICES ASSUME NEW j \in 0..n, Past(c, r[j]) PROVE FALSE  OBVIOUS
<1> DEFINE G == {k \in 0..n : k >= j => Past(c, r[k])}
<1>1. 0 \in G
  <2>1. 0 >= j => j = 0  OBVIOUS
  <2> QED  BY <1>0, <2>1
<1>2. ASSUME NEW k \in 0..(n - 1), k \in G PROVE k + 1 \in G
  <2>1. r[k].result = "reading" /\ r[k + 1] = Shift(x, r[k])  BY DEF Path
  <2>2. k + 1 \in 0..n /\ k \in 0..n /\ (k + 1 >= j => k + 1 = j \/ k >= j)  BY <1>0
  <2>3. CASE k >= j
    <3>1. Past(c, r[k])  BY <1>2, <2>3
    <3>2. Past(c, r[k + 1])  BY <2>1, <2>2, <3>1, PathPlaced, PastStays
    <3> QED  BY <2>2, <3>2
  <2>4. CASE ~(k >= j)  BY <2>2, <2>4
  <2> QED  BY <2>3, <2>4
<1> HIDE DEF G
<1>3. \A k \in 0..n : k \in G  BY <1>0, <1>1, <1>2, Counting
<1>4. n \in 0..n /\ n >= j  BY <1>0
<1> QED  BY <1>3, <1>4 DEF G

LEMMA FailsThere ==
  ASSUME NEW x \in Seq(Char), NEW c \in Nat, NEW r, NEW n, Path(x, r, n),
         \A k \in 0..n : ~Past(c, r[k]), NEW v, NEW j \in 0..n, Failing(c, v, r[j])
  PROVE  Failing(c, v, r[n])
<1>0. n \in Nat  BY DEF Path
<1> DEFINE G == {k \in 0..n : k >= j => Failing(c, v, r[k])}
<1>1. 0 \in G
  <2>1. 0 >= j => j = 0  OBVIOUS
  <2> QED  BY <1>0, <2>1
<1>2. ASSUME NEW k \in 0..(n - 1), k \in G PROVE k + 1 \in G
  <2>1. r[k].result = "reading" /\ r[k + 1] = Shift(x, r[k])  BY DEF Path
  <2>2. k + 1 \in 0..n /\ k \in 0..n /\ (k + 1 >= j => k + 1 = j \/ k >= j)  BY <1>0
  <2>3. CASE k >= j
    <3>1. Failing(c, v, r[k])  BY <1>2, <2>3
    <3>2. Failing(c, v, r[k + 1])  BY <2>1, <2>2, <3>1, PathPlaced, FailingStays
    <3> QED  BY <2>2, <3>2
  <2>4. CASE ~(k >= j)  BY <2>2, <2>4
  <2> QED  BY <2>3, <2>4
<1> HIDE DEF G
<1>3. \A k \in 0..n : k \in G  BY <1>0, <1>1, <1>2, Counting
<1>4. n \in 0..n /\ n >= j  BY <1>0
<1> QED  BY <1>3, <1>4 DEF G

\* What precedes the statement that a reading fails in is read without an error,
\* and sets the values that the failing one had found.
LEMMA CutReads ==
  ASSUME NEW x, NEW y, NEW c, Begins(x, y, c),
         NEW r, NEW n, Path(x, r, n), r[n].result = "error", r[n].stmt = c + 1,
         NEW w, NEW m, Path(y, w, m), w[m].result # "reading"
  PROVE  /\ w[m].result = "ok"
         /\ Values(r[n].config) = Values(AfterRefusal(w[m].config, RefusedBy(r[n])))
<1> DEFINE Found(k) == Failing(c, Values(w[k].config), r[n])
           Same(k) == /\ k \in 0..(n - 1) /\ w[k] = r[k] /\ r[k].result = "reading"
                      /\ r[k].t.kind # "ERROR" /\ r[k].t.at <= c + 1
                      /\ r[k].want # "statement" => r[k].stmt <= c
           Ended(k) == /\ w[k].result = "reading" /\ w[k].want = "statement"
                       /\ w[k].t.kind = "EOF" /\ Found(k)
           Right(k) == w[k].result = "ok" /\ Found(k)
           G == {k \in 0..m : Same(k) \/ Ended(k) \/ Right(k)}
<1>1. x \in Seq(Char) /\ y \in Seq(Char) /\ c \in 0..Len(x)  BY DEF Begins
<1>2. n \in Nat /\ m \in Nat /\ c \in Nat /\ Len(x) \in Nat /\ c <= Len(x)  BY <1>1 DEF Path
<1>3. \A k \in 0..n : ~Past(c, r[k])
  <2>1. Past(c, r[n]) = FALSE  BY DEF Past
  <2> QED  BY <1>1, <1>2, <2>1, NeverPast
<1>4. \A k \in 0..n : r[k].result = "reading" => k \in 0..(n - 1)  BY <1>2
<1>5. /\ \A k \in 0..(n - 1) : r[k].result = "reading" /\ r[k + 1] = Shift(x, r[k])
      /\ \A k \in 0..(m - 1) : w[k].result = "reading" /\ w[k + 1] = Shift(y, w[k])
      /\ r[0] = Start(x) /\ w[0] = Start(y)
  BY DEF Path
<1>6. /\ \A k \in 0..n : r[k].result = "reading" => Placed(x, r[k])
      /\ \A k \in 0..m : w[k].result = "reading" => Placed(y, w[k])
  BY <1>1, PathPlaced
\* Where one of the two takes its next token.
<1>7. ASSUME NEW k \in 0..n, NEW i \in 1..(c + 1), NEW nextVal \in BOOLEAN,
             \A j \in 1..(i - 1) : Ch(x, j) # "nul",
             IsParser(r[k]), r[k].result = "reading", r[k].t = Scan(x, i, nextVal),
             nextVal => r[k].want = "value", r[k].want # "statement" => r[k].stmt <= c,
             w[k] = Put(r[k], "t", Scan(y, i, nextVal))
      PROVE  Same(k) \/ Ended(k)
  <2>1. \/ w[k] = r[k] /\ r[k].t.kind # "ERROR" /\ r[k].t.at <= c + 1
        \/ /\ Failing(c, Values(r[k].config), r[k])
           /\ w[k].t.kind = "EOF" /\ w[k].want = "statement" /\ w[k].result = "reading"
           /\ w[k].config = r[k].config
    BY <1>1, <1>3, <1>7, Compare
  <2>2. CASE w[k] = r[k] /\ r[k].t.kind # "ERROR" /\ r[k].t.at <= c + 1
    BY <1>4, <1>7, <2>2
  <2>3. CASE /\ Failing(c, Values(r[k].config), r[k])
             /\ w[k].t.kind = "EOF" /\ w[k].want = "statement" /\ w[k].result = "reading"
             /\ w[k].config = r[k].config
    <3>1. Failing(c, Values(r[k].config), r[n])  BY <1>1, <1>2, <1>3, <2>3, FailsThere
    <3> QED  BY <2>3, <3>1
  <2> QED  BY <2>1, <2>2, <2>3
<1>8. 0 \in G
  <2>1. /\ IsParser(r[0]) /\ r[0].t = Scan(x, 1, FALSE) /\ r[0].want = "statement"
        /\ r[0].result = "reading"
    BY <1>5, StartIs
  <2>2. w[0] = Put(r[0], "t", Scan(y, 1, FALSE))
    <3> DEFINE a == Scan(x, 1, FALSE)
               b == Scan(y, 1, FALSE)
               s(z) ==
                 ParserState(z, "statement", << >>, << >>, << >>, << >>, << >>, "reading", 1)
    <3>1. r[0] = s(a) /\ w[0] = s(b)  BY <1>5 DEF Start
    <3> HIDE DEF a, b
    <3>2. w[0] = Put(r[0], "t", b)  BY <3>1, ParserStatePut
    <3> QED  BY <3>2 DEF b
  <2>3. 1 \in 1..(c + 1) /\ 0 \in 0..n /\ 0 \in 0..m /\ \A j \in 1..(1 - 1) : FALSE  BY <1>2
  <2>4. Same(0) \/ Ended(0)
    <3> HIDE DEF Same, Ended
    <3> QED  BY <1>7, <2>1, <2>2, <2>3
  <2> HIDE DEF Same, Ended
  <2> QED  BY <2>3, <2>4
<1>9. ASSUME NEW k \in 0..(m - 1), k \in G PROVE k + 1 \in G
  <2>0. k + 1 \in 0..m /\ k \in 0..m /\ w[k].result = "reading" /\ w[k + 1] = Shift(y, w[k])
    BY <1>2, <1>5
  <2>1. CASE Ended(k)
    <3>1. ~Consumes(w[k])  BY <2>1 DEF Consumes
    <3>2. w[k + 1] = Rested(w[k]) /\ IsParser(w[k])  BY <1>6, <2>0, <3>1 DEF Shift, Placed
    <3>3. w[k + 1].result = "ok" /\ w[k + 1].config = w[k].config
      BY <2>0, <2>1, <3>1, <3>2, Resting
    <3>4. Right(k + 1)  BY <2>1, <3>3
    <3> QED  BY <2>0, <3>4
  <2>2. CASE Same(k) /\ Consumes(r[k])
    <3> DEFINE p == r[k]
               at == p.t.at
               nextVal == p.t.kind = "ASSIGN"
    <3>0. k + 1 \in 0..n /\ k \in 0..n /\ k \in 0..(n - 1)  BY <1>2, <2>2
    <3>1. Placed(x, p) /\ w[k] = p /\ r[k + 1] = Shift(x, p) /\ p.result = "reading"
      BY <1>5, <1>6, <2>2, <3>0
    <3>2. /\ IsParser(r[k + 1]) /\ r[k + 1] = Put(Moved(p), "t", NextOf(x, p))
          /\ r[k + 1].t = NextOf(x, p) /\ r[k + 1].result = "reading"
          /\ p.t.kind \notin {"ERROR", "EOF"}
          /\ p.want # "statement" => r[k + 1].want # "statement" /\ r[k + 1].stmt = p.stmt
          /\ p.want = "statement" /\ p.t.kind = "EOL" => r[k + 1].want = "statement"
          /\ p.want = "statement" /\ p.t.kind # "EOL" => r[k + 1].stmt = p.t.start
          /\ p.t.kind = "ASSIGN" => r[k + 1].want = "value"
      BY <2>2, <3>1, Consuming DEF Placed
    <3>3. w[k + 1] = Put(Moved(p), "t", NextOf(y, p)) /\ IsParser(Moved(p))
      BY <2>0, <2>2, <3>1, Consuming DEF Placed
    <3>4. w[k + 1] = Put(r[k + 1], "t", NextOf(y, p))
      <4> DEFINE z == Moved(p)
      <4>1. z =
              ParserState(z.t, z.want, z.sect, z.sub, z.name, z.val, z.config,
                          z.result, z.stmt)
        BY <3>3 DEF IsParser
      <4>2. r[k + 1] = Put(z, "t", NextOf(x, p)) /\ w[k + 1] = Put(z, "t", NextOf(y, p))
        BY <3>2, <3>3
      <4> HIDE DEF z, p
      <4> QED  BY <4>1, <4>2, ParserStatePut
    <3>5. /\ at \in 1..(Len(x) + 1) /\ at <= c + 1 /\ Readable(x, at)
          /\ p.t.start \in 1..(Len(x) + 1)
          /\ p.want # "value" => p.t.start < at
      BY <1>1, <2>2, <3>1, <3>2, PlacedToken
    <3>6. at \in 1..(c + 1) /\ \A j \in 1..(at - 1) : Ch(x, j) # "nul"
      BY <1>2, <3>5 DEF Readable
    <3>7. r[k + 1].want # "statement" => r[k + 1].stmt <= c
      <4>1. CASE p.want # "statement"  BY <2>2, <3>2, <4>1
      <4>2. CASE p.want = "statement" /\ p.t.kind # "EOL"
        <5>1. p.t.start < at /\ r[k + 1].stmt = p.t.start  BY <3>2, <3>5, <4>2
        <5> QED  BY <1>2, <3>5, <5>1
      <4>3. CASE p.want = "statement" /\ p.t.kind = "EOL"  BY <3>2, <4>3
      <4> QED  BY <4>1, <4>2, <4>3
    <3>8. /\ r[k + 1].t = Scan(x, at, nextVal) /\ nextVal \in BOOLEAN
          /\ w[k + 1] = Put(r[k + 1], "t", Scan(y, at, nextVal))
          /\ nextVal => r[k + 1].want = "value"
      BY <3>2, <3>4 DEF NextOf
    <3> HIDE DEF at, nextVal, Same, Ended, p
    <3>9. Same(k + 1) \/ Ended(k + 1)  BY <1>7, <3>0, <3>1, <3>2, <3>6, <3>7, <3>8
    <3> QED  BY <2>0, <3>9
  <2>3. CASE Same(k) /\ ~Consumes(r[k])
    <3> DEFINE p == r[k]
               q == r[k + 1]
    <3>1. Placed(x, p) /\ k + 1 \in 0..n /\ k \in 0..n /\ w[k] = p /\ q = Shift(x, p)
          /\ p.result = "reading"
      BY <1>2, <1>5, <1>6, <2>3
    <3>2. q = Rested(p) /\ w[k + 1] = q  BY <2>0, <2>3, <3>1 DEF Shift
    <3>3. /\ q.t = p.t
          /\ p.want = "statement" =>
               /\ p.t.kind = "EOF" => q.result = "ok"
               /\ p.t.kind # "EOF" => q.result = "error" /\ q.stmt = p.t.start
          /\ p.want # "statement" =>
               /\ q.stmt = p.stmt
               /\ \/ q.result \in {"panic", "error"}
                  \/ q.result = "reading" /\ q.want = "statement"
      BY <2>3, <3>1, <3>2, Resting DEF Placed
    <3>4. q.result # "reading" => q = r[n] /\ q.result = "error" /\ q.stmt = c + 1
      <4>1. q.result # "reading" => k + 1 = n
        <5>1. k + 1 # n => k + 1 \in 0..(n - 1)  BY <1>2, <3>1
        <5> QED  BY <1>5, <5>1
      <4> QED  BY <4>1
    <3>5. q.result = "reading"
      <4>1. CASE p.want # "statement"
        <5>1. p.stmt # c + 1  BY <1>2, <2>3, <4>1
        <5> QED  BY <3>3, <3>4, <4>1, <5>1
      <4>2. CASE p.want = "statement" /\ p.t.kind # "EOF"
        <5>1. /\ p.t.start < p.t.at /\ p.t.start \in 1..(Len(x) + 1)
              /\ p.t.at \in 1..(Len(x) + 1) /\ p.t.at <= c + 1
          BY <1>1, <2>3, <3>1, <4>2, PlacedToken
        <5>2. p.t.start # c + 1  BY <1>2, <5>1
        <5> QED  BY <3>3, <3>4, <4>2, <5>2
      <4>3. CASE p.want = "statement" /\ p.t.kind = "EOF"  BY <3>3, <3>4, <4>3
      <4> QED  BY <4>1, <4>2, <4>3
    <3>6. q.want = "statement"  BY <3>3, <3>5
    <3>7. Same(k + 1)  BY <1>4, <2>3, <3>1, <3>2, <3>3, <3>5, <3>6
    <3> QED  BY <2>0, <3>7
  <2>4. CASE Right(k)  BY <2>0, <2>4
  <2> QED  BY <1>9, <2>1, <2>2, <2>3, <2>4
<1> HIDE DEF G
<1>10. \A k \in 0..m : k \in G  BY <1>2, <1>8, <1>9, Counting
<1>11. m \in G  BY <1>2, <1>10
<1>12. Right(m)
  <2>1. ~Same(m)  OBVIOUS
  <2> QED  BY <1>11, <2>1 DEF G
<1> QED  BY <1>12 DEF Failing, Leaves

\* Where readInto stands is where some reading of the text does.
OnAPath == \E r, n : Path(src, r, n) /\ r[n] = Parser

\* Every reading of the text y ends without an error, and with the values that f had
\* before its failing statement.
Verdict(y, f) ==
  \A w, m : Path(y, w, m) /\ w[m].result # "reading" =>
              /\ w[m].result = "ok"
              /\ Values(f.config) = Values(AfterRefusal(w[m].config, f.refused))

LEMMA CutVerdict ==
  ASSUME NEW x \in Seq(Char), NEW c \in 0..Len(x), NEW r, NEW n, Path(x, r, n),
         r[n].result = "error", r[n].stmt = c + 1,
         NEW f, f.config = r[n].config, f.refused = RefusedBy(r[n])
  PROVE  Verdict(SubSeq(x, 1, c), f)
<1> DEFINE y == SubSeq(x, 1, c)
<1>1. Begins(x, y, c)  BY Beginning
<1> HIDE DEF y
<1>2. ASSUME NEW w, NEW m, Path(y, w, m), w[m].result # "reading"
      PROVE  /\ w[m].result = "ok"
             /\ Values(f.config) = Values(AfterRefusal(w[m].config, f.refused))
  BY <1>1, <1>2, CutReads
<1>3. Verdict(y, f)  BY <1>2 DEF Verdict
<1> QED  BY <1>3 DEF y

\* A reading of the text has led here, and once the text is cut off, no reading of
\* it can disagree with the failed one.
CutInv == OnAPath /\ (first.how = "cut" => Verdict(src, first))

LEMMA OnePath == ASSUME Parser = Start(src) PROVE OnAPath
<1> DEFINE r == [k \in {0} |-> Parser]
<1>1. Path(src, r, 0) /\ r[0] = Parser  BY DEF Path
<1> HIDE DEF r
<1> QED  BY <1>1 DEF OnAPath

LEMMA StartOfText ==
  ASSUME t = Scan(src, 1, FALSE), want = "statement", sect = << >>, sub = << >>, name = << >>,
         val = << >>, config = << >>, result = "reading", stmt = 1
  PROVE  OnAPath
<1>1. Parser = Start(src)  BY DEF Parser, Start
<1> QED  BY <1>1, OnePath

LEMMA InitCutInv == Init => CutInv
<1> SUFFICES ASSUME Init PROVE CutInv  OBVIOUS
<1>1. OnAPath  BY StartOfText DEF Init
<1>2. first.how = "none"  BY DEF Init, Fresh
<1> QED  BY <1>1, <1>2 DEF CutInv

LEMMA ReadCutInv ==
  ASSUME CutInv, Read
  PROVE  CutInv'
<1>1. PICK r, n : Path(src, r, n) /\ r[n] = Parser  BY DEF CutInv, OnAPath
<1>2. Parser.result = "reading" /\ Parser' = Shift(src, Parser)  BY ReadShifts
<1>3. src' = src /\ first' = first  BY DEF Read
<1> DEFINE q == Parser'
           s == [k \in 0..(n + 1) |-> IF k = n + 1 THEN q ELSE r[k]]
<1>4. n \in Nat /\ r[0] = Start(src)
      /\ \A k \in 0..(n - 1) : r[k].result = "reading" /\ r[k + 1] = Shift(src, r[k])
  BY <1>1 DEF Path
<1> HIDE DEF q
<1>5. s[0] = r[0] /\ s[n] = r[n] /\ s[n + 1] = q  BY <1>4
<1>6. ASSUME NEW k \in 0..((n + 1) - 1)
      PROVE  s[k].result = "reading" /\ s[k + 1] = Shift(src, s[k])
  <2>1. CASE k = n  BY <1>1, <1>2, <1>5, <2>1 DEF q
  <2>2. CASE k # n
    <3>1. k \in 0..(n - 1) /\ k \in 0..(n + 1) /\ k + 1 \in 0..(n + 1)
          /\ k # n + 1 /\ k + 1 # n + 1
      BY <1>4, <2>2
    <3>2. s[k] = r[k] /\ s[k + 1] = r[k + 1]  BY <3>1
    <3> QED  BY <1>4, <3>1, <3>2
  <2> QED  BY <2>1, <2>2
<1> HIDE DEF s
<1>7. Path(src, s, n + 1)  BY <1>4, <1>5, <1>6 DEF Path
<1>8. OnAPath'  BY <1>3, <1>5, <1>7 DEF OnAPath, q
<1>9. (first.how = "cut" => Verdict(src, first))'  BY <1>3 DEF CutInv
<1> QED  BY <1>8, <1>9 DEF CutInv

LEMMA RereadCutInv ==
  ASSUME GInv, CutInv, Reread
  PROVE  CutInv'
<1>1. OnAPath'
  <2>1. /\ t' = Scan(src, 1, FALSE)' /\ want' = "statement" /\ sect' = << >> /\ sub' = << >>
        /\ name' = << >> /\ val' = << >> /\ config' = << >> /\ result' = "reading" /\ stmt' = 1
    BY DEF Reread
  <2>2. (/\ t = Scan(src, 1, FALSE) /\ want = "statement" /\ sect = << >> /\ sub = << >>
         /\ name = << >> /\ val = << >> /\ config = << >> /\ result = "reading" /\ stmt = 1
         => OnAPath)'
    BY StartOfText, PTL
  <2> QED  BY <2>1, <2>2
<1>2. CASE first'.how # "cut"  BY <1>1, <1>2 DEF CutInv
<1>3. CASE first'.how = "cut"
  <2> DEFINE f == ReadAs("cut")
             c == stmt - 1
  <2>1. result = "error" /\ src' = SubSeq(src, 1, stmt - 1) /\ first' = f
    BY <1>3 DEF Reread, ReadAs
  <2>2. src \in Seq(Char) /\ c \in 0..Len(src) /\ stmt = c + 1
    <3>1. Len(src) \in Nat /\ src \in Seq(Char)  BY DEF GInv, Text
    <3>2. stmt \in 1..(Len(src) + 1)  BY DEF GInv
    <3> QED  BY <3>1, <3>2
  <2>3. PICK r, n : Path(src, r, n) /\ r[n] = Parser  BY DEF CutInv, OnAPath
  <2>4. /\ r[n].result = "error" /\ r[n].stmt = c + 1 /\ r[n].config = config
        /\ RefusedBy(r[n]) = Refused
    BY <2>1, <2>2, <2>3, ParserFields DEF RefusedBy, Refused, AtEnd, Known, KnownSection
  <2>5. f.config = config /\ f.refused = Refused  BY DEF ReadAs
  <2> DEFINE y == SubSeq(src, 1, c)
  <2> HIDE DEF f
  <2>6. y = SubSeq(src, 1, c)  OBVIOUS
  <2> HIDE DEF c, y
  <2>7. Verdict(y, f)  BY <2>2, <2>3, <2>4, <2>5, <2>6, CutVerdict
  <2>8. Verdict(src, first)'
    <3>1. src' = y /\ first' = f  BY <2>1 DEF c, y
    <3> QED  BY <2>7, <3>1 DEF Verdict
  <2> QED  BY <1>1, <2>8 DEF CutInv
<1> QED  BY <1>2, <1>3

LEMMA SameParser == ASSUME UNCHANGED vars PROVE Parser' = Parser /\ UNCHANGED <<src, first>>
BY DEF vars, parser, Parser

LEMMA NextCutInv == GInv /\ CutInv /\ [Next]_vars => CutInv'
<1> SUFFICES ASSUME GInv, CutInv, [Next]_vars PROVE CutInv'  OBVIOUS
<1>1. CASE UNCHANGED vars
  <2>1. Parser' = Parser /\ src' = src /\ first' = first  BY <1>1, SameParser
  <2> QED  BY <2>1 DEF CutInv, OnAPath, Verdict
<1> QED  BY <1>1, ReadCutInv, RereadCutInv DEF Next

\* What a reading that fails has set is exactly what the statements before the
\* failing one set, and the number that a refused value begins with, for every
\* text and every configuration of strings, bools and scanned types: the same
\* file cut off before that statement (Reread) is read without an error and
\* leaves the same values but for that number.
THEOREM FailureRight == Spec => []FailureKeepsPrefix
<1>1. CutInv => FailureKeepsPrefix
  <2> SUFFICES ASSUME CutInv, first.how = "cut", result # "reading"
               PROVE  /\ result = "ok"
                      /\ Values(first.config) = Values(AfterRefusal(config, first.refused))
    BY DEF FailureKeepsPrefix
  <2>1. PICK r, n : Path(src, r, n) /\ r[n] = Parser  BY DEF CutInv, OnAPath
  <2>2. r[n].result = result /\ r[n].config = config  BY <2>1, ParserFields
  <2> QED  BY <2>1, <2>2 DEF CutInv, Verdict
<1> QED  BY <1>1, InitGInv, NextGInv, InitCutInv, NextCutInv, PTL DEF Spec

-----------------------------------------------------------------------------
(* The text y is x with CR LF line ends: D[i] is where the character at i   *)
(* of x stands in y, and the end of x at the end of y. Between the places   *)
(* of two neighbours there is nothing, or the CR that was put before a LF.  *)

Dosed(x, y, D) ==
  /\ x \in Seq(Char) /\ y \in Seq(Char) /\ D \in [0..(Len(x) + 1) -> Nat]
  /\ D[0] = 0 /\ D[Len(x) + 1] = Len(y) + 1
  /\ \A i \in 1..(Len(x) + 1) :
       /\ Ch(y, D[i]) = Ch(x, i)
       /\ \/ D[i] = D[i - 1] + 1
          \/ D[i] = D[i - 1] + 2 /\ Ch(y, D[i - 1] + 1) = "cr" /\ Ch(x, i) = "nl"
       /\ Ch(x, i) = "cr" => D[i + 1] = D[i] + 1

LEMMA DosPrefix ==
  ASSUME NEW x \in Seq(Char), NEW k \in 0..Len(x), NEW m \in k..Len(x)
  PROVE  LET u == DosLoop(x)
         IN  /\ Len(u[k]) <= Len(u[m])
             /\ \A j \in 1..Len(u[k]) : u[m][j] = u[k][j]
<1> DEFINE u == DosLoop(x)
           n == Len(x)
           Longer(i) == Len(u[k]) <= Len(u[i]) /\ \A j \in 1..Len(u[k]) : u[i][j] = u[k][j]
           T == {i \in k..n : ~Longer(i)}
<1>1. n \in Nat /\ k \in 0..n /\ k \in Nat  OBVIOUS
<1>2. \A i \in 0..n : u[i] = DosAt(x, u, i) /\ u[i] \in Seq(Char)  BY DosPass
<1>3. \A i \in 1..n : x[i] \in Char  OBVIOUS
<1>4. "cr" \in Char /\ "nl" \in Char  BY DEF Char, White
<1> HIDE DEF u
<1>5. T = {}
  <2> SUFFICES ASSUME T # {} PROVE FALSE  OBVIOUS
  <2>1. T \subseteq Nat  BY <1>1
  <2>2. PICK i \in T : \A j \in T : i <= j  BY <2>1, Least
  <2>3. i # k
    <3>1. u[k] \in Seq(Char)  BY <1>1, <1>2
    <3>2. Longer(k)  BY <3>1
    <3> QED  BY <2>2, <3>2
  <2>4. i \in 1..n /\ i - 1 \in k..n /\ i - 1 \in 0..n /\ i \in 0..n  BY <1>1, <2>2, <2>3
  <2>5. Longer(i - 1)
    <3>1. i - 1 \notin T
      <4>1. ~(i <= i - 1)  BY <2>4
      <4> HIDE DEF T
      <4> QED  BY <2>2, <4>1
    <3> QED  BY <2>4, <3>1
  <2> DEFINE v == u[i - 1]
             w == u[k]
  <2>6. v \in Seq(Char) /\ w \in Seq(Char) /\ x[i] \in Char  BY <1>1, <1>2, <1>3, <2>4
  <2>7. u[i] = Append(v, x[i]) \/ u[i] = Append(Append(v, "cr"), "nl")
    <3>1. u[i] = DosAt(x, u, i) /\ i # 0  BY <1>2, <2>4
    <3>2. CASE x[i] = "nl" /\ (i = 1 \/ x[i - 1] # "cr")
      BY <3>1, <3>2 DEF DosAt
    <3>3. CASE ~(x[i] = "nl" /\ (i = 1 \/ x[i - 1] # "cr"))
      BY <3>1, <3>3 DEF DosAt
    <3> QED  BY <3>2, <3>3
  <2>8. Len(w) <= Len(v) /\ \A j \in 1..Len(w) : v[j] = w[j]  BY <2>5
  <2>9. ASSUME NEW z \in Seq(Char), Len(w) <= Len(z), \A j \in 1..Len(w) : z[j] = w[j],
               NEW ch \in Char
        PROVE  /\ Append(z, ch) \in Seq(Char) /\ Len(w) <= Len(Append(z, ch))
               /\ \A j \in 1..Len(w) : Append(z, ch)[j] = w[j]
    <3> HIDE DEF v, w
    <3>1. Len(w) \in Nat /\ Len(z) \in Nat  BY <2>6
    <3>2. \A j \in 1..Len(w) : j \in 1..Len(z)  BY <2>9, <3>1
    <3>3. \A j \in 1..Len(z) : Append(z, ch)[j] = z[j]  BY <2>9
    <3> QED  BY <2>9, <3>1, <3>2, <3>3
  <2> HIDE DEF v, w
  <2>10. CASE u[i] = Append(v, x[i])
    <3>1. Len(w) <= Len(u[i]) /\ \A j \in 1..Len(w) : u[i][j] = w[j]
      BY <2>6, <2>8, <2>9, <2>10
    <3> QED  BY <2>2, <3>1 DEF w
  <2>11. CASE u[i] = Append(Append(v, "cr"), "nl")
    <3> DEFINE z == Append(v, "cr")
    <3>1. z \in Seq(Char) /\ Len(w) <= Len(z) /\ \A j \in 1..Len(w) : z[j] = w[j]
      BY <1>4, <2>6, <2>8, <2>9
    <3>2. u[i] = Append(z, "nl")  BY <2>11
    <3> HIDE DEF z
    <3>3. Len(w) <= Len(u[i]) /\ \A j \in 1..Len(w) : u[i][j] = w[j]
      BY <1>4, <2>9, <3>1, <3>2
    <3> QED  BY <2>2, <3>3 DEF w
  <2> QED  BY <2>7, <2>10, <2>11
<1>6. Longer(m)
  <2>1. m \in k..n  OBVIOUS
  <2> HIDE DEF Longer
  <2> QED  BY <1>5, <2>1
<1> QED  BY <1>6 DEF u

\* One character, or a LF with its CR, more.
LEMMA DosOneMore ==
  ASSUME NEW x \in Seq(Char), NEW i \in 1..Len(x)
  PROVE  LET v == DosLoop(x)[i - 1]
             w == DosLoop(x)[i]
         IN  /\ w[Len(w)] = x[i] /\ Len(w) \in Nat /\ Len(w) # 0 /\ Len(v) \in Nat
             /\ \/ Len(w) = Len(v) + 1
                \/ Len(w) = Len(v) + 2 /\ w[Len(v) + 1] = "cr" /\ x[i] = "nl"
             /\ (i > 1 /\ x[i - 1] = "cr") => Len(w) = Len(v) + 1
<1> DEFINE u == DosLoop(x)
           v == u[i - 1]
           w == u[i]
<1>1. i - 1 \in 0..Len(x) /\ i \in 0..Len(x) /\ i # 0 /\ (i > 1 => i # 1) /\ x[i] \in Char
  OBVIOUS
<1>2. v \in Seq(Char) /\ w = DosAt(x, u, i)  BY <1>1, DosPass
<1>3. "cr" \in Char /\ "nl" \in Char  BY DEF Char, White
<1>4. CASE x[i] = "nl" /\ (i = 1 \/ x[i - 1] # "cr")
  <2>1. w = Append(Append(v, "cr"), "nl")  BY <1>1, <1>2, <1>4 DEF DosAt
  <2> HIDE DEF u, v, w
  <2> DEFINE z == Append(v, "cr")
  <2>2. z \in Seq(Char) /\ Len(z) = Len(v) + 1 /\ z[Len(v) + 1] = "cr" /\ Len(v) \in Nat
    BY <1>2, <1>3
  <2>3. w = Append(z, "nl")  BY <2>1
  <2> HIDE DEF z
  <2>4. /\ Len(w) = Len(z) + 1 /\ w[Len(z) + 1] = "nl" /\ w[Len(v) + 1] = z[Len(v) + 1]
    BY <2>2, <2>3
  <2>5. Len(w) = Len(v) + 2 /\ Len(w) \in Nat /\ Len(w) # 0  BY <2>2, <2>4
  <2>6. ~(i > 1 /\ x[i - 1] = "cr")  BY <1>1, <1>4
  <2>7. w[Len(w)] = x[i] /\ w[Len(v) + 1] = "cr"  BY <1>4, <2>2, <2>4
  <2> QED  BY <1>4, <2>2, <2>5, <2>6, <2>7 DEF v, w, u
<1>5. CASE ~(x[i] = "nl" /\ (i = 1 \/ x[i - 1] # "cr"))
  <2>1. w = Append(v, x[i])  BY <1>1, <1>2, <1>5 DEF DosAt
  <2> HIDE DEF u, v, w
  <2>2. Len(w) = Len(v) + 1 /\ w[Len(v) + 1] = x[i] /\ Len(v) \in Nat  BY <1>1, <1>2, <2>1
  <2> QED  BY <2>2 DEF v, w, u
<1> QED  BY <1>4, <1>5

LEMMA DosMap ==
  ASSUME NEW x \in Seq(Char)
  PROVE  \E D : Dosed(x, Dos(x), D)
<1> DEFINE n == Len(x)
           y == Dos(x)
           u == DosLoop(x)
           D == [i \in 0..(n + 1) |-> IF i = n + 1 THEN Len(y) + 1 ELSE Len(u[i])]
<1>1. n \in Nat /\ y \in Seq(Char) /\ y = u[n] /\ \A i \in 0..n : u[i] \in Seq(Char)
  BY DosType, DosPass
<1>2. Len(y) \in Nat /\ \A i \in 0..n : Len(u[i]) \in Nat  BY <1>1
<1>3. ASSUME NEW i \in 0..n
      PROVE  Len(u[i]) <= Len(y) /\ \A j \in 1..Len(u[i]) : y[j] = u[i][j]
  <2>1. n \in i..n  BY <1>1
  <2>2. Len(u[i]) <= Len(u[n]) /\ \A j \in 1..Len(u[i]) : u[n][j] = u[i][j]
    BY <2>1, DosPrefix
  <2> HIDE DEF u, y
  <2> QED  BY <1>1, <2>2
<1>a. \A i \in 1..n :
        LET v == u[i - 1]
            w == u[i]
        IN  /\ w[Len(w)] = x[i] /\ Len(w) # 0
            /\ \/ Len(w) = Len(v) + 1
               \/ Len(w) = Len(v) + 2 /\ w[Len(v) + 1] = "cr" /\ x[i] = "nl"
            /\ (i > 1 /\ x[i - 1] = "cr") => Len(w) = Len(v) + 1
  BY DosOneMore
<1>b. Len(u[0]) = 0
  <2>1. u[0] = << >>  BY <1>1, DosPass DEF DosAt
  <2> QED  BY <2>1
<1> HIDE DEF u, y
<1>4. D \in [0..(n + 1) -> Nat] /\ D[n + 1] = Len(y) + 1 /\ \A i \in 0..n : D[i] = Len(u[i])
  BY <1>1, <1>2
<1>5. D[0] = 0  BY <1>1, <1>4, <1>b
<1> HIDE DEF D
<1>6. ASSUME NEW i \in 1..n
      PROVE  /\ Ch(y, D[i]) = Ch(x, i)
             /\ \/ D[i] = D[i - 1] + 1
                \/ D[i] = D[i - 1] + 2 /\ Ch(y, D[i - 1] + 1) = "cr" /\ Ch(x, i) = "nl"
             /\ (i > 1 /\ Ch(x, i - 1) = "cr") => D[i] = D[i - 1] + 1
  <2>1. i \in 0..n /\ i - 1 \in 0..n /\ (i > 1 => i - 1 \in 1..n)  BY <1>1
  <2>2. D[i] = Len(u[i]) /\ D[i - 1] = Len(u[i - 1])  BY <1>4, <2>1
  <2> DEFINE v == u[i - 1]
             w == u[i]
  <2>3. /\ w[Len(w)] = x[i] /\ Len(w) # 0 /\ Len(w) \in Nat /\ Len(v) \in Nat
        /\ \/ Len(w) = Len(v) + 1
           \/ Len(w) = Len(v) + 2 /\ w[Len(v) + 1] = "cr" /\ x[i] = "nl"
        /\ (i > 1 /\ x[i - 1] = "cr") => Len(w) = Len(v) + 1
    BY <1>2, <1>a, <2>1
  <2>4. Len(w) <= Len(y) /\ \A j \in 1..Len(w) : y[j] = w[j]  BY <1>3, <2>1
  <2>5. Ch(x, i) = x[i] /\ (i > 1 => Ch(x, i - 1) = x[i - 1])  BY <2>1, CharAt
  <2> HIDE DEF v, w
  <2>6. Len(w) \in 1..Len(w) /\ Len(w) \in 1..Len(y)  BY <1>2, <2>3, <2>4
  <2>7. Ch(y, Len(w)) = w[Len(w)]  BY <1>1, <2>4, <2>6, CharAt
  <2>8. Len(w) = Len(v) + 2 => Ch(y, Len(v) + 1) = w[Len(v) + 1]
    <3>1. Len(w) = Len(v) + 2 => Len(v) + 1 \in 1..Len(w) /\ Len(v) + 1 \in 1..Len(y)
      BY <1>2, <2>3, <2>4
    <3> QED  BY <1>1, <2>4, <3>1, CharAt
  <2>9. D[i] = Len(w) /\ D[i - 1] = Len(v)  BY <2>2 DEF v, w
  <2> QED  BY <2>3, <2>5, <2>7, <2>8, <2>9
<1>7. Ch(x, n + 1) = EOF /\ Ch(y, Len(y) + 1) = EOF
  <2>1. n + 1 \notin 1..n /\ Len(y) + 1 \notin 1..Len(y)  BY <1>1, <1>2
  <2> QED  BY <1>1, <2>1, CharAt
<1>8. D[n + 1] = D[n] + 1
  <2>1. n \in 0..n  BY <1>1
  <2> QED  BY <1>1, <1>4, <2>1
<1>9. ASSUME NEW i \in 1..(n + 1)
      PROVE  /\ Ch(y, D[i]) = Ch(x, i)
             /\ \/ D[i] = D[i - 1] + 1
                \/ D[i] = D[i - 1] + 2 /\ Ch(y, D[i - 1] + 1) = "cr" /\ Ch(x, i) = "nl"
             /\ Ch(x, i) = "cr" => D[i + 1] = D[i] + 1
  <2>1. CASE i = n + 1
    <3>1. (n + 1) - 1 = n  BY <1>1
    <3>2. Ch(x, i) # "cr"  BY <1>7, <2>1 DEF EOF
    <3> QED  BY <1>4, <1>7, <1>8, <2>1, <3>1, <3>2
  <2>2. CASE i # n + 1
    <3>1. i \in 1..n  BY <1>1, <2>2
    <3>2. Ch(x, i) = "cr" => D[i + 1] = D[i] + 1
      <4>1. CASE i = n  BY <1>8, <4>1
      <4>2. CASE i # n
        <5>1. i + 1 \in 1..n /\ i + 1 > 1 /\ (i + 1) - 1 = i  BY <1>1, <3>1, <4>2
        <5> QED  BY <1>6, <5>1
      <4> QED  BY <4>1, <4>2
    <3> QED  BY <1>6, <3>1, <3>2
  <2> QED  BY <2>1, <2>2
<1>10. Dosed(x, y, D)  BY <1>1, <1>4, <1>5, <1>9 DEF Dosed
<1> QED  BY <1>10 DEF y

\* Counting from any number on.
LEMMA CountingFrom ==
  ASSUME NEW k \in Nat, NEW n \in Nat, NEW G, k \in G,
         \A i \in k..(n - 1) : i \in G => i + 1 \in G
  PROVE  \A i \in k..n : i \in G
<1> DEFINE B == (k..n) \ G
<1> SUFFICES ASSUME B # {} PROVE FALSE  OBVIOUS
<1>1. B \in SUBSET Nat  OBVIOUS
<1>2. PICK m \in B : \A j \in B : m <= j  BY <1>1, Least
<1>3. m \in k..n /\ m # k /\ m \notin G  OBVIOUS
<1>4. m - 1 \in k..(n - 1) /\ (m - 1) + 1 = m /\ m - 1 \in k..n /\ ~(m <= m - 1)  BY <1>3
<1>5. m - 1 \in G  BY <1>2, <1>4
<1> QED  BY <1>3, <1>4, <1>5

\* What Dosed says of one place, and that no place lies outside y.
LEMMA DosPlaces ==
  ASSUME NEW x, NEW y, NEW D, Dosed(x, y, D)
  PROVE  /\ x \in Seq(Char) /\ y \in Seq(Char) /\ Len(x) \in Nat /\ Len(y) \in Nat
         /\ D[0] = 0 /\ D[Len(x) + 1] = Len(y) + 1
         /\ \A i \in 0..(Len(x) + 1) : D[i] \in Nat
         /\ \A i \in 1..(Len(x) + 1) :
              /\ i - 1 \in 0..(Len(x) + 1) /\ i \in 0..(Len(x) + 1)
              /\ Ch(y, D[i]) = Ch(x, i)
              /\ \/ D[i] = D[i - 1] + 1
                 \/ D[i] = D[i - 1] + 2 /\ Ch(y, D[i - 1] + 1) = "cr" /\ Ch(x, i) = "nl"
              /\ Ch(x, i) # "nl" => D[i] = D[i - 1] + 1
              /\ Ch(x, i) = "cr" => D[i + 1] = D[i] + 1
<1>1. x \in Seq(Char) /\ y \in Seq(Char) /\ D \in [0..(Len(x) + 1) -> Nat]  BY DEF Dosed
<1>2. Len(x) \in Nat /\ Len(y) \in Nat  BY <1>1
<1>3. \A i \in 0..(Len(x) + 1) : D[i] \in Nat  BY <1>1
<1>4. ASSUME NEW i \in 1..(Len(x) + 1)
      PROVE  i - 1 \in 0..(Len(x) + 1) /\ i \in 0..(Len(x) + 1)
  BY <1>2
<1> QED  BY <1>1, <1>2, <1>3, <1>4 DEF Dosed

LEMMA DosGrows ==
  ASSUME NEW x, NEW y, NEW D, Dosed(x, y, D),
         NEW k \in 0..(Len(x) + 1), NEW m \in k..(Len(x) + 1)
  PROVE  D[k] + (m - k) <= D[m] /\ D[k] \in Nat /\ D[m] \in Nat
<1> DEFINE n == Len(x) + 1
           G == {i \in k..n : D[k] + (i - k) <= D[i]}
<1>0. n \in Nat /\ k \in Nat /\ k <= n  BY DosPlaces
<1>1. \A i \in 0..n : D[i] \in Nat  BY DosPlaces
<1>2. k \in G  BY <1>0, <1>1
<1>3. ASSUME NEW i \in k..(n - 1), i \in G PROVE i + 1 \in G
  <2>1. i + 1 \in 1..n /\ i + 1 \in k..n /\ i \in 0..n /\ i + 1 \in 0..n /\ (i + 1) - 1 = i
    BY <1>0
  <2>2. D[i + 1] = D[i] + 1 \/ D[i + 1] = D[i] + 2  BY <2>1, DosPlaces
  <2>3. D[k] + (i - k) <= D[i] /\ D[k] \in Nat /\ D[i] \in Nat /\ D[i + 1] \in Nat
    BY <1>0, <1>1, <1>3, <2>1
  <2>4. D[k] + ((i + 1) - k) <= D[i + 1]  BY <1>0, <2>2, <2>3
  <2> QED  BY <2>1, <2>4
<1> HIDE DEF G
<1>4. \A i \in k..n : i \in G  BY <1>0, <1>2, <1>3, CountingFrom
<1>5. m \in G /\ m \in 0..n  BY <1>0, <1>4
<1> QED  BY <1>0, <1>1, <1>5 DEF G

\* The places of y are those of the characters of x and of the CRs before them.
LEMMA DosCovers ==
  ASSUME NEW x, NEW y, NEW D, Dosed(x, y, D), NEW j \in 1..(Len(y) + 1)
  PROVE  \E m \in 1..(Len(x) + 1) :
           /\ D[m - 1] < j /\ j <= D[m]
           /\ \/ j = D[m] /\ Ch(y, j) = Ch(x, m)
              \/ j = D[m - 1] + 1 /\ D[m] = j + 1 /\ Ch(y, j) = "cr" /\ Ch(x, m) = "nl"
<1> DEFINE n == Len(x) + 1
           T == {i \in 0..n : j <= D[i]}
<1>0. n \in Nat /\ j \in Nat /\ 1 <= j /\ j <= D[n] /\ D[0] = 0
      /\ \A i \in 0..n : D[i] \in Nat
  BY DosPlaces
<1>1. n \in T /\ T \subseteq Nat  BY <1>0
<1>2. PICK m \in T : \A i \in T : m <= i  BY <1>1, Least
<1>3. m # 0 /\ m \in 0..n /\ j <= D[m]  BY <1>0, <1>2
<1>4. m \in 1..n /\ m - 1 \in 0..n /\ ~(m <= m - 1)  BY <1>0, <1>3
<1>5. ~(j <= D[m - 1])
  <2>1. m - 1 \notin T  BY <1>2, <1>4
  <2> QED  BY <1>4, <2>1
<1>6. D[m - 1] < j  BY <1>0, <1>4, <1>5
<1>7. /\ Ch(y, D[m]) = Ch(x, m)
      /\ \/ D[m] = D[m - 1] + 1
         \/ D[m] = D[m - 1] + 2 /\ Ch(y, D[m - 1] + 1) = "cr" /\ Ch(x, m) = "nl"
  BY <1>4, DosPlaces
<1>8. CASE j = D[m]  BY <1>3, <1>4, <1>6, <1>7, <1>8
<1>9. CASE j # D[m]
  <2>1. D[m] \in Nat /\ D[m - 1] \in Nat  BY <1>0, <1>4
  <2>2. j = D[m - 1] + 1 /\ D[m] = D[m - 1] + 2  BY <1>0, <1>3, <1>6, <1>7, <1>9, <2>1
  <2>3. D[m] = j + 1 /\ Ch(y, j) = "cr" /\ Ch(x, m) = "nl"  BY <1>7, <2>1, <2>2
  <2> QED  BY <1>3, <1>4, <1>6, <2>2, <2>3
<1> QED  BY <1>8, <1>9

\* Where the scanner of y stands when that of x stands at i.
Matches(D, i, j) == j = D[i] \/ j = D[i - 1] + 1

LEMMA MatchAt ==
  ASSUME NEW x, NEW y, NEW D, Dosed(x, y, D),
         NEW i \in 1..(Len(x) + 1), NEW j, Matches(D, i, j)
  PROVE  /\ j \in 1..(Len(y) + 1) /\ D[i] \in 1..(Len(y) + 1)
         /\ D[i - 1] < j /\ j <= D[i] /\ D[i - 1] \in Nat
         /\ j # D[i] => D[i] = j + 1 /\ Ch(y, j) = "cr" /\ Ch(x, i) = "nl"
<1> DEFINE n == Len(x) + 1
<1>1. n \in Nat /\ Len(y) \in Nat /\ i - 1 \in 0..n /\ i \in 0..n /\ n \in i..n  BY DosPlaces
<1>2. D[i] \in Nat /\ D[i - 1] \in Nat /\ D[n] = Len(y) + 1  BY <1>1, DosPlaces
<1>3. \/ D[i] = D[i - 1] + 1
      \/ D[i] = D[i - 1] + 2 /\ Ch(y, D[i - 1] + 1) = "cr" /\ Ch(x, i) = "nl"
  BY DosPlaces
<1>4. D[i] <= Len(y) + 1
  <2>1. D[i] + (n - i) <= D[n]  BY <1>1, DosGrows
  <2> QED  BY <1>1, <1>2, <2>1
<1>5. CASE j = D[i]  BY <1>1, <1>2, <1>3, <1>4, <1>5
<1>6. CASE j # D[i]
  <2>1. j = D[i - 1] + 1 /\ D[i] = D[i - 1] + 2  BY <1>3, <1>6 DEF Matches
  <2>2. D[i] = j + 1 /\ Ch(y, j) = "cr" /\ Ch(x, i) = "nl"  BY <1>2, <1>3, <2>1
  <2> QED  BY <1>1, <1>2, <1>4, <2>1, <2>2
<1> QED  BY <1>5, <1>6

\* What can be read up to a place of x can be read up to it in y.
LEMMA DosReadable ==
  ASSUME NEW x, NEW y, NEW D, Dosed(x, y, D),
         NEW i \in 1..(Len(x) + 1), NEW j, Matches(D, i, j)
  PROVE  Readable(y, j) <=> Readable(x, i)
<1> DEFINE n == Len(x) + 1
<1>1. /\ n \in Nat /\ j \in 1..(Len(y) + 1) /\ D[i - 1] < j /\ j <= D[i] /\ D[i - 1] \in Nat
      /\ D[i] \in Nat /\ Len(y) \in Nat
      /\ j # D[i] => D[i] = j + 1 /\ Ch(y, j) = "cr" /\ Ch(x, i) = "nl"
  BY DosPlaces, MatchAt
<1>2. ASSUME Readable(x, i), NEW k \in 1..j PROVE Ch(y, k) # "nul"
  <2>1. k \in 1..(Len(y) + 1)  BY <1>1
  <2>2. PICK m \in 1..n : /\ D[m - 1] < k
                          /\ Ch(y, k) = Ch(x, m) \/ Ch(y, k) = "cr"
    BY <2>1, DosCovers
  <2>3. ~(m <= i) => D[i] <= D[m - 1]
    <3>1. ~(m <= i) => i \in 0..n /\ m - 1 \in i..n  BY <1>1
    <3>2. ASSUME ~(m <= i) PROVE D[i] <= D[m - 1]
      <4>1. D[i] + ((m - 1) - i) <= D[m - 1] /\ D[m - 1] \in Nat  BY <3>1, <3>2, DosGrows
      <4>2. (m - 1) - i \in Nat  BY <3>1, <3>2
      <4> QED  BY <1>1, <4>1, <4>2
    <3> QED  BY <3>2
  <2>4. m <= i
    <3>1. D[m - 1] \in Nat  BY DosPlaces
    <3> QED  BY <1>1, <2>2, <2>3, <3>1
  <2>5. m \in 1..i  BY <2>4
  <2> QED  BY <1>2, <2>2, <2>5 DEF Readable
<1>3. ASSUME Readable(y, j), NEW k \in 1..i PROVE Ch(x, k) # "nul"
  <2>1. k \in 1..n /\ k \in 0..n /\ i \in k..n  BY <1>1
  <2>2. D[k] + (i - k) <= D[i] /\ D[k] \in Nat  BY <2>1, DosGrows
  <2>3. D[k] \in 1..(Len(y) + 1) /\ Ch(y, D[k]) = Ch(x, k)
    BY <2>1, MatchAt, DosPlaces DEF Matches
  <2>4. CASE D[k] <= j
    <3>1. D[k] \in 1..j  BY <1>1, <2>3, <2>4
    <3> QED  BY <1>3, <2>3, <3>1 DEF Readable
  <2>5. CASE ~(D[k] <= j)
    <3>1. D[i] = j + 1 /\ Ch(x, i) = "nl"  BY <1>1, <2>1, <2>2, <2>5
    <3>2. k = i  BY <1>1, <2>1, <2>2, <2>5, <3>1
    <3> QED  BY <3>1, <3>2
  <2> QED  BY <2>4, <2>5
<1> QED  BY <1>2, <1>3 DEF Readable

\* Skipping what CRs are part of: blanks, or a comment.
LEMMA DosSkips ==
  ASSUME NEW x, NEW y, NEW D, Dosed(x, y, D),
         NEW i \in 1..(Len(x) + 1), NEW j, Matches(D, i, j),
         NEW S, EOF \notin S, "cr" \in S
  PROVE  After(y, S, j) = D[After(x, S, i)]
<1> DEFINE n == Len(x) + 1
           a == After(x, S, i)
<1>1. /\ n \in Nat /\ j \in 1..(Len(y) + 1) /\ D[i - 1] < j /\ j <= D[i] /\ D[i - 1] \in Nat
      /\ D[i] \in Nat /\ Len(y) \in Nat /\ x \in Seq(Char) /\ y \in Seq(Char)
  BY DosPlaces, MatchAt
<1>2. a \in i..n /\ Ch(x, a) \notin S /\ \A k \in i..(a - 1) : Ch(x, k) \in S
  BY <1>1, AfterIs
<1> HIDE DEF a
<1>3. a \in 1..n /\ i \in 0..n  BY <1>1, <1>2
<1>4. D[a] \in 1..(Len(y) + 1) /\ Ch(y, D[a]) = Ch(x, a) /\ D[i] + (a - i) <= D[a]
  BY <1>2, <1>3, MatchAt, DosPlaces, DosGrows DEF Matches
<1>5. D[a] \in j..(Len(y) + 1)  BY <1>1, <1>2, <1>4
<1>6. ASSUME NEW k \in j..(D[a] - 1) PROVE Ch(y, k) \in S
  <2>1. k \in 1..(Len(y) + 1) /\ k < D[a] /\ D[i - 1] < k  BY <1>1, <1>4
  <2>2. PICK m \in 1..n :
          /\ D[m - 1] < k /\ k <= D[m]
          /\ \/ k = D[m] /\ Ch(y, k) = Ch(x, m)
             \/ k = D[m - 1] + 1 /\ D[m] = k + 1 /\ Ch(y, k) = "cr" /\ Ch(x, m) = "nl"
    BY <2>1, DosCovers
  <2>3. CASE Ch(y, k) = "cr"  BY <2>3
  <2>4. CASE k = D[m] /\ Ch(y, k) = Ch(x, m)
    <3>1. m < a
      <4>1. ASSUME ~(m < a) PROVE FALSE
        <5>1. a \in 0..n /\ m \in a..n  BY <1>1, <1>3, <4>1
        <5>2. D[a] + (m - a) <= D[m] /\ D[m] \in Nat  BY <5>1, DosGrows
        <5> QED  BY <1>4, <2>1, <2>4, <5>1, <5>2
      <4> QED  BY <4>1
    <3>2. ~(m < i)
      <4>1. ASSUME m < i PROVE FALSE
        <5>1. m \in 0..n /\ i - 1 \in m..n  BY <1>1, <4>1
        <5>2. D[m] + ((i - 1) - m) <= D[i - 1] /\ D[m] \in Nat  BY <5>1, DosGrows
        <5> QED  BY <1>1, <2>1, <2>4, <5>1, <5>2
      <4> QED  BY <4>1
    <3>3. m \in i..(a - 1)  BY <1>1, <1>3, <3>1, <3>2
    <3> QED  BY <1>2, <2>4, <3>3
  <2> QED  BY <2>2, <2>3, <2>4
<1>7. D[a] = After(y, S, j)  BY <1>1, <1>2, <1>4, <1>5, <1>6, AfterIs
<1> QED  BY <1>7 DEF a

\* A stretch of x without line ends is in y as it is.
OnOneLine(x, p, e) == \A k \in (p + 1)..e : Ch(x, k) # "nl"

SameText(x, p, e, y, a, b) == SubSeq(y, a, b) = SubSeq(x, p, e)

LEMMA DosStretch ==
  ASSUME NEW x, NEW y, NEW D, Dosed(x, y, D),
         NEW p \in 1..Len(x), NEW e \in p..Len(x), OnOneLine(x, p, e)
  PROVE  /\ \A k \in p..e : D[k] = D[p] + (k - p)
         /\ SameText(x, p, e, y, D[p], D[e])
<1> DEFINE n == Len(x) + 1
           G == {k \in p..e : D[k] = D[p] + (k - p)}
<1>0. n \in Nat /\ p \in Nat /\ e \in Nat /\ p <= e /\ 1 <= p /\ e <= Len(x)
      /\ Len(x) \in Nat /\ Len(y) \in Nat /\ x \in Seq(Char) /\ y \in Seq(Char)
  BY DosPlaces
<1>1. \A k \in 0..n : D[k] \in Nat  BY DosPlaces
<1>2. p \in G  BY <1>0, <1>1
<1>3. ASSUME NEW k \in p..(e - 1), k \in G PROVE k + 1 \in G
  <2>1. k + 1 \in 1..n /\ k + 1 \in p..e /\ k + 1 \in (p + 1)..e /\ (k + 1) - 1 = k
        /\ p \in 0..n /\ k \in Nat
    BY <1>0
  <2>2. D[k + 1] = D[k] + 1  BY <2>1, DosPlaces DEF OnOneLine
  <2>3. D[k] = D[p] + (k - p) /\ D[p] \in Nat  BY <1>1, <1>3, <2>1
  <2>4. ASSUME NEW u \in Nat, NEW v, NEW w, v = u + (k - p), w = v + 1
        PROVE  w = u + ((k + 1) - p)
    BY <1>0, <2>1, <2>4
  <2>5. D[k + 1] = D[p] + ((k + 1) - p)
    <3> HIDE DEF G, n
    <3> QED  BY <2>2, <2>3, <2>4
  <2> QED  BY <2>1, <2>5
<1>4. \A k \in p..e : D[k] = D[p] + (k - p)
  <2> HIDE DEF G
  <2>1. \A k \in p..e : k \in G  BY <1>0, <1>2, <1>3, CountingFrom
  <2> QED  BY <2>1 DEF G
<1>5. \A k \in p..e : Ch(y, D[k]) = Ch(x, k) /\ k \in 1..Len(x)
  BY <1>0, DosPlaces
<1>6. ASSUME NEW k \in p..e PROVE D[k] \in 1..Len(y) /\ y[D[k]] = x[k]
  <2>1. Ch(x, k) = x[k] /\ Ch(x, k) # EOF  BY <1>0, <1>5, CharAt
  <2>2. D[k] \in 1..Len(y)  BY <1>0, <1>5, <2>1, CharAt
  <2> QED  BY <1>0, <1>5, <2>1, <2>2, CharAt
<1>7. D[p] \in 1..Len(y) /\ D[e] \in 1..Len(y) /\ D[e] = D[p] + (e - p)
  BY <1>0, <1>4, <1>6
<1> DEFINE a == D[p]
           b == D[e]
           m == (e - p) + 1
           u == SubSeq(y, a, b)
           v == SubSeq(x, p, e)
<1>8. m \in Nat /\ a \in Nat /\ b \in Nat /\ a <= b /\ (b - a) + 1 = m  BY <1>0, <1>7
<1>9. v = [k \in 1..m |-> x[(p + k) - 1]]  BY <1>0
<1> HIDE DEF m
<1>10. u = [k \in 1..m |-> y[(a + k) - 1]]
  <2> HIDE DEF a, b
  <2> QED  BY <1>0, <1>7, <1>8
<1>11. ASSUME NEW k \in 1..m PROVE y[(a + k) - 1] = x[(p + k) - 1]
  <2>1. (p + k) - 1 \in p..e /\ ((p + k) - 1) - p = k - 1  BY <1>0 DEF m
  <2>2. D[(p + k) - 1] = a + (k - 1)  BY <1>4, <2>1
  <2>3. a + (k - 1) = (a + k) - 1  BY <1>8
  <2> QED  BY <1>6, <2>1, <2>2, <2>3
<1> HIDE DEF u, v, a, b
<1>12. u = v  BY <1>9, <1>10, <1>11
<1> QED  BY <1>4, <1>12 DEF u, v, a, b, SameText

\* A name.
LEMMA DosName ==
  ASSUME NEW x, NEW y, NEW D, Dosed(x, y, D), NEW p \in 1..(Len(x) + 1),
         NEW S, EOF \notin S, "cr" \notin S, "nl" \notin S, Ch(x, p) \in S
  PROVE  LET a == After(x, S, p)
         IN  /\ a \in 1..(Len(x) + 1) /\ a > p
             /\ After(y, S, D[p]) = D[a - 1] + 1
             /\ SameText(x, p, a - 1, y, D[p], D[a - 1])
<1> DEFINE n == Len(x) + 1
           a == After(x, S, p)
<1>0. n \in Nat /\ p \in Nat /\ 1 <= p /\ p <= n
      /\ Len(x) \in Nat /\ Len(y) \in Nat /\ x \in Seq(Char) /\ y \in Seq(Char)
  BY DosPlaces
<1>1. a \in p..n /\ Ch(x, a) \notin S /\ \A k \in p..(a - 1) : Ch(x, k) \in S
  BY <1>0, AfterIs
<1> HIDE DEF a
<1>2. a # p  BY <1>1
<1> DEFINE e == a - 1
<1>3. a > p /\ a \in 1..n /\ e \in p..Len(x) /\ p \in 1..Len(x) /\ p \in p..e /\ e \in p..e
      /\ e \in Nat /\ a = e + 1
  BY <1>0, <1>1, <1>2
<1> HIDE DEF e
<1>4. \A k \in p..e : Ch(x, k) \in S  BY <1>1 DEF e
<1>5. OnOneLine(x, p, e)
  <2>1. \A k \in (p + 1)..e : k \in p..e  BY <1>0, <1>3
  <2> QED  BY <1>4, <2>1 DEF OnOneLine
<1>6. /\ \A k \in p..e : D[k] = D[p] + (k - p)
      /\ SameText(x, p, e, y, D[p], D[e])
  <2>1. p \in 1..Len(x) /\ e \in p..Len(x)  BY <1>3
  <2>2. SameText(x, p, e, y, D[p], D[e])  BY <1>5, <2>1, DosStretch
  <2>3. \A k \in p..e : D[k] = D[p] + (k - p)  BY <1>5, <2>1, DosStretch
  <2> QED  BY <2>2, <2>3
<1>7. D[p] \in 1..(Len(y) + 1)  BY MatchAt DEF Matches
<1> DEFINE d == D[p]
           f == D[e] + 1
<1>8. D[e] = d + (e - p)  BY <1>3, <1>6
<1>9. f \in d..(Len(y) + 1) /\ Ch(y, f) \notin S
  <2>1. Matches(D, a, f)  BY <1>3 DEF Matches, e
  <2>2. f \in 1..(Len(y) + 1) /\ (f # D[a] => Ch(y, f) = "cr")  BY <1>3, <2>1, MatchAt
  <2>3. Ch(y, D[a]) = Ch(x, a)  BY <1>3, DosPlaces
  <2>4. Ch(y, f) \notin S  BY <1>1, <2>2, <2>3
  <2> QED  BY <1>3, <1>7, <1>8, <2>2, <2>4
<1>10. ASSUME NEW k \in d..(f - 1) PROVE Ch(y, k) \in S
  <2>1. (k - d) + p \in p..e /\ ((k - d) + p) - p = k - d /\ d + (k - d) = k
    BY <1>3, <1>7, <1>8
  <2>2. D[(k - d) + p] = k  BY <1>6, <2>1
  <2>3. (k - d) + p \in 1..n  BY <1>0, <1>3, <2>1
  <2>4. Ch(y, D[(k - d) + p]) = Ch(x, (k - d) + p)  BY <2>3, DosPlaces
  <2> QED  BY <1>4, <2>1, <2>2, <2>4
<1>11. f = After(y, S, d)
  <2> HIDE DEF f, d
  <2>1. d \in 1..(Len(y) + 1)  BY <1>7 DEF d
  <2> QED  BY <1>0, <1>9, <1>10, <2>1, AfterIs
<1> QED  BY <1>3, <1>6, <1>11 DEF a, e

\* A string: no line ends in it, and no CRs were put there.
LEMMA DosString ==
  ASSUME NEW x, NEW y, NEW D, Dosed(x, y, D), NEW i \in 1..(Len(x) + 1)
  PROVE  LET e == scanString(x, i)
             f == scanString(y, D[i - 1] + 1)
         IN  /\ e = 0 => f = 0
             /\ e # 0 => /\ e \in i..Len(x) /\ f = D[e]
                         /\ \A k \in i..e : Ch(x, k) # "nl"
<1> DEFINE n == Len(x) + 1
           g == StringScan(x)
           h == StringScan(y)
           Right(k) == LET e == g[k]
                           f == h[D[k - 1] + 1]
                       IN  /\ e = 0 => f = 0
                           /\ e # 0 => /\ e \in k..Len(x) /\ f = D[e]
                                       /\ \A l \in k..e : Ch(x, l) # "nl"
           Good == {k \in Nat : k \in 1..n => Right(k)}
<1>0. n \in Nat /\ Len(x) \in Nat /\ Len(y) \in Nat /\ x \in Seq(Char) /\ y \in Seq(Char)
  BY DosPlaces
<1>2. /\ \A k : scanString(x, k) = g[k]
      /\ g = Looped(Nat, StringStops(x), StringTurns(x), g)
      /\ \A k : scanString(y, k) = h[k]
      /\ h = Looped(Nat, StringStops(y), StringTurns(y), h)
  BY <1>0, StringLoop
<1> HIDE DEF g, h
<1>4. \A k \in Nat : g[k] = IF k = 0 \/ Ch(x, k) = "quote" THEN k ELSE g[StringTurn(x, k)]
  BY <1>2 DEF Looped, StringStops, StringTurns
<1>5. \A k \in Nat : h[k] = IF k = 0 \/ Ch(y, k) = "quote" THEN k ELSE h[StringTurn(y, k)]
  BY <1>2 DEF Looped, StringStops, StringTurns
<1>6. g[0] = 0 /\ h[0] = 0  BY <1>4, <1>5
<1>7. ASSUME NEW k \in Nat, k \in StringStops(x) \/ StringTurns(x)[k] \in Good
      PROVE  k \in Good
  <2> SUFFICES ASSUME k \in 1..n PROVE Right(k)  OBVIOUS
  <2> DEFINE j == D[k - 1] + 1
             d == D[k]
             ch == Ch(x, k)
  <2>1. /\ j \in 1..(Len(y) + 1) /\ d \in 1..(Len(y) + 1) /\ j <= d
        /\ j # d => d = j + 1 /\ Ch(y, j) = "cr" /\ ch = "nl"
    BY MatchAt DEF Matches
  <2>2. Ch(y, d) = ch  BY DosPlaces
  <2>3. j \in Nat /\ j # 0 /\ d \in Nat /\ d # 0 /\ k # 0  BY <2>1
  <2>a. ch # EOF <=> k \in 1..Len(x)  BY <1>0, CharAt
  <2>b. k + 1 \in Nat /\ (k + 1) - 1 = k /\ k + 2 \in Nat /\ (k + 2) - 1 = k + 1
        /\ (k \in 1..Len(x) => k + 1 \in 1..n)
    BY <1>0
  <2> HIDE DEF j, d, ch
  <2>4. CASE ch = "nl"
    <3>1. g[k] = 0
      <4>1. StringTurn(x, k) = 0  BY <2>4 DEF StringTurn, ch, EOF
      <4> QED  BY <1>4, <1>6, <2>4, <4>1 DEF ch
    <3>2. h[d] = 0
      <4>1. StringTurn(y, d) = 0  BY <2>2, <2>4 DEF StringTurn, EOF
      <4> QED  BY <1>5, <1>6, <2>2, <2>3, <2>4, <4>1
    <3>3. h[j] = 0
      <4>1. CASE j # d
        <5>1. StringTurn(y, j) = d  BY <2>1, <4>1 DEF StringTurn, EOF
        <5> QED  BY <1>5, <2>1, <2>3, <3>2, <4>1, <5>1
      <4> QED  BY <3>2, <4>1
    <3> QED  BY <3>1, <3>3 DEF j
  <2>5. CASE ch = "quote"
    <3>1. g[k] = k  BY <1>4, <2>5 DEF ch
    <3>2. h[j] = d  BY <1>5, <2>1, <2>2, <2>3, <2>5
    <3>3. k \in k..Len(x)  BY <1>0, <2>5, <2>a DEF EOF
    <3>4. \A l \in k..k : Ch(x, l) # "nl"  BY <2>5 DEF ch
    <3> QED  BY <2>3, <3>1, <3>2, <3>3, <3>4 DEF j, d
  <2>6. ASSUME ch \notin {"nl", "quote"}, StringTurn(x, k) = 0, StringTurn(y, d) = 0
        PROVE  Right(k)
    <3>1. g[k] = 0  BY <1>4, <1>6, <2>6 DEF ch
    <3>2. h[j] = 0  BY <1>5, <1>6, <2>1, <2>2, <2>3, <2>6
    <3> QED  BY <3>1, <3>2 DEF j
  <2>7. ASSUME ch \notin {"nl", "quote"}, NEW m \in (k + 1)..(k + 2), m \in 1..n,
               StringTurn(x, k) = m, StringTurn(y, d) = D[m - 1] + 1,
               \A l \in (k + 1)..(m - 1) : Ch(x, l) # "nl"
        PROVE  Right(k)
    <3>1. g[k] = g[m]  BY <1>4, <2>7, <2>3 DEF ch
    <3>2. h[j] = h[D[m - 1] + 1]  BY <1>5, <2>1, <2>2, <2>3, <2>7
    <3>3. m \in Good  BY <1>7, <2>3, <2>7 DEF StringStops, StringTurns, ch
    <3>4. Right(m)  BY <2>7, <3>3
    <3>5. CASE g[m] = 0  BY <3>1, <3>2, <3>4, <3>5 DEF j
    <3>6. CASE g[m] # 0
      <4> DEFINE e == g[m]
      <4>1. e \in m..Len(x) /\ h[D[m - 1] + 1] = D[e] /\ \A l \in m..e : Ch(x, l) # "nl"
        BY <3>4, <3>6
      <4> HIDE DEF e
      <4>2. e \in k..Len(x)  BY <1>0, <4>1
      <4>3. \A l \in k..e : l = k \/ l \in (k + 1)..(m - 1) \/ l \in m..e  BY <1>0, <4>1
      <4>4. \A l \in k..e : Ch(x, l) # "nl"  BY <2>7, <4>1, <4>3 DEF ch
      <4>5. g[k] = e /\ h[j] = D[e] /\ e # 0  BY <3>1, <3>2, <3>6, <4>1 DEF e
      <4> QED  BY <4>2, <4>4, <4>5 DEF j
    <3> QED  BY <3>5, <3>6
  <2>8. CASE ch = EOF
    <3>1. StringTurn(x, k) = 0 /\ StringTurn(y, d) = 0
      BY <2>2, <2>8 DEF StringTurn, ch, EOF
    <3> HIDE DEF Right
    <3> QED  BY <2>6, <2>8, <3>1 DEF EOF
  <2>9. CASE ch = "back"
    <3> DEFINE next == Ch(x, k + 1)
    <3>1. k + 1 \in 1..n  BY <2>9, <2>a, <2>b DEF EOF
    <3>2. d + 1 = D[k + 1] \/ (Ch(y, d + 1) = "cr" /\ next = "nl")
      <4>1. Matches(D, k + 1, d + 1)  BY <2>b DEF Matches, d
      <4>2. d + 1 # D[k + 1] => Ch(y, d + 1) = "cr" /\ next = "nl"
        BY <3>1, <4>1, MatchAt
      <4> QED  BY <4>2
    <3>3. Ch(y, D[k + 1]) = next  BY <3>1, DosPlaces
    <3> HIDE DEF next
    <3>4. CASE next \in {"back", "quote"}
      <4>1. d + 1 = D[k + 1] /\ Ch(y, d + 1) = next  BY <3>2, <3>3, <3>4
      <4>2. StringTurn(x, k) = k + 2 /\ StringTurn(y, d) = d + 2
        BY <2>2, <2>9, <3>4, <4>1 DEF StringTurn, Escapes, next, ch, EOF
      <4>3. k + 2 \in 1..n
        <5>1. Ch(x, k + 1) # EOF  BY <3>4 DEF next, EOF
        <5>2. k + 1 \in 1..Len(x)  BY <1>0, <5>1, CharAt
        <5> QED  BY <1>0, <5>2
      <4>4. \A l \in (k + 1)..((k + 2) - 1) : l = k + 1  BY <2>b
      <4>5. \A l \in (k + 1)..((k + 2) - 1) : Ch(x, l) # "nl"  BY <3>4, <4>4 DEF next
      <4>6. d + 2 = D[(k + 2) - 1] + 1  BY <2>3, <2>b, <4>1
      <4>7. k + 2 \in (k + 1)..(k + 2)  BY <2>b
      <4> HIDE DEF Right
      <4> QED  BY <2>7, <2>9, <4>2, <4>3, <4>5, <4>6, <4>7
    <3>5. CASE next \notin {"back", "quote"}
      <4>1. Ch(y, d + 1) \notin {"back", "quote"}  BY <3>2, <3>3, <3>5
      <4>2. StringTurn(x, k) = 0 /\ StringTurn(y, d) = 0
        BY <2>2, <2>9, <3>5, <4>1 DEF StringTurn, Escapes, next, ch, EOF
      <4> HIDE DEF Right
      <4> QED  BY <2>6, <2>9, <4>2
    <3> QED  BY <3>4, <3>5
  <2>10. CASE ch \notin {"nl", "quote", EOF, "back"}
    <3>1. StringTurn(x, k) = k + 1 /\ StringTurn(y, d) = d + 1
      BY <2>2, <2>10 DEF StringTurn, ch
    <3>2. k + 1 \in 1..n /\ k + 1 \in (k + 1)..(k + 2)  BY <2>10, <2>a, <2>b
    <3>3. d + 1 = D[(k + 1) - 1] + 1  BY <2>b DEF d
    <3>4. \A l \in (k + 1)..((k + 1) - 1) : Ch(x, l) # "nl"  BY <2>b
    <3> HIDE DEF Right
    <3> QED  BY <2>7, <2>10, <3>1, <3>2, <3>3, <3>4
  <2> HIDE DEF Right
  <2> QED  BY <2>4, <2>5, <2>8, <2>9, <2>10
<1>8. Nat \subseteq Good
  <2> HIDE DEF Good
  <2> QED  BY <1>0, <1>7, StringEnds, LoopInduction
<1>9. Right(i)
  <2>1. i \in Nat  OBVIOUS
  <2> QED  BY <1>8, <2>1
<1> QED  BY <1>2, <1>9

\* The text from p to before i without its CRs.
Bare(x, p, i) == stripCR(SubSeq(x, p, i - 1))

LEMMA BareIs ==
  ASSUME NEW x \in Seq(Char), NEW p \in 1..(Len(x) + 1)
  PROVE  /\ \A i \in Nat : i <= p => Bare(x, p, i) = << >>
         /\ \A i \in p..Len(x) :
              Bare(x, p, i + 1) = IF Ch(x, i) # "cr" THEN Append(Bare(x, p, i), Ch(x, i))
                                  ELSE Bare(x, p, i)
<1>0. Len(x) \in Nat /\ p \in Nat  OBVIOUS
<1>1. ASSUME NEW i \in Nat, i <= p PROVE Bare(x, p, i) = << >>
  <2>1. SubSeq(x, p, i - 1) = << >>  BY <1>0, <1>1
  <2> QED  BY <2>1, StripNone DEF Bare
<1>2. ASSUME NEW i \in p..Len(x)
      PROVE  Bare(x, p, i + 1) = IF Ch(x, i) # "cr" THEN Append(Bare(x, p, i), Ch(x, i))
                                 ELSE Bare(x, p, i)
  <2> DEFINE b == SubSeq(x, p, i - 1)
  <2>1. b \in Seq(Char) /\ SubSeq(x, p, i) = Append(b, x[i])  BY OneCharMore
  <2>2. i \in 1..Len(x) /\ (i + 1) - 1 = i  BY <1>0
  <2>3. Ch(x, i) = x[i] /\ x[i] \in Char  BY <2>2, CharAt
  <2> HIDE DEF b
  <2>4. Bare(x, p, i + 1) = stripCR(Append(b, x[i]))  BY <2>1, <2>2 DEF Bare
  <2>5. Bare(x, p, i) = stripCR(b)  BY DEF Bare, b
  <2> QED  BY <2>1, <2>3, <2>4, <2>5, StripOneMore
<1> QED  BY <1>1, <1>2

\* The CRs that were put there are among those that stripCR takes out.
LEMMA DosBare ==
  ASSUME NEW x, NEW y, NEW D, Dosed(x, y, D), NEW p \in 1..(Len(x) + 1),
         NEW i \in p..(Len(x) + 1), NEW j, Matches(D, i, j)
  PROVE  Bare(y, D[p], j) = Bare(x, p, i)
<1> DEFINE n == Len(x) + 1
           a == D[p]
           Right(k) == /\ Bare(y, a, D[k]) = Bare(x, p, k)
                       /\ Bare(y, a, D[k - 1] + 1) = Bare(x, p, k)
           G == {k \in p..n : Right(k)}
<1>0. n \in Nat /\ p \in Nat /\ Len(x) \in Nat /\ Len(y) \in Nat
      /\ x \in Seq(Char) /\ y \in Seq(Char) /\ 1 <= p /\ p <= n
  BY DosPlaces
<1>1. a \in 1..(Len(y) + 1)  BY MatchAt DEF Matches
<1> HIDE DEF a
<1>2. p \in G
  <2>1. Matches(D, p, D[p - 1] + 1)  BY DEF Matches
  <2>2. D[p - 1] + 1 <= a /\ D[p - 1] + 1 \in Nat  BY <2>1, MatchAt DEF a
  <2>3. Bare(y, a, D[p - 1] + 1) = << >> /\ Bare(y, a, a) = << >> /\ Bare(x, p, p) = << >>
    BY <1>0, <1>1, <2>2, BareIs
  <2> QED  BY <1>0, <2>3 DEF a
<1>3. ASSUME NEW k \in p..(n - 1), k \in G PROVE k + 1 \in G
  <2>1. k \in p..Len(x) /\ k + 1 \in p..n /\ k + 1 \in 1..n /\ (k + 1) - 1 = k /\ k \in 1..n
        /\ k \in p..n /\ p \in 0..n
    BY <1>0
  <2> DEFINE d == D[k]
  <2>2. d \in 1..(Len(y) + 1) /\ Ch(y, d) = Ch(x, k)
    BY <2>1, MatchAt, DosPlaces DEF Matches
  <2>3. a <= d
    <3>1. D[p] + (k - p) <= D[k] /\ D[k] \in Nat  BY <2>1, DosGrows
    <3>2. k - p \in Nat  BY <2>1
    <3> HIDE DEF d
    <3> QED  BY <1>1, <3>1, <3>2 DEF a, d
  <2>4. d \in a..Len(y)
    <3>1. k \in 1..Len(x)  BY <1>0, <2>1
    <3>2. Ch(x, k) # EOF  BY <1>0, <3>1, CharAt
    <3>3. d \in 1..Len(y)  BY <1>0, <2>2, <3>2, CharAt
    <3> HIDE DEF d
    <3> QED  BY <1>1, <2>3, <3>3
  <2>5. Bare(y, a, d) = Bare(x, p, k)  BY <1>3
  <2>6. Bare(y, a, d + 1) = Bare(x, p, k + 1)
    <3> HIDE DEF d
    <3>1. Bare(x, p, k + 1) = IF Ch(x, k) # "cr" THEN Append(Bare(x, p, k), Ch(x, k))
                              ELSE Bare(x, p, k)
      BY <1>0, <2>1, BareIs
    <3>2. Bare(y, a, d + 1) = IF Ch(y, d) # "cr" THEN Append(Bare(y, a, d), Ch(y, d))
                              ELSE Bare(y, a, d)
      BY <1>0, <1>1, <2>4, BareIs
    <3> QED  BY <2>2, <2>5, <3>1, <3>2
  <2>7. Bare(y, a, D[k + 1]) = Bare(x, p, k + 1)
    <3>1. D[k + 1] = d + 1 \/ (D[k + 1] = d + 2 /\ Ch(y, d + 1) = "cr")
      BY <2>1, DosPlaces
    <3>2. CASE D[k + 1] = d + 1  BY <2>6, <3>2
    <3>3. CASE D[k + 1] = d + 2 /\ Ch(y, d + 1) = "cr"
      <4> HIDE DEF d
      <4>1. d + 1 \in 1..Len(y)  BY <1>0, <2>2, <3>3, CharAt DEF EOF
      <4>2. d + 1 \in a..Len(y) /\ (d + 1) + 1 = d + 2  BY <1>1, <2>3, <2>4, <4>1
      <4>3. Bare(y, a, (d + 1) + 1) = Bare(y, a, d + 1)  BY <1>0, <1>1, <3>3, <4>2, BareIs
      <4> QED  BY <2>6, <3>3, <4>2, <4>3
    <3> QED  BY <3>1, <3>2, <3>3
  <2>8. Right(k + 1)  BY <2>1, <2>6, <2>7
  <2> QED  BY <2>1, <2>8
<1> HIDE DEF G
<1>4. \A k \in p..n : k \in G  BY <1>0, <1>2, <1>3, CountingFrom
<1>5. Right(i)  BY <1>4 DEF G
<1> QED  BY <1>5 DEF Matches, a

\* What one turn in a value comes to.
LEMMA ValueTurnIs ==
  ASSUME NEW x, NEW v \in ValueState
  PROVE  LET i == v.at
             ch == Ch(x, i)
             next == Ch(x, i + 1)
         IN  /\ v.q /\ ch \in {EOF, "nl"} => ValueTurn(x, v) = BadValue
             /\ v.q /\ ch = "back" =>
                  ValueTurn(x, v) =
                      IF next \in {"back", "quote", "n"} THEN AllOfIt(i + 2, TRUE)
                      ELSE BadValue
             /\ ~v.q /\ ch = "back" /\ next # "cr" =>
                  ValueTurn(x, v) = IF next = "nl" THEN AllOfIt(i + 2, FALSE) ELSE BadValue
             /\ ~v.q /\ ch = "back" /\ next = "cr" =>
                  ValueTurn(x, v) = IF Ch(x, i + 2) = "nl" THEN AllOfIt(i + 3, FALSE)
                                    ELSE BadValue
             /\ ch = "quote" => ValueTurn(x, v) = AllOfIt(i + 1, ~v.q)
             /\ ch \notin {"back", "quote"} /\ (v.q => ch \notin {EOF, "nl"}) =>
                  ValueTurn(x, v) = [at |-> i + 1, q |-> v.q,
                                     end |-> IF v.q \/ ch \notin White THEN i + 1 ELSE v.end]
<1> DEFINE i == v.at
           ch == Ch(x, i)
           next == Ch(x, i + 1)
<1>1. i \in Nat /\ v.q \in BOOLEAN  BY DEF ValueState
<1>2. (i + 1) + 1 = i + 2 /\ (i + 2) + 1 = i + 3  BY <1>1
<1>3. ASSUME v.q, ch \in {EOF, "nl"} PROVE ValueTurn(x, v) = BadValue
  BY <1>3 DEF ValueTurn, EOF
<1>4. v.q /\ ch = "back" =>
        ValueTurn(x, v) = IF next \in {"back", "quote", "n"} THEN AllOfIt(i + 2, TRUE)
                          ELSE BadValue
  BY <1>2 DEF ValueTurn, EOF, Escapes
<1>5. ~v.q /\ ch = "back" /\ next # "cr" =>
        ValueTurn(x, v) = IF next = "nl" THEN AllOfIt(i + 2, FALSE) ELSE BadValue
  BY <1>2 DEF ValueTurn, EOF
<1>6. ASSUME ~v.q, ch = "back", next = "cr"
      PROVE  ValueTurn(x, v) = IF Ch(x, i + 2) = "nl" THEN AllOfIt(i + 3, FALSE) ELSE BadValue
  <2>1. ValueTurn(x, v) = IF Ch(x, (i + 1) + 1) = "nl" THEN AllOfIt(((i + 1) + 1) + 1, FALSE)
                          ELSE BadValue
    BY <1>6 DEF ValueTurn
  <2> QED  BY <1>2, <2>1
<1>7. ch = "quote" => ValueTurn(x, v) = AllOfIt(i + 1, ~v.q)  BY DEF ValueTurn, EOF
<1>8. ASSUME ch \notin {"back", "quote"}, v.q => ch \notin {EOF, "nl"}
      PROVE  ValueTurn(x, v) = [at |-> i + 1, q |-> v.q,
                                end |-> IF v.q \/ ch \notin White THEN i + 1 ELSE v.end]
  BY <1>8 DEF ValueTurn, EndAfter
<1> QED  BY <1>3, <1>4, <1>5, <1>6, <1>7, <1>8

\* The states of the two loops belong together.
Beside(x, D, v, w) ==
  /\ v \in ValueState /\ w \in ValueState /\ w.q = v.q
  /\ v.at \in 1..(Len(x) + 1) /\ Matches(D, v.at, w.at)
  /\ v.end \in 1..(Len(x) + 1) /\ Matches(D, v.end, w.end)

LEMMA BesideAll ==
  ASSUME NEW x, NEW y, NEW D, Dosed(x, y, D), NEW i \in 1..(Len(x) + 1), NEW j,
         Matches(D, i, j), NEW q \in BOOLEAN
  PROVE  Beside(x, D, AllOfIt(i, q), AllOfIt(j, q))
<1>1. Len(x) \in Nat /\ Len(y) \in Nat /\ j \in 1..(Len(y) + 1)  BY DosPlaces, MatchAt
<1>2. i \in Nat /\ j \in Nat  BY <1>1
<1> QED  BY <1>2, ValueParts DEF Beside

\* One turn of each.
LEMMA BesideTurn ==
  ASSUME NEW x, NEW y, NEW D, Dosed(x, y, D), NEW v, NEW w, Beside(x, D, v, w),
         ~ValueEnds(x, v), w.at = D[v.at]
  PROVE  /\ ~ValueEnds(y, w)
         /\ \/ ValueTurn(x, v) = BadValue /\ ValueTurn(y, w) = BadValue
            \/ Beside(x, D, ValueTurn(x, v), ValueTurn(y, w))
<1> DEFINE n == Len(x) + 1
           i == v.at
           j == w.at
           ch == Ch(x, i)
           next == Ch(x, i + 1)
           Right == \/ ValueTurn(x, v) = BadValue /\ ValueTurn(y, w) = BadValue
                    \/ Beside(x, D, ValueTurn(x, v), ValueTurn(y, w))
<1>0. /\ v \in ValueState /\ w \in ValueState /\ w.q = v.q /\ v.q \in BOOLEAN
      /\ i \in 1..n /\ i \in Nat /\ j \in Nat /\ n \in Nat /\ Len(x) \in Nat
      /\ x \in Seq(Char) /\ y \in Seq(Char) /\ j = D[i] /\ Len(y) \in Nat
  BY DosPlaces DEF Beside, ValueState
<1>1. Ch(y, j) = ch  BY <1>0, DosPlaces
<1>2. j # 0
  <2>1. Matches(D, i, j)  BY <1>0 DEF Matches
  <2>2. j \in 1..(Len(y) + 1)  BY <1>0, <2>1, MatchAt
  <2> QED  BY <1>0, <2>2
<1>3. ~v.q => ch \notin {EOF, "nl", "semi"}  BY DEF ValueEnds
<1>4. ~ValueEnds(y, w)  BY <1>0, <1>1, <1>2, <1>3 DEF ValueEnds
<1>5. ch # EOF => i \in 1..Len(x)  BY <1>0, CharAt
<1>6. ch # EOF => i + 1 \in 1..n /\ (i + 1) - 1 = i  BY <1>0, <1>5
<1>7. ch # EOF =>
        /\ Ch(y, D[i + 1]) = next
        /\ \/ D[i + 1] = j + 1
           \/ D[i + 1] = j + 2 /\ Ch(y, j + 1) = "cr" /\ next = "nl"
  <2> SUFFICES ASSUME ch # EOF
               PROVE  /\ Ch(y, D[i + 1]) = next
                      /\ \/ D[i + 1] = j + 1
                         \/ D[i + 1] = j + 2 /\ Ch(y, j + 1) = "cr" /\ next = "nl"
    OBVIOUS
  <2>1. i + 1 \in 1..n /\ (i + 1) - 1 = i  BY <1>6
  <2>2. /\ Ch(y, D[i + 1]) = Ch(x, i + 1)
        /\ \/ D[i + 1] = D[(i + 1) - 1] + 1
           \/ /\ D[i + 1] = D[(i + 1) - 1] + 2 /\ Ch(y, D[(i + 1) - 1] + 1) = "cr"
              /\ Ch(x, i + 1) = "nl"
    BY <2>1, DosPlaces
  <2> QED  BY <1>0, <2>1, <2>2
<1>8. next # EOF => i + 2 \in 1..n /\ (i + 2) - 1 = i + 1
  <2>1. next # EOF => i + 1 \in 1..Len(x)  BY <1>0, CharAt
  <2> QED  BY <1>0, <2>1
<1>9. ASSUME NEW k \in 1..n, NEW l, Matches(D, k, l), NEW q \in BOOLEAN,
             ValueTurn(x, v) = AllOfIt(k, q), ValueTurn(y, w) = AllOfIt(l, q)
      PROVE  Right
  BY <1>9, BesideAll
<1> HIDE DEF Right, i, j, ch, next
<1>10. CASE v.q /\ ch \in {EOF, "nl"}
  <2>1. ValueTurn(x, v) = BadValue /\ ValueTurn(y, w) = BadValue
    BY <1>0, <1>1, <1>10, ValueTurnIs DEF i, j, ch
  <2> QED  BY <1>4, <2>1 DEF Right
<1>11. CASE v.q /\ ch = "back"
  <2> DEFINE S == {"back", "quote", "n"}
  <2>1. /\ ValueTurn(x, v) = IF next \in S THEN AllOfIt(i + 2, TRUE) ELSE BadValue
        /\ ValueTurn(y, w) = IF Ch(y, j + 1) \in S THEN AllOfIt(j + 2, TRUE) ELSE BadValue
    BY <1>0, <1>1, <1>11, ValueTurnIs DEF i, j, ch, next
  <2>2. Ch(y, D[i + 1]) = next /\ (D[i + 1] = j + 1 \/ (Ch(y, j + 1) = "cr" /\ next = "nl"))
    BY <1>7, <1>11 DEF EOF
  <2>3. Ch(y, j + 1) \in S <=> next \in S  BY <2>2
  <2>4. CASE next \in S
    <3>1. i + 2 \in 1..n /\ (i + 2) - 1 = i + 1  BY <1>8, <2>4 DEF EOF
    <3>2. D[i + 1] = j + 1  BY <2>2, <2>4
    <3>3. j + 2 = D[(i + 2) - 1] + 1  BY <1>0, <3>1, <3>2
    <3>4. Matches(D, i + 2, j + 2)  BY <3>3 DEF Matches
    <3>5. ValueTurn(x, v) = AllOfIt(i + 2, TRUE) /\ ValueTurn(y, w) = AllOfIt(j + 2, TRUE)
      BY <2>1, <2>3, <2>4
    <3> QED  BY <1>4, <1>9, <3>1, <3>4, <3>5 DEF Right
  <2>5. CASE next \notin S  BY <1>4, <2>1, <2>3, <2>5 DEF Right
  <2> QED  BY <2>4, <2>5
<1>12. CASE ~v.q /\ ch = "back"
  <2>1. /\ next # "cr" =>
             ValueTurn(x, v) = IF next = "nl" THEN AllOfIt(i + 2, FALSE) ELSE BadValue
        /\ next = "cr" =>
             ValueTurn(x, v) = IF Ch(x, i + 2) = "nl" THEN AllOfIt(i + 3, FALSE) ELSE BadValue
        /\ Ch(y, j + 1) # "cr" =>
             ValueTurn(y, w) = IF Ch(y, j + 1) = "nl" THEN AllOfIt(j + 2, FALSE) ELSE BadValue
        /\ Ch(y, j + 1) = "cr" =>
             ValueTurn(y, w) = IF Ch(y, j + 2) = "nl" THEN AllOfIt(j + 3, FALSE) ELSE BadValue
    BY <1>0, <1>1, <1>12, ValueTurnIs DEF i, j, ch, next
  <2>2. /\ Ch(y, D[i + 1]) = next
        /\ \/ D[i + 1] = j + 1
           \/ D[i + 1] = j + 2 /\ Ch(y, j + 1) = "cr" /\ next = "nl"
    BY <1>7, <1>12 DEF EOF
  <2>3. CASE next = "nl"
    <3>1. i + 2 \in 1..n /\ (i + 2) - 1 = i + 1  BY <1>8, <2>3 DEF EOF
    <3>2. ValueTurn(x, v) = AllOfIt(i + 2, FALSE)  BY <2>1, <2>3
    <3>3. ValueTurn(y, w) = AllOfIt(D[i + 1] + 1, FALSE)
      <4>1. CASE D[i + 1] = j + 1
        <5>1. ValueTurn(y, w) = AllOfIt(j + 2, FALSE)  BY <2>1, <2>2, <2>3, <4>1
        <5>2. D[i + 1] + 1 = j + 2  BY <1>0, <4>1
        <5> QED  BY <5>1, <5>2
      <4>2. CASE D[i + 1] = j + 2 /\ Ch(y, j + 1) = "cr"
        <5>1. ValueTurn(y, w) = AllOfIt(j + 3, FALSE)  BY <2>1, <2>2, <2>3, <4>2
        <5>2. D[i + 1] + 1 = j + 3  BY <1>0, <4>2
        <5> QED  BY <5>1, <5>2
      <4> QED  BY <2>2, <4>1, <4>2
    <3>4. Matches(D, i + 2, D[i + 1] + 1)  BY <3>1 DEF Matches
    <3> QED  BY <1>4, <1>9, <3>1, <3>2, <3>3, <3>4 DEF Right
  <2>4. CASE next = "cr"
    <3>1. i + 2 \in 1..n /\ (i + 2) - 1 = i + 1 /\ i + 1 \in 1..n
      BY <1>6, <1>8, <1>12, <2>4 DEF EOF
    <3>2. D[i + 1] = j + 1 /\ Ch(y, j + 1) = "cr"  BY <2>2, <2>4
    <3>3. D[i + 2] = j + 2 /\ Ch(y, j + 2) = Ch(x, i + 2)
      <4>1. D[(i + 1) + 1] = D[i + 1] + 1  BY <2>4, <3>1, DosPlaces DEF next
      <4>2. (i + 1) + 1 = i + 2 /\ (j + 1) + 1 = j + 2  BY <1>0
      <4>3. Ch(y, D[i + 2]) = Ch(x, i + 2)  BY <3>1, DosPlaces
      <4> QED  BY <3>2, <4>1, <4>2, <4>3
    <3>4. CASE Ch(x, i + 2) = "nl"
      <4>1. i + 2 \in 1..Len(x)  BY <1>0, <3>4, CharAt DEF EOF
      <4>2. i + 3 \in 1..n /\ (i + 3) - 1 = i + 2  BY <1>0, <4>1
      <4>3. j + 3 = D[(i + 3) - 1] + 1  BY <1>0, <3>3, <4>2
      <4>4. Matches(D, i + 3, j + 3)  BY <4>3 DEF Matches
      <4>5. ValueTurn(x, v) = AllOfIt(i + 3, FALSE) /\ ValueTurn(y, w) = AllOfIt(j + 3, FALSE)
        BY <2>1, <2>4, <3>2, <3>3, <3>4
      <4> QED  BY <1>4, <1>9, <4>2, <4>4, <4>5 DEF Right
    <3>5. CASE Ch(x, i + 2) # "nl"
      <4>1. ValueTurn(x, v) = BadValue /\ ValueTurn(y, w) = BadValue
        BY <2>1, <2>4, <3>2, <3>3, <3>5
      <4> QED  BY <1>4, <4>1 DEF Right
    <3> QED  BY <3>4, <3>5
  <2>5. CASE next \notin {"nl", "cr"}
    <3>1. Ch(y, j + 1) = next  BY <2>2, <2>5
    <3>2. ValueTurn(x, v) = BadValue /\ ValueTurn(y, w) = BadValue  BY <2>1, <2>5, <3>1
    <3> QED  BY <1>4, <3>2 DEF Right
  <2> QED  BY <2>3, <2>4, <2>5
<1>13. CASE ch = "quote"
  <2>1. ValueTurn(x, v) = AllOfIt(i + 1, ~v.q) /\ ValueTurn(y, w) = AllOfIt(j + 1, ~v.q)
    BY <1>0, <1>1, <1>13, ValueTurnIs DEF i, j, ch
  <2>2. i + 1 \in 1..n /\ (i + 1) - 1 = i  BY <1>6, <1>13 DEF EOF
  <2>3. Matches(D, i + 1, j + 1)  BY <1>0, <2>2 DEF Matches
  <2>4. (~v.q) \in BOOLEAN  OBVIOUS
  <2> QED  BY <1>4, <1>9, <2>1, <2>2, <2>3, <2>4 DEF Right
<1>14. CASE ch \notin {"back", "quote", EOF, "nl"}
  <2> DEFINE a == IF v.q \/ ch \notin White THEN i + 1 ELSE v.end
             b == IF v.q \/ ch \notin White THEN j + 1 ELSE w.end
  <2>1. ValueTurn(x, v) = [at |-> i + 1, q |-> v.q, end |-> a]
    BY <1>0, <1>14, ValueTurnIs DEF i, ch
  <2>2. ValueTurn(y, w) = [at |-> j + 1, q |-> v.q, end |-> b]
    BY <1>0, <1>1, <1>14, ValueTurnIs DEF j
  <2>3. i + 1 \in 1..n /\ (i + 1) - 1 = i  BY <1>6, <1>14
  <2>4. Matches(D, i + 1, j + 1)  BY <1>0, <2>3 DEF Matches
  <2>5. v.end \in 1..n /\ Matches(D, v.end, w.end) /\ v.end \in Nat /\ w.end \in Nat
    BY DEF Beside, ValueState
  <2>6. a \in 1..n /\ Matches(D, a, b) /\ a \in Nat /\ b \in Nat
    BY <1>0, <2>3, <2>4, <2>5
  <2> HIDE DEF a, b
  <2>7. Beside(x, D, ValueTurn(x, v), ValueTurn(y, w))
    BY <1>0, <2>1, <2>2, <2>3, <2>4, <2>6 DEF Beside, ValueState
  <2> QED  BY <1>4, <2>7
<1> QED  BY <1>3, <1>10, <1>11, <1>12, <1>13, <1>14

\* y stands at a CR that was put there.
LEMMA BesideWait ==
  ASSUME NEW x, NEW y, NEW D, Dosed(x, y, D), NEW v, NEW w, Beside(x, D, v, w),
         w.at # D[v.at]
  PROVE  /\ Ch(x, v.at) = "nl" /\ v.at # 0 /\ ~ValueEnds(y, w)
         /\ LET u == ValueTurn(y, w)
            IN  /\ u \in ValueState /\ u.at = D[v.at] /\ u.q = v.q /\ u.at # 0
                /\ ~v.q => u.end = w.end
<1> DEFINE u == ValueTurn(y, w)
<1>0. /\ v \in ValueState /\ w \in ValueState /\ w.q = v.q /\ v.q \in BOOLEAN /\ w.end \in Nat
      /\ v.at \in 1..(Len(x) + 1) /\ w.at \in Nat /\ Len(x) \in Nat /\ Len(y) \in Nat
  BY DosPlaces DEF Beside, ValueState
<1>1. D[v.at] = w.at + 1 /\ Ch(y, w.at) = "cr" /\ Ch(x, v.at) = "nl" /\ w.at # 0
  <2>1. Matches(D, v.at, w.at)  BY DEF Beside
  <2>2. /\ w.at \in 1..(Len(y) + 1)
        /\ w.at # D[v.at] => D[v.at] = w.at + 1 /\ Ch(y, w.at) = "cr" /\ Ch(x, v.at) = "nl"
    BY <1>0, <2>1, MatchAt
  <2> QED  BY <1>0, <2>2
<1>2. ~ValueEnds(y, w)  BY <1>1 DEF ValueEnds, EOF
<1> DEFINE e == IF v.q \/ Ch(y, w.at) \notin White THEN w.at + 1 ELSE w.end
<1>3. u = [at |-> w.at + 1, q |-> v.q, end |-> e]
  BY <1>0, <1>1, ValueTurnIs DEF EOF
<1>4. e \in Nat /\ (~v.q => e = w.end)  BY <1>0, <1>1 DEF White
<1> HIDE DEF e, u
<1>5. u \in ValueState /\ u.at = w.at + 1 /\ u.q = v.q /\ u.end = e
  BY <1>0, <1>3, <1>4 DEF ValueState
<1>6. v.at # 0 /\ u.at # 0  BY <1>0, <1>5
<1> QED  BY <1>1, <1>2, <1>4, <1>5, <1>6 DEF u

\* Where the two loops end.
Alongside(x, D, g, h) ==
  \/ g.at = 0 /\ h.at = 0
  \/ /\ g.at \in 1..(Len(x) + 1) /\ h.at = D[g.at]
     /\ g.end \in 1..(Len(x) + 1) /\ Matches(D, g.end, h.end)

LEMMA DosValue ==
  ASSUME NEW x, NEW y, NEW D, Dosed(x, y, D), NEW v, NEW w, Beside(x, D, v, w)
  PROVE  Alongside(x, D, scanValString(x, v), scanValString(y, w))
<1> DEFINE g == ValueScan(x)
           h == ValueScan(y)
           Right(a) == \A b : Beside(x, D, a, b) => Alongside(x, D, g[a], h[b])
           Good == {a \in ValueState : Right(a)}
<1>0. Len(x) \in Nat /\ Len(y) \in Nat /\ x \in Seq(Char) /\ y \in Seq(Char)
  BY DosPlaces
<1>1. /\ \A a : scanValString(x, a) = g[a]
      /\ g = Looped(ValueState, ValueStops(x), ValueTurns(x), g)
      /\ \A a : scanValString(y, a) = h[a]
      /\ h = Looped(ValueState, ValueStops(y), ValueTurns(y), h)
  BY <1>0, ValueLoop
<1> HIDE DEF g, h
<1>2. \A a \in ValueState : g[a] = IF ValueEnds(x, a) THEN a ELSE g[ValueTurn(x, a)]
  BY <1>1 DEF Looped, ValueStops, ValueTurns
<1>3. \A a \in ValueState : h[a] = IF ValueEnds(y, a) THEN a ELSE h[ValueTurn(y, a)]
  BY <1>1 DEF Looped, ValueStops, ValueTurns
<1>4. g[BadValue] = BadValue /\ h[BadValue] = BadValue /\ BadValue.at = 0
  BY <1>2, <1>3, ValueParts DEF ValueEnds
<1>5. ASSUME NEW a \in ValueState, a \in ValueStops(x) \/ ValueTurns(x)[a] \in Good
      PROVE  a \in Good
  <2> SUFFICES ASSUME NEW b, Beside(x, D, a, b) PROVE Alongside(x, D, g[a], h[b])
    OBVIOUS
  <2>0. /\ b \in ValueState /\ b.q = a.q /\ b.at \in Nat
        /\ a.at \in 1..(Len(x) + 1) /\ a.at # 0
        /\ Matches(D, a.at, b.at) /\ a.end \in 1..(Len(x) + 1) /\ Matches(D, a.end, b.end)
    BY <1>0 DEF Beside, ValueState
  <2>1. Ch(y, D[a.at]) = Ch(x, a.at)  BY <2>0, DosPlaces
  <2>2. CASE b.at = D[a.at] /\ ValueEnds(x, a)
    <3>1. ValueEnds(y, b)
      BY <2>0, <2>1, <2>2 DEF ValueEnds
    <3>2. g[a] = a /\ h[b] = b  BY <1>2, <1>3, <2>0, <2>2, <3>1
    <3> QED  BY <2>0, <2>2, <3>2 DEF Alongside
  <2>3. CASE b.at = D[a.at] /\ ~ValueEnds(x, a)
    <3> DEFINE c == ValueTurn(x, a)
               d == ValueTurn(y, b)
    <3>1. /\ ~ValueEnds(y, b)
          /\ \/ c = BadValue /\ d = BadValue
             \/ Beside(x, D, c, d)
      BY <2>3, BesideTurn
    <3>2. g[a] = g[c] /\ h[b] = h[d]  BY <1>2, <1>3, <2>0, <2>3, <3>1
    <3>3. c \in Good  BY <1>5, <2>3 DEF ValueStops, ValueTurns
    <3> HIDE DEF c, d
    <3>4. CASE c = BadValue /\ d = BadValue
      <4>1. g[a].at = 0 /\ h[b].at = 0  BY <1>4, <3>2, <3>4
      <4> QED  BY <4>1 DEF Alongside
    <3>5. CASE Beside(x, D, c, d)  BY <3>2, <3>3, <3>5
    <3> QED  BY <3>1, <3>4, <3>5
  <2>4. CASE b.at # D[a.at]
    <3> DEFINE u == ValueTurn(y, b)
    <3>1. /\ Ch(x, a.at) = "nl" /\ ~ValueEnds(y, b)
          /\ u \in ValueState /\ u.at = D[a.at] /\ u.q = a.q /\ u.at # 0
          /\ ~a.q => u.end = b.end
      BY <2>4, BesideWait
    <3>2. h[b] = h[u]  BY <1>3, <2>0, <3>1
    <3> HIDE DEF u
    <3>3. Ch(y, u.at) = "nl"  BY <2>1, <3>1
    <3>4. CASE a.q
      <4>1. ~ValueEnds(x, a) /\ ~ValueEnds(y, u)  BY <2>0, <3>1, <3>4 DEF ValueEnds
      <4>2. ValueTurn(x, a) = BadValue /\ ValueTurn(y, u) = BadValue
        BY <3>1, <3>3, <3>4, ValueTurnIs
      <4>3. g[a] = BadValue /\ h[u] = BadValue  BY <1>2, <1>3, <1>4, <3>1, <4>1, <4>2
      <4>4. g[a].at = 0 /\ h[b].at = 0  BY <1>4, <3>2, <4>3
      <4> QED  BY <4>4 DEF Alongside
    <3>5. CASE ~a.q
      <4>1. ValueEnds(x, a) /\ ValueEnds(y, u)  BY <3>1, <3>3, <3>5 DEF ValueEnds
      <4>2. g[a] = a /\ h[u] = u  BY <1>2, <1>3, <3>1, <4>1
      <4>3. h[b] = u /\ u.end = b.end  BY <3>1, <3>2, <3>5, <4>2
      <4> QED  BY <2>0, <3>1, <4>2, <4>3 DEF Alongside
    <3> QED  BY <3>4, <3>5
  <2> QED  BY <2>2, <2>3, <2>4
<1>6. ValueState \subseteq Good
  <2> HIDE DEF Good
  <2> QED  BY <1>0, <1>5, ValueEnding, LoopInduction
<1>7. v \in ValueState  BY DEF Beside
<1>8. Right(v)  BY <1>6, <1>7
<1> QED  BY <1>1, <1>8

\* The tokens are the same but for their places.
Twins(x, D, a, b) ==
  /\ b.kind = a.kind
  /\ a.kind # "ERROR" => b.lit = a.lit /\ a.at \in 1..(Len(x) + 1) /\ Matches(D, a.at, b.at)

LEMMA TwinTokens ==
  ASSUME NEW x, NEW y, NEW D, Dosed(x, y, D),
         NEW kind, NEW l, NEW m, NEW s, NEW r, NEW i, NEW j,
         \/ i = 0 /\ j = 0
         \/ i \in 1..(Len(x) + 1) /\ Matches(D, i, j) /\ m = l
  PROVE  Twins(x, D, Token(x, kind, l, s, i), Token(y, kind, m, r, j))
<1> DEFINE a == Token(x, kind, l, s, i)
           b == Token(y, kind, m, r, j)
<1>1. /\ a.lit = l /\ a.at = i /\ b.lit = m /\ b.at = j
      /\ a.kind = IF i > 0 /\ Readable(x, i) THEN kind ELSE "ERROR"
      /\ b.kind = IF j > 0 /\ Readable(y, j) THEN kind ELSE "ERROR"
  BY TokenFields
<1> HIDE DEF a, b
<1>2. CASE i = 0 /\ j = 0
  <2>1. a.kind = "ERROR" /\ b.kind = "ERROR"  BY <1>1, <1>2
  <2>2. Twins(x, D, a, b)  BY <2>1 DEF Twins
  <2> QED  BY <2>2 DEF a, b
<1>3. CASE i \in 1..(Len(x) + 1) /\ Matches(D, i, j) /\ m = l
  <2>1. i > 0  BY <1>3
  <2>2. j > 0
    <3>1. j \in 1..(Len(y) + 1) /\ Len(y) \in Nat  BY <1>3, MatchAt, DosPlaces
    <3> QED  BY <3>1
  <2>3. Readable(y, j) <=> Readable(x, i)  BY <1>3, DosReadable
  <2>4. a.kind = b.kind  BY <1>1, <2>1, <2>2, <2>3
  <2>5. Twins(x, D, a, b)  BY <1>1, <1>3, <2>4 DEF Twins
  <2> QED  BY <2>5 DEF a, b
<1> QED  BY <1>2, <1>3

\* The next token of x and that of y.
LEMMA DosScan ==
  ASSUME NEW x, NEW y, NEW D, Dosed(x, y, D), NEW i \in 1..(Len(x) + 1), NEW j,
         Matches(D, i, j), NEW nextVal \in BOOLEAN
  PROVE  Twins(x, D, Scan(x, i, nextVal), Scan(y, j, nextVal))
<1> DEFINE n == Len(x) + 1
           s == Blank(x, i)
           p == TokenAt(x, i, nextVal)
           r == Blank(y, j)
           q == TokenAt(y, j, nextVal)
<1>0. n \in Nat /\ Len(x) \in Nat /\ Len(y) \in Nat /\ x \in Seq(Char) /\ y \in Seq(Char)
  BY DosPlaces
<1>1. s \in 1..n /\ p \in 1..n  BY <1>0, ScanPlaces
<1>2. EOF \notin White /\ EOF \notin Char \ {"nl"} /\ EOF \notin Letter \cup {"1"}
      /\ "cr" \in White /\ "cr" \in Char \ {"nl"}
      /\ "cr" \notin Letter \cup {"1"} /\ "nl" \notin Letter \cup {"1"}
  BY DEF EOF, White, Char, Letter
<1>3. r = D[s]  BY <1>2, DosSkips DEF Blank
<1> HIDE DEF s, r
<1>4. Ch(y, D[s]) = Ch(x, s) /\ Matches(D, s, D[s])  BY <1>1, DosPlaces DEF Matches
<1>5. q = D[p]
  <2>1. CASE ~nextVal /\ Ch(x, s) = "semi"
    <3>1. p = After(x, Char \ {"nl"}, s) /\ q = After(y, Char \ {"nl"}, r)
      BY <1>3, <1>4, <2>1 DEF TokenAt, s, r
    <3> QED  BY <1>1, <1>2, <1>3, <1>4, <3>1, DosSkips
  <2>2. CASE ~(~nextVal /\ Ch(x, s) = "semi")
    <3>1. p = s /\ q = r  BY <1>3, <1>4, <2>2 DEF TokenAt, s, r
    <3> QED  BY <1>3, <3>1
  <2> QED  BY <2>1, <2>2
<1>6. Scan(x, i, nextVal) = TokenFrom(x, s, p, nextVal)
      /\ Scan(y, j, nextVal) = TokenFrom(y, r, q, nextVal)
  BY ScanParts DEF s, r
<1> HIDE DEF p, q
<1>7. Ch(y, q) = Ch(x, p) /\ Matches(D, p, q) /\ q \in 1..(Len(y) + 1)
      /\ (p + 1) - 1 = p /\ p \in Nat /\ q \in Nat
  BY <1>0, <1>1, <1>5, DosPlaces, MatchAt DEF Matches
<1>8. SUFFICES Twins(x, D, TokenFrom(x, s, p, nextVal), TokenFrom(y, r, q, nextVal))
  BY <1>6
<1>9. Ch(x, p) # EOF => p \in 1..Len(x) /\ p + 1 \in 1..n  BY <1>0, <1>1, CharAt
<1>10. CASE nextVal
  <2> DEFINE v == scanValString(x, AllOfIt(p, FALSE))
             w == scanValString(y, AllOfIt(q, FALSE))
             l == stripCR(SubSeq(x, p, v.end - 1))
             m == stripCR(SubSeq(y, q, w.end - 1))
  <2>1. TokenFrom(x, s, p, nextVal) = Token(x, "STRING", l, s, v.at)
        /\ TokenFrom(y, r, q, nextVal) = Token(y, "STRING", m, r, w.at)
    BY <1>10 DEF TokenFrom, ValueFrom
  <2>2. Beside(x, D, AllOfIt(p, FALSE), AllOfIt(q, FALSE))  BY <1>1, <1>7, BesideAll
  <2>3. Alongside(x, D, v, w)  BY <2>2, DosValue
  <2>4. v.at = 0 \/ v.end \in p..n  BY <1>0, <1>1, ValueRight
  <2>5. l = Bare(x, p, v.end) /\ m = Bare(y, q, w.end)  BY DEF Bare
  <2> HIDE DEF v, w, l, m
  <2>6. CASE v.at = 0 /\ w.at = 0  BY <2>1, <2>6, TwinTokens
  <2>7. CASE /\ v.at \in 1..n /\ w.at = D[v.at] /\ v.end \in 1..n
             /\ Matches(D, v.end, w.end)
    <3>1. v.at # 0  BY <2>7
    <3>2. v.end \in p..n  BY <2>4, <3>1
    <3>3. m = l  BY <1>1, <1>5, <2>5, <2>7, <3>2, DosBare
    <3>4. Matches(D, v.at, w.at)  BY <2>7 DEF Matches
    <3> QED  BY <2>1, <2>7, <3>3, <3>4, TwinTokens
  <2> QED  BY <2>3, <2>6, <2>7 DEF Alongside
<1>11. CASE ~nextVal /\ Ch(x, p) \in Letter
  <2> DEFINE S == Letter \cup {"1"}
             a == After(x, S, p)
             b == After(y, S, q)
             l == SubSeq(x, p, a - 1)
             m == SubSeq(y, q, b - 1)
  <2>1. TokenFrom(x, s, p, nextVal) = Token(x, "IDENT", l, s, a)
        /\ TokenFrom(y, r, q, nextVal) = Token(y, "IDENT", m, r, b)
    BY <1>7, <1>11 DEF TokenFrom, IdentFrom
  <2>2. Ch(x, p) \in S  BY <1>11
  <2>3. /\ a \in 1..n /\ a > p /\ b = D[a - 1] + 1
        /\ SameText(x, p, a - 1, y, q, D[a - 1])
    <3> HIDE DEF S
    <3>1. EOF \notin S /\ "cr" \notin S /\ "nl" \notin S  BY <1>2 DEF S
    <3> QED  BY <1>1, <1>5, <2>2, <3>1, DosName
  <2>4. m = l
    <3>1. D[a - 1] \in Nat
      <4>1. Matches(D, a, b)  BY <2>3 DEF Matches
      <4> QED  BY <2>3, <4>1, MatchAt
    <3>2. b - 1 = D[a - 1]  BY <2>3, <3>1
    <3> QED  BY <2>3, <3>2 DEF SameText
  <2>5. Matches(D, a, b)  BY <2>3 DEF Matches
  <2> HIDE DEF a, b, l, m
  <2> QED  BY <2>1, <2>3, <2>4, <2>5, TwinTokens
<1>12. CASE ~nextVal /\ Ch(x, p) = "quote"
  <2> DEFINE e == scanString(x, p + 1)
             f == scanString(y, q + 1)
             a == IF e = 0 THEN 0 ELSE e + 1
             b == IF f = 0 THEN 0 ELSE f + 1
             l == SubSeq(x, p, e)
             m == SubSeq(y, q, f)
  <2>1. TokenFrom(x, s, p, nextVal) = Token(x, "STRING", l, s, a)
        /\ TokenFrom(y, r, q, nextVal) = Token(y, "STRING", m, r, b)
    BY <1>7, <1>12 DEF TokenFrom, StringFrom, Letter
  <2>2. p \in 1..Len(x) /\ p + 1 \in 1..n  BY <1>9, <1>12 DEF EOF
  <2>3. q + 1 = D[(p + 1) - 1] + 1  BY <1>5, <1>7
  <2>4. /\ e = 0 => f = 0
        /\ e # 0 => /\ e \in (p + 1)..Len(x) /\ f = D[e]
                    /\ \A k \in (p + 1)..e : Ch(x, k) # "nl"
    BY <2>2, <2>3, DosString
  <2> HIDE DEF e, f
  <2>5. CASE e = 0
    <3>1. a = 0 /\ b = 0  BY <2>4, <2>5
    <3> HIDE DEF a, b, l, m
    <3> QED  BY <2>1, <3>1, TwinTokens
  <2>6. CASE e # 0
    <3>1. e \in p..Len(x) /\ OnOneLine(x, p, e) /\ e \in 1..n /\ e + 1 \in 1..n
          /\ (e + 1) - 1 = e
      BY <1>0, <2>2, <2>4, <2>6 DEF OnOneLine
    <3>2. f # 0
      <4>1. Matches(D, e, f)  BY <2>4, <2>6 DEF Matches
      <4>2. f \in 1..(Len(y) + 1)  BY <3>1, <4>1, MatchAt
      <4> QED  BY <1>0, <4>2
    <3>3. a = e + 1 /\ b = D[e] + 1 /\ Matches(D, a, b)
      BY <2>4, <2>6, <3>1, <3>2 DEF Matches
    <3>4. SameText(x, p, e, y, q, f)  BY <1>5, <2>2, <2>4, <2>6, <3>1, DosStretch
    <3>5. m = l  BY <3>4 DEF SameText
    <3>6. a \in 1..n  BY <3>1, <3>3
    <3> HIDE DEF a, b, l, m
    <3> QED  BY <2>1, <3>3, <3>5, <3>6, TwinTokens
  <2> QED  BY <2>5, <2>6
<1>13. CASE ~nextVal /\ Ch(x, p) = EOF
  <2>1. TokenFrom(x, s, p, nextVal) = Token(x, "EOF", << >>, s, p)
        /\ TokenFrom(y, r, q, nextVal) = Token(y, "EOF", << >>, r, q)
    BY <1>7, <1>13 DEF TokenFrom, EndFrom, Letter, EOF
  <2> QED  BY <1>1, <1>7, <2>1, TwinTokens
<1>14. CASE ~nextVal /\ Ch(x, p) \notin Letter \cup {"quote", EOF}
  <2> DEFINE kind == KindOf(Ch(x, p))
  <2>1. TokenFrom(x, s, p, nextVal) = Token(x, kind, << >>, s, p + 1)
        /\ TokenFrom(y, r, q, nextVal) = Token(y, kind, << >>, r, q + 1)
    BY <1>7, <1>14 DEF TokenFrom, OneFrom
  <2> HIDE DEF kind
  <2>2. p + 1 \in 1..n  BY <1>9, <1>14
  <2>3. Matches(D, p + 1, q + 1)  BY <1>5, <1>7 DEF Matches
  <2> QED  BY <2>1, <2>2, <2>3, TwinTokens
<1> QED  BY <1>10, <1>11, <1>12, <1>13, <1>14

-----------------------------------------------------------------------------
(* A reading of x and one of y: they differ in places only.                *)

Alike(x, D, p, q) ==
  /\ IsParser(p) /\ Twins(x, D, p.t, q.t)
  /\ q = ParserState(q.t, p.want, p.sect, p.sub, p.name, p.val, p.config, p.result, q.stmt)

LEMMA AlikeFields ==
  ASSUME NEW x, NEW D, NEW p, NEW q, Alike(x, D, p, q)
  PROVE  /\ q.want = p.want /\ q.sect = p.sect /\ q.sub = p.sub /\ q.name = p.name
         /\ q.val = p.val /\ q.config = p.config /\ q.result = p.result
         /\ q.t.kind = p.t.kind /\ (p.t.kind # "ERROR" => q.t.lit = p.t.lit)
         /\ Twins(x, D, p.t, q.t)
<1>1. q = ParserState(q.t, p.want, p.sect, p.sub, p.name, p.val, p.config, p.result, q.stmt)
  BY DEF Alike
<1>2. /\ q.want = p.want /\ q.sect = p.sect /\ q.sub = p.sub /\ q.name = p.name
      /\ q.val = p.val /\ q.config = p.config /\ q.result = p.result
  BY <1>1, ParserStateFields
<1>3. Twins(x, D, p.t, q.t)  BY DEF Alike
<1>4. q.t.kind = p.t.kind /\ (p.t.kind # "ERROR" => q.t.lit = p.t.lit)  BY <1>3 DEF Twins
<1> QED  BY <1>2, <1>3, <1>4

LEMMA AlikeStates ==
  ASSUME NEW x, NEW D, NEW a, NEW b, NEW c, NEW d, NEW e, NEW f, NEW g, NEW h, NEW i,
         NEW u, NEW s, Twins(x, D, a, u),
         NEW p, p = ParserState(a, b, c, d, e, f, g, h, i),
         NEW q, q = ParserState(u, b, c, d, e, f, g, h, s)
  PROVE  Alike(x, D, p, q)
<1>1. /\ p.t = a /\ p.want = b /\ p.sect = c /\ p.sub = d /\ p.name = e /\ p.val = f
      /\ p.config = g /\ p.result = h /\ p.stmt = i
  BY ParserStateFields
<1>2. q.t = u /\ q.stmt = s  BY ParserStateFields
<1>3. IsParser(p)  BY <1>1 DEF IsParser
<1> QED  BY <1>1, <1>2, <1>3 DEF Alike

\* What both set to the same leaves them alike.
LEMMA AlikePut ==
  ASSUME NEW x, NEW D, NEW p, NEW q, Alike(x, D, p, q), NEW z, NEW s
  PROVE  /\ Alike(x, D, Put(p, "want", z), Put(q, "want", z))
         /\ Alike(x, D, Put(p, "sect", z), Put(q, "sect", z))
         /\ Alike(x, D, Put(p, "sub", z), Put(q, "sub", z))
         /\ Alike(x, D, Put(p, "name", z), Put(q, "name", z))
         /\ Alike(x, D, Put(p, "val", z), Put(q, "val", z))
         /\ Alike(x, D, Put(p, "config", z), Put(q, "config", z))
         /\ Alike(x, D, Put(p, "result", z), Put(q, "result", z))
         /\ Alike(x, D, Put(p, "stmt", z), Put(q, "stmt", s))
         /\ Twins(x, D, z, s) => Alike(x, D, Put(p, "t", z), Put(q, "t", s))
<1>0. Twins(x, D, p.t, q.t)  BY DEF Alike
<1>1. p = ParserState(p.t, p.want, p.sect, p.sub, p.name, p.val, p.config, p.result, p.stmt)
  BY DEF Alike, IsParser
<1>2. q = ParserState(q.t, p.want, p.sect, p.sub, p.name, p.val, p.config, p.result, q.stmt)
  BY DEF Alike
<1>3. Alike(x, D, Put(p, "want", z), Put(q, "want", z))
  BY <1>0, <1>1, <1>2, ParserStatePut, AlikeStates
<1>4. Alike(x, D, Put(p, "sect", z), Put(q, "sect", z))
  BY <1>0, <1>1, <1>2, ParserStatePut, AlikeStates
<1>5. Alike(x, D, Put(p, "sub", z), Put(q, "sub", z))
  BY <1>0, <1>1, <1>2, ParserStatePut, AlikeStates
<1>6. Alike(x, D, Put(p, "name", z), Put(q, "name", z))
  BY <1>0, <1>1, <1>2, ParserStatePut, AlikeStates
<1>7. Alike(x, D, Put(p, "val", z), Put(q, "val", z))
  BY <1>0, <1>1, <1>2, ParserStatePut, AlikeStates
<1>8. Alike(x, D, Put(p, "config", z), Put(q, "config", z))
  BY <1>0, <1>1, <1>2, ParserStatePut, AlikeStates
<1>9. Alike(x, D, Put(p, "result", z), Put(q, "result", z))
  BY <1>0, <1>1, <1>2, ParserStatePut, AlikeStates
<1>10. Alike(x, D, Put(p, "stmt", z), Put(q, "stmt", s))
  BY <1>0, <1>1, <1>2, ParserStatePut, AlikeStates
<1>11. ASSUME Twins(x, D, z, s) PROVE Alike(x, D, Put(p, "t", z), Put(q, "t", s))
  BY <1>1, <1>2, <1>11, ParserStatePut, AlikeStates
<1> QED  BY <1>3, <1>4, <1>5, <1>6, <1>7, <1>8, <1>9, <1>10, <1>11

LEMMA AlikeConsumes ==
  ASSUME NEW x, NEW D, NEW p, NEW q, Alike(x, D, p, q)
  PROVE  Consumes(q) <=> Consumes(p)
<1>1. /\ q.want = p.want /\ q.sect = p.sect
      /\ q.t.kind = p.t.kind /\ (p.t.kind # "ERROR" => q.t.lit = p.t.lit)
  BY AlikeFields
<1>2. CASE p.t.kind = "ERROR"  BY <1>1, <1>2 DEF Consumes
<1>3. CASE p.t.kind # "ERROR"  BY <1>1, <1>3 DEF Consumes
<1> QED  BY <1>2, <1>3

LEMMA AlikeMoved ==
  ASSUME NEW x, NEW D, NEW p, NEW q, Alike(x, D, p, q), Consumes(p)
  PROVE  Alike(x, D, Moved(p), Moved(q))
<1> DEFINE k == p.t.kind
           u == unquote(p.t.lit)
           m == Moved(p)
           n == Moved(q)
<1>a. k # "ERROR"  BY DEF Consumes
<1>b. q.want = p.want /\ q.t.kind = k /\ q.t.lit = p.t.lit  BY <1>a, AlikeFields
<1>1. CASE p.want = "statement" /\ k = "EOL"
  <2>1. m = p /\ n = q  BY <1>1, <1>b DEF Moved
  <2> QED  BY <2>1
<1>2. CASE p.want = "statement" /\ k = "LBRACK"
  <2>1. /\ m = Put(Put(p, "want", "section"), "stmt", p.t.start)
        /\ n = Put(Put(q, "want", "section"), "stmt", q.t.start)
    BY <1>2, <1>b DEF Moved
  <2> HIDE DEF m, n
  <2> QED  BY <2>1, AlikePut DEF m, n
<1>3. CASE p.want = "statement" /\ k = "IDENT"
  <2>1. /\ m = Put(Put(Put(p, "want", "assign"), "name", p.t.lit), "stmt", p.t.start)
        /\ n = Put(Put(Put(q, "want", "assign"), "name", p.t.lit), "stmt", q.t.start)
    BY <1>3, <1>b DEF Moved
  <2> HIDE DEF m, n
  <2> QED  BY <2>1, AlikePut DEF m, n
<1>4. CASE p.want = "section" /\ k = "IDENT"
  <2>1. /\ m = Put(Put(Put(p, "sect", p.t.lit), "sub", << >>), "want", "subsection")
        /\ n = Put(Put(Put(q, "sect", p.t.lit), "sub", << >>), "want", "subsection")
    BY <1>4, <1>b DEF Moved
  <2> HIDE DEF m, n
  <2> QED  BY <2>1, AlikePut DEF m, n
<1>5. CASE p.want \in {"subsection", "bracket"} /\ k = "RBRACK"
  <2> DEFINE w == "header end"
  <2>1. m = Put(p, "want", w) /\ n = Put(q, "want", w)  BY <1>5, <1>b DEF Moved
  <2> HIDE DEF m, n, w
  <2> QED  BY <2>1, AlikePut DEF m, n
<1>6. CASE p.want = "subsection" /\ k = "STRING"
  <2>1. /\ m = Put(Put(p, "sub", u.out), "want", "bracket")
        /\ n = Put(Put(q, "sub", u.out), "want", "bracket")
    BY <1>6, <1>b DEF Moved
  <2> HIDE DEF m, n, u
  <2> QED  BY <2>1, AlikePut DEF m, n
<1>7. CASE p.want = "assign" /\ k = "ASSIGN"
  <2>1. m = Put(p, "want", "value") /\ n = Put(q, "want", "value")  BY <1>7, <1>b DEF Moved
  <2> HIDE DEF m, n
  <2> QED  BY <2>1, AlikePut DEF m, n
<1>8. CASE p.want = "value" /\ k = "STRING"
  <2> DEFINE w == "value end"
  <2>1. m = Put(Put(p, "val", u.out), "want", w) /\ n = Put(Put(q, "val", u.out), "want", w)
    BY <1>8, <1>b DEF Moved
  <2> HIDE DEF m, n, u, w
  <2> QED  BY <2>1, AlikePut DEF m, n
<1> QED  BY <1>1, <1>2, <1>3, <1>4, <1>5, <1>6, <1>7, <1>8 DEF Consumes

LEMMA AlikeSetting ==
  ASSUME NEW x, NEW D, NEW p, NEW q, Alike(x, D, p, q), NEW blank \in BOOLEAN, NEW v
  PROVE  Alike(x, D, Setting(p, blank, v), Setting(q, blank, v))
<1>1. /\ q.sect = p.sect /\ q.sub = p.sub /\ q.name = p.name /\ q.config = p.config
  BY AlikeFields
<1>2. Known(q) = Known(p) /\ Takes(q, blank, v) = Takes(p, blank, v)
  BY <1>1 DEF Known, Takes
<1>3. Sectioned(q) = Sectioned(p)  BY <1>1 DEF Sectioned
<1> DEFINE c == Storing(p, Sectioned(p), blank, v)
<1>4. Storing(q, Sectioned(q), blank, v) = c  BY <1>1, <1>3 DEF Storing
<1> HIDE DEF c
<1>5. CASE Known(p) /\ Takes(p, blank, v)
  <2>1. /\ Setting(p, blank, v) = Put(Put(p, "config", c), "want", "statement")
        /\ Setting(q, blank, v) = Put(Put(q, "config", c), "want", "statement")
    BY <1>2, <1>4, <1>5 DEF Setting, c
  <2> QED  BY <2>1, AlikePut
<1>6. CASE ~(Known(p) /\ Takes(p, blank, v))
  <2> DEFINE d == Refusing(p, blank, v)
  <2>1. /\ Setting(p, blank, v) = Put(Put(p, "config", d), "result", "error")
        /\ Setting(q, blank, v) = Put(Put(q, "config", d), "result", "error")
    BY <1>1, <1>2, <1>3, <1>6 DEF Setting, Refusing, Halved
  <2> HIDE DEF d
  <2> QED  BY <2>1, AlikePut
<1> QED  BY <1>5, <1>6

LEMMA AlikeRested ==
  ASSUME NEW x, NEW D, NEW p, NEW q, Alike(x, D, p, q)
  PROVE  Alike(x, D, Rested(p), Rested(q))
<1> DEFINE k == p.t.kind
           end == k \in {"EOL", "EOF"}
           panic == unquote(p.t.lit).panic
           m == Rested(p)
           n == Rested(q)
<1>a. q.want = p.want /\ q.t.kind = k /\ q.val = p.val /\ (k # "ERROR" => q.t.lit = p.t.lit)
  BY AlikeFields
<1>1. CASE p.want = "statement" /\ k = "EOF"
  <2>1. m = Put(p, "result", "ok") /\ n = Put(q, "result", "ok")
    BY <1>1, <1>a DEF Rested
  <2> HIDE DEF m, n
  <2> QED  BY <2>1, AlikePut DEF m, n
<1>2. CASE p.want = "statement" /\ k # "EOF"
  <2>1. /\ m = Put(Put(p, "result", "error"), "stmt", p.t.start)
        /\ n = Put(Put(q, "result", "error"), "stmt", q.t.start)
    BY <1>2, <1>a DEF Rested
  <2> HIDE DEF m, n
  <2> QED  BY <2>1, AlikePut DEF m, n
<1>3. CASE p.want # "statement"
  <2>1. ASSUME NEW z, m = Put(p, "result", z), n = Put(q, "result", z) PROVE Alike(x, D, m, n)
    <3> HIDE DEF m, n
    <3> QED  BY <2>1, AlikePut
  <2>2. ASSUME m = Put(p, "want", "statement"), n = Put(q, "want", "statement")
        PROVE  Alike(x, D, m, n)
    <3> HIDE DEF m, n
    <3> QED  BY <2>2, AlikePut
  <2>3. ASSUME NEW blank \in BOOLEAN, NEW v, m = Setting(p, blank, v), n = Setting(q, blank, v)
        PROVE  Alike(x, D, m, n)
    <3> HIDE DEF m, n
    <3> QED  BY <2>3, AlikeSetting
  <2>4. CASE p.want \in {"subsection", "value"}
    <3>1. CASE k = "STRING" /\ panic
      <4>1. m = Put(p, "result", "panic") /\ n = Put(q, "result", "panic")
        BY <1>3, <1>a, <2>4, <3>1 DEF Rested
      <4> HIDE DEF m, n
      <4> QED  BY <2>1, <4>1 DEF m, n
    <3>2. CASE ~(k = "STRING" /\ panic)
      <4>1. m = Put(p, "result", "error") /\ n = Put(q, "result", "error")
        BY <1>3, <1>a, <2>4, <3>2 DEF Rested
      <4> HIDE DEF m, n
      <4> QED  BY <2>1, <4>1 DEF m, n
    <3> QED  BY <3>1, <3>2
  <2>5. CASE p.want = "header end" /\ end
    <3>1. m = Put(p, "want", "statement") /\ n = Put(q, "want", "statement")
      BY <1>3, <1>a, <2>5 DEF Rested
    <3> HIDE DEF m, n
    <3> QED  BY <2>2, <3>1 DEF m, n
  <2>6. CASE p.want = "assign" /\ end
    <3>1. m = Setting(p, TRUE, << >>) /\ n = Setting(q, TRUE, << >>)
      BY <1>3, <1>a, <2>6 DEF Rested
    <3> HIDE DEF m, n
    <3> QED  BY <2>3, <3>1 DEF m, n
  <2>7. CASE p.want = "value end" /\ end
    <3>1. m = Setting(p, FALSE, p.val) /\ n = Setting(q, FALSE, p.val)
      BY <1>3, <1>a, <2>7 DEF Rested
    <3> HIDE DEF m, n
    <3> QED  BY <2>3, <3>1 DEF m, n
  <2>8. CASE /\ p.want \notin {"subsection", "value"}
             /\ p.want \in {"header end", "assign", "value end"} => ~end
    <3>1. m = Put(p, "result", "error") /\ n = Put(q, "result", "error")
      BY <1>3, <1>a, <2>8 DEF Rested
    <3> HIDE DEF m, n
    <3> QED  BY <2>1, <3>1 DEF m, n
  <2> HIDE DEF m, n, end
  <2> QED  BY <2>4, <2>5, <2>6, <2>7, <2>8 DEF m, n
<1> QED  BY <1>1, <1>2, <1>3

LEMMA AlikeShift ==
  ASSUME NEW x, NEW y, NEW D, Dosed(x, y, D), NEW p, NEW q, Alike(x, D, p, q)
  PROVE  Alike(x, D, Shift(x, p), Shift(y, q))
<1>1. CASE Consumes(p)
  <2>1. Consumes(q)  BY <1>1, AlikeConsumes
  <2>2. p.t.kind # "ERROR"  BY <1>1 DEF Consumes
  <2>3. /\ q.t.kind = p.t.kind /\ p.t.at \in 1..(Len(x) + 1) /\ Matches(D, p.t.at, q.t.at)
    BY <2>2, AlikeFields DEF Twins
  <2> DEFINE a == NextOf(x, p)
             b == NextOf(y, q)
  <2>4. Twins(x, D, a, b)
    <3>1. (p.t.kind = "ASSIGN") \in BOOLEAN  OBVIOUS
    <3> QED  BY <2>3, <3>1, DosScan DEF NextOf
  <2>5. Shift(x, p) = Put(Moved(p), "t", a) /\ Shift(y, q) = Put(Moved(q), "t", b)
    BY <1>1, <2>1 DEF Shift
  <2> HIDE DEF a, b
  <2>6. Alike(x, D, Moved(p), Moved(q))  BY <1>1, AlikeMoved
  <2> QED  BY <2>4, <2>5, <2>6, AlikePut
<1>2. CASE ~Consumes(p)
  <2>1. ~Consumes(q)  BY <1>2, AlikeConsumes
  <2>2. Shift(x, p) = Rested(p) /\ Shift(y, q) = Rested(q)  BY <1>2, <2>1 DEF Shift
  <2> QED  BY <2>2, AlikeRested
<1> QED  BY <1>1, <1>2

\* The two readings go in step, so they end with the same result.
LEMMA DosReads ==
  ASSUME NEW x, NEW y, NEW D, Dosed(x, y, D),
         NEW r, NEW n, Path(x, r, n), r[n].result # "reading",
         NEW w, NEW m, Path(y, w, m), w[m].result # "reading"
  PROVE  w[m].result = r[n].result /\ w[m].config = r[n].config
<1> DEFINE G == {k \in 0..m : k <= n /\ Alike(x, D, r[k], w[k])}
<1>0. n \in Nat /\ m \in Nat /\ Len(x) \in Nat /\ Len(y) \in Nat
  BY DosPlaces DEF Path
<1>1. /\ \A k \in 0..(n - 1) : r[k].result = "reading" /\ r[k + 1] = Shift(x, r[k])
      /\ \A k \in 0..(m - 1) : w[k].result = "reading" /\ w[k + 1] = Shift(y, w[k])
      /\ r[0] = Start(x) /\ w[0] = Start(y)
  BY DEF Path
<1>2. 0 \in G
  <2> DEFINE a == Scan(x, 1, FALSE)
             b == Scan(y, 1, FALSE)
  <2>1. Twins(x, D, a, b)
    <3>1. 1 \in 1..(Len(x) + 1) /\ 1 - 1 = 0 /\ 0 + 1 = 1  BY <1>0
    <3>2. D[0] = 0  BY DosPlaces
    <3>3. Matches(D, 1, 1)  BY <3>1, <3>2 DEF Matches
    <3> QED  BY <3>1, <3>3, DosScan
  <2>2. /\ Start(x) =
              ParserState(a, "statement", << >>, << >>, << >>, << >>, << >>, "reading", 1)
        /\ Start(y) =
              ParserState(b, "statement", << >>, << >>, << >>, << >>, << >>, "reading", 1)
    BY DEF Start
  <2> HIDE DEF a, b
  <2>3. Alike(x, D, Start(x), Start(y))  BY <2>1, <2>2, AlikeStates
  <2> QED  BY <1>0, <1>1, <2>3
<1>3. ASSUME NEW k \in 0..(m - 1), k \in G PROVE k + 1 \in G
  <2>1. k \in Nat /\ k <= n /\ Alike(x, D, r[k], w[k])  BY <1>3
  <2>2. r[k].result = "reading"
    <3>1. w[k].result = "reading"  BY <1>1
    <3> QED  BY <2>1, <3>1, AlikeFields
  <2>3. k # n  BY <2>2
  <2>4. k \in 0..(n - 1) /\ k + 1 \in 0..m /\ k + 1 <= n  BY <1>0, <2>1, <2>3
  <2>5. r[k + 1] = Shift(x, r[k]) /\ w[k + 1] = Shift(y, w[k])  BY <1>1, <2>4
  <2>6. Alike(x, D, r[k + 1], w[k + 1])  BY <2>1, <2>5, AlikeShift
  <2> QED  BY <2>4, <2>6
<1> HIDE DEF G
<1>4. \A k \in 0..m : k \in G  BY <1>0, <1>2, <1>3, Counting
<1>5. m \in G  BY <1>0, <1>4
<1>6. m <= n /\ Alike(x, D, r[m], w[m])  BY <1>5 DEF G
<1>7. w[m].result = r[m].result /\ w[m].config = r[m].config  BY <1>6, AlikeFields
<1>8. m = n
  <2>1. m # n => m \in 0..(n - 1)  BY <1>0, <1>6
  <2>2. r[m].result # "reading"  BY <1>7
  <2> QED  BY <1>1, <2>1, <2>2
<1> QED  BY <1>7, <1>8

\* Every reading of the text y ends like the one that f tells of.
SameEnd(y, f) ==
  \A w, m : Path(y, w, m) /\ w[m].result # "reading" =>
              w[m].result = f.result /\ w[m].config = f.config

LEMMA DosEnd ==
  ASSUME NEW x \in Seq(Char), NEW r, NEW n, Path(x, r, n), r[n].result # "reading",
         NEW f, f.result = r[n].result, f.config = r[n].config
  PROVE  SameEnd(Dos(x), f)
<1> DEFINE y == Dos(x)
<1>1. PICK D : Dosed(x, y, D)  BY DosMap
<1> HIDE DEF y
<1>2. ASSUME NEW w, NEW m, Path(y, w, m), w[m].result # "reading"
      PROVE  w[m].result = f.result /\ w[m].config = f.config
  BY <1>1, <1>2, DosReads
<1>3. SameEnd(y, f)  BY <1>2 DEF SameEnd
<1> QED  BY <1>3 DEF y

DosInv == first.how = "dos" => SameEnd(src, first)

LEMMA RereadDosInv ==
  ASSUME GInv, CutInv, Reread
  PROVE  DosInv'
<1>1. CASE first'.how # "dos"  BY <1>1 DEF DosInv
<1>2. CASE first'.how = "dos"
  <2> DEFINE f == ReadAs("dos")
  <2>1. result # "reading" /\ src' = Dos(src) /\ first' = f  BY <1>2 DEF Reread, ReadAs
  <2>2. src \in Seq(Char)  BY DEF GInv, Text
  <2>3. PICK r, n : Path(src, r, n) /\ r[n] = Parser  BY DEF CutInv, OnAPath
  <2>4. r[n].result = result /\ r[n].config = config  BY <2>3, ParserFields
  <2>5. f.result = result /\ f.config = config  BY DEF ReadAs
  <2> DEFINE y == Dos(src)
  <2> HIDE DEF f
  <2>6. SameEnd(y, f)  BY <2>1, <2>2, <2>3, <2>4, <2>5, DosEnd
  <2> HIDE DEF y
  <2>7. src' = y /\ first' = f  BY <2>1 DEF y
  <2> QED  BY <2>6, <2>7 DEF DosInv, SameEnd
<1> QED  BY <1>1, <1>2

LEMMA InitDosInv == Init => DosInv
BY DEF Init, Fresh, DosInv

LEMMA NextDosInv == GInv /\ CutInv /\ DosInv /\ [Next]_vars => DosInv'
<1> SUFFICES ASSUME GInv, CutInv, DosInv, [Next]_vars PROVE DosInv'  OBVIOUS
<1>1. CASE UNCHANGED vars
  <2>1. src' = src /\ first' = first  BY <1>1, SameParser
  <2> QED  BY <2>1 DEF DosInv, SameEnd
<1>2. CASE Read
  <2>1. src' = src /\ first' = first  BY <1>2 DEF Read
  <2> QED  BY <2>1 DEF DosInv, SameEnd
<1> QED  BY <1>1, <1>2, RereadDosInv DEF Next

\* A configuration reads the same whether its lines end with LF or with CR LF
\* (Reread), for every text: the result is the same and so is all that was set.
THEOREM LineEndingsRight == Spec => []LineEndingsAgree
<1>1. CutInv /\ DosInv => LineEndingsAgree
  <2> SUFFICES ASSUME CutInv, DosInv, first.how = "dos", result # "reading"
               PROVE  result = first.result /\ config = first.config
    BY DEF LineEndingsAgree
  <2>1. PICK r, n : Path(src, r, n) /\ r[n] = Parser  BY DEF CutInv, OnAPath
  <2>2. r[n].result = result /\ r[n].config = config  BY <2>1, ParserFields
  <2> QED  BY <2>1, <2>2 DEF DosInv, SameEnd
<1> QED
  BY <1>1, InitGInv, NextGInv, InitCutInv, NextCutInv, InitDosInv, NextDosInv, PTL DEF Spec

---------------------------------------------------------------------------
(* What a value means, place by place: whether a place is escaped and      *)
(* whether it stands in quotes is told by the place before, as unquote     *)
(* does it, and what is kept is picked one place after the other.          *)

\* The sets that Written counts.
BackRun(x, k) == {j \in 1..(k - 1) : \A m \in j..(k - 1) : x[m] = "back"}
QuotesTo(x, k) == {j \in 1..(k - 1) : x[j] = "quote" /\ ~EscapedAt(x, j)}

LEMMA Odd == \A n \in Nat : (n + 1) % 2 = 1 <=> ~(n % 2 = 1)
OBVIOUS

\* Whether a place is escaped and whether it is quoted depends on the place before.
LEMMA EscapedNext ==
  ASSUME NEW x, NEW k \in Nat \ {0}
  PROVE  /\ ~EscapedAt(x, 1)
         /\ EscapedAt(x, k + 1) <=> x[k] = "back" /\ ~EscapedAt(x, k)
<1> DEFINE R == BackRun(x, k)
           S == BackRun(x, k + 1)
<1>1. \A i : EscapedAt(x, i) <=> Cardinality(BackRun(x, i)) % 2 = 1
  BY DEF EscapedAt, BackRun
<1>2. ~EscapedAt(x, 1)
  <2>1. BackRun(x, 1) = {}  BY DEF BackRun
  <2>2. Cardinality(BackRun(x, 1)) = 0  BY <2>1, FS_EmptySet
  <2>3. ~(0 % 2 = 1)  OBVIOUS
  <2> QED  BY <1>1, <2>2, <2>3
<1>3. k - 1 \in Int /\ (k + 1) - 1 = k  OBVIOUS
<1>4. R \subseteq 1..(k - 1) /\ IsFiniteSet(1..(k - 1))  BY <1>3, FS_Interval DEF BackRun
<1>5. IsFiniteSet(R)  BY <1>4, FS_Subset
<1>6. Cardinality(R) \in Nat /\ k \notin R  BY <1>4, <1>5, FS_CardinalityType
<1>7. CASE x[k] = "back"
  <2>1. S = R \cup {k}
    <3>1. ASSUME NEW j \in 1..k PROVE j \in S <=> j \in R \cup {k}
      <4>1. j = k => j \in S  BY <1>7 DEF BackRun
      <4>2. ASSUME j # k PROVE j \in S <=> j \in R
        <5>1. j \in 1..(k - 1) /\ j..k = (j..(k - 1)) \cup {k}  BY <4>2
        <5> QED  BY <1>3, <1>7, <5>1 DEF BackRun
      <4> QED  BY <4>1, <4>2
    <3>2. S \subseteq 1..k /\ R \cup {k} \subseteq 1..k  BY <1>3, <1>4 DEF BackRun
    <3> QED  BY <3>1, <3>2
  <2> HIDE DEF R, S
  <2>2. Cardinality(S) = Cardinality(R) + 1  BY <1>5, <1>6, <2>1, FS_AddElement
  <2>3. EscapedAt(x, k + 1) <=> ~EscapedAt(x, k)  BY <1>1, <1>6, <2>2, Odd DEF R, S
  <2> QED  BY <1>2, <1>7, <2>3
<1>8. CASE x[k] # "back"
  <2>1. S = {}
    <3>1. \A j \in 1..k : k \in j..k  OBVIOUS
    <3> QED  BY <1>3, <1>8, <3>1 DEF BackRun
  <2>2. Cardinality(S) = 0 /\ ~(0 % 2 = 1)  BY <2>1, FS_EmptySet
  <2> QED  BY <1>1, <1>2, <1>8, <2>2
<1> QED  BY <1>7, <1>8

LEMMA QuotedNext ==
  ASSUME NEW x, NEW k \in Nat \ {0}
  PROVE  /\ ~QuotedAt(x, 1)
         /\ QuotedAt(x, k + 1) <=> IF x[k] = "quote" /\ ~EscapedAt(x, k)
                                   THEN ~QuotedAt(x, k) ELSE QuotedAt(x, k)
<1> DEFINE R == QuotesTo(x, k)
           S == QuotesTo(x, k + 1)
<1>1. \A i : QuotedAt(x, i) <=> Cardinality(QuotesTo(x, i)) % 2 = 1
  BY DEF QuotedAt, QuotesTo
<1>2. ~QuotedAt(x, 1)
  <2>1. QuotesTo(x, 1) = {}  BY DEF QuotesTo
  <2>2. Cardinality(QuotesTo(x, 1)) = 0  BY <2>1, FS_EmptySet
  <2>3. ~(0 % 2 = 1)  OBVIOUS
  <2> QED  BY <1>1, <2>2, <2>3
<1>3. k - 1 \in Int /\ (k + 1) - 1 = k /\ 1..k = (1..(k - 1)) \cup {k}  OBVIOUS
<1>4. R \subseteq 1..(k - 1) /\ IsFiniteSet(1..(k - 1))  BY <1>3, FS_Interval DEF QuotesTo
<1>5. IsFiniteSet(R)  BY <1>4, FS_Subset
<1>6. Cardinality(R) \in Nat /\ k \notin R  BY <1>4, <1>5, FS_CardinalityType
<1>7. CASE x[k] = "quote" /\ ~EscapedAt(x, k)
  <2>1. S = R \cup {k}  BY <1>3, <1>7 DEF QuotesTo
  <2> HIDE DEF R, S
  <2>2. Cardinality(S) = Cardinality(R) + 1  BY <1>5, <1>6, <2>1, FS_AddElement
  <2>3. QuotedAt(x, k + 1) <=> ~QuotedAt(x, k)  BY <1>1, <1>6, <2>2, Odd DEF R, S
  <2> QED  BY <1>2, <1>7, <2>3
<1>8. CASE ~(x[k] = "quote" /\ ~EscapedAt(x, k))
  <2>1. S = R  BY <1>3, <1>8 DEF QuotesTo
  <2>2. QuotedAt(x, k + 1) <=> QuotedAt(x, k)  BY <1>1, <2>1
  <2> QED  BY <1>2, <1>8, <2>2
<1> QED  BY <1>7, <1>8

\* What is picked of nothing, and of one place more.
LEMMA PickedNone == \A s : Picked(s, {}) = << >>
<1> SUFFICES ASSUME NEW s PROVE Picked(s, {}) = << >>  OBVIOUS
<1>1. Cardinality({}) = 0  BY FS_EmptySet
<1>2. DOMAIN Picked(s, {}) = 1..0  BY <1>1 DEF Picked
<1>3. Picked(s, {}) = [k \in 1..0 |-> k]
  <2>1. \A k \in 1..0 : FALSE  OBVIOUS
  <2>2. Picked(s, {}) = [k \in 1..0 |-> Picked(s, {})[k]]  BY <1>1 DEF Picked
  <2> QED  BY <2>1, <2>2
<1>4. [k \in 1..0 |-> k] = << >>
  <2> DEFINE e == [k \in 1..0 |-> k]
  <2>1. e \in Seq(Nat) /\ Len(e) = 0  OBVIOUS
  <2> HIDE DEF e
  <2>2. e = << >>  BY <2>1, EmptySeq
  <2> QED  BY <2>2 DEF e
<1> QED  BY <1>3, <1>4

LEMMA PickedMore ==
  ASSUME NEW s, NEW T \in SUBSET Nat, IsFiniteSet(T), NEW m \in Nat, \A h \in T : h < m
  PROVE  /\ Len(Picked(s, T)) = Cardinality(T)
         /\ Picked(s, T \cup {m}) = Append(Picked(s, T), s[m])
<1> DEFINE U == T \cup {m}
           n == Cardinality(T)
           Upto(A, j) == {h \in A : h <= j}
           Nth(A, k) == {j \in A : Cardinality(Upto(A, j)) = k}
<1>1. n \in Nat  BY FS_CardinalityType
<1>2. Cardinality(U) = n + 1
  <2>1. m \notin T  OBVIOUS
  <2> QED  BY <2>1, FS_AddElement
<1>3. \A A : Picked(s, A) = [k \in 1..Cardinality(A) |-> s[Min(Nth(A, k))]]
  BY DEF Picked
<1>4. ASSUME NEW j \in T PROVE Upto(U, j) = Upto(T, j) /\ Cardinality(Upto(T, j)) <= n
  <2>1. ~(m <= j)  OBVIOUS
  <2>2. Upto(U, j) = Upto(T, j)  BY <2>1
  <2>3. Upto(T, j) \in SUBSET T  OBVIOUS
  <2> QED  BY <2>2, <2>3, FS_Subset
<1>5. Upto(U, m) = U
  <2>1. \A h \in U : h <= m  OBVIOUS
  <2> QED  BY <2>1
<1> HIDE DEF U, n, Upto
<1>6. ASSUME NEW k \in 1..n PROVE Nth(U, k) = Nth(T, k)
  <2>1. k # n + 1  BY <1>1
  <2>2. Cardinality(Upto(U, m)) # k  BY <1>2, <1>5, <2>1
  <2> QED  BY <1>4, <2>2 DEF U
<1>7. Nth(U, n + 1) = {m}
  <2>1. \A j \in T : Cardinality(Upto(U, j)) # n + 1
    <3>1. ASSUME NEW j \in T PROVE Cardinality(Upto(U, j)) # n + 1
      <4>1. Cardinality(Upto(U, j)) <= n  BY <1>4
      <4>2. Upto(U, j) \in SUBSET U /\ IsFiniteSet(U)  BY FS_AddElement DEF Upto, U
      <4>3. Cardinality(Upto(U, j)) \in Nat  BY <4>2, FS_Subset, FS_CardinalityType
      <4> QED  BY <1>1, <4>1, <4>3
    <3> QED  BY <3>1
  <2>2. Cardinality(Upto(U, m)) = n + 1  BY <1>2, <1>5
  <2> QED  BY <2>1, <2>2 DEF U
<1>8. Min({m}) = m  BY DEF Min
<1> HIDE DEF Nth
<1> DEFINE p == Picked(s, T)
           z == Append(p, s[m])
           w == Picked(s, U)
<1>9. p = [k \in 1..n |-> s[Min(Nth(T, k))]]  BY <1>3 DEF n
<1>10. w = [k \in 1..(n + 1) |-> s[Min(Nth(U, k))]]  BY <1>2, <1>3
<1> DEFINE Any == {p[k] : k \in 1..n} \cup {s[m]}
<1>11. p \in Seq(Any) /\ Len(p) = n /\ s[m] \in Any
  <2> HIDE DEF p
  <2>1. p \in [1..n -> Any]
    <3>1. DOMAIN p = 1..n /\ p = [k \in 1..n |-> p[k]]  BY <1>9
    <3> QED  BY <3>1
  <2> HIDE DEF Any
  <2>2. p \in Seq(Any) /\ Len(p) = n  BY <1>1, <2>1
  <2> QED  BY <2>2 DEF Any
<1>12. \A k \in 1..n : w[k] = p[k]
  <2> HIDE DEF p, w
  <2> QED  BY <1>1, <1>6, <1>9, <1>10
<1>13. w[n + 1] = s[m]
  <2> HIDE DEF p, w
  <2>1. n + 1 \in 1..(n + 1)  BY <1>1
  <2> QED  BY <1>7, <1>8, <1>10, <2>1
<1>14. DOMAIN w = 1..(n + 1) /\ w = [k \in 1..(n + 1) |-> w[k]]
  <2> HIDE DEF w
  <2> QED  BY <1>10
<1> HIDE DEF p, w, Any
<1>15. z = [k \in 1..(n + 1) |-> IF k = n + 1 THEN s[m] ELSE p[k]]
  BY <1>1, <1>11
<1>16. w = z
  <2> HIDE DEF z
  <2>1. \A k \in 1..(n + 1) : w[k] = IF k = n + 1 THEN s[m] ELSE p[k]
    BY <1>1, <1>12, <1>13
  <2> QED  BY <1>14, <1>15, <2>1
<1> QED  BY <1>11, <1>16 DEF p, w, U, n

\* stripCR picks what is no CR.
LEMMA StripPicks ==
  ASSUME NEW b \in Seq(Char)
  PROVE  Picked(b, {k \in DOMAIN b : b[k] # "cr"}) = stripCR(b)
<1> DEFINE n == Len(b)
           T(j) == {k \in 1..j : b[k] # "cr"}
           u == StripLoop(b)
           G == {j \in 0..n : u[j] = Picked(b, T(j))}
<1>1. n \in Nat /\ DOMAIN b = 1..n  OBVIOUS
<1>2. \A k \in 0..n : u[k] = StripAt(b, u, k)  BY StripPass DEF Strips
<1> HIDE DEF u, n
<1>3. 0 \in G
  <2>1. T(0) = {}  OBVIOUS
  <2>2. u[0] = << >>  BY <1>1, <1>2 DEF StripAt
  <2> QED  BY <1>1, <2>1, <2>2, PickedNone
<1>4. ASSUME NEW j \in 0..(n - 1), j \in G PROVE j + 1 \in G
  <2>1. j + 1 \in 1..n /\ j + 1 # 0 /\ (j + 1) - 1 = j /\ j \in Nat /\ j + 1 \in Nat
        /\ j + 1 \in 0..n
    BY <1>1
  <2>0. u[j] = Picked(b, T(j))  BY <1>4
  <2>2. u[j + 1] = IF b[j + 1] # "cr" THEN Append(u[j], b[j + 1]) ELSE u[j]
    BY <1>1, <1>2, <2>1 DEF StripAt
  <2>3. 1..(j + 1) = (1..j) \cup {j + 1}  BY <2>1
  <2>4. CASE b[j + 1] = "cr"
    <3>1. T(j + 1) = T(j)  BY <2>3, <2>4
    <3>2. u[j + 1] = Picked(b, T(j + 1))
      <4> HIDE DEF T
      <4> QED  BY <2>0, <2>2, <2>4, <3>1
    <3> QED  BY <2>1, <3>2
  <2>5. CASE b[j + 1] # "cr"
    <3>1. T(j + 1) = T(j) \cup {j + 1}  BY <2>3, <2>5
    <3>2. T(j) \in SUBSET Nat /\ \A h \in T(j) : h < j + 1  BY <2>1
    <3>3. IsFiniteSet(1..j) /\ T(j) \in SUBSET (1..j)  BY <2>1, FS_Interval
    <3>4. IsFiniteSet(T(j))  BY <3>3, FS_Subset
    <3> HIDE DEF T
    <3>5. Picked(b, T(j) \cup {j + 1}) = Append(Picked(b, T(j)), b[j + 1])
      BY <2>1, <3>2, <3>4, PickedMore
    <3>6. u[j + 1] = Picked(b, T(j + 1))  BY <2>0, <2>2, <2>5, <3>1, <3>5
    <3> QED  BY <2>1, <3>6 DEF T
  <2> QED  BY <2>4, <2>5
<1> HIDE DEF G
<1>5. n \in G  BY <1>1, <1>3, <1>4, Counting
<1>6. stripCR(b) = u[n]  BY StripIsLoop DEF u, n
<1> QED  BY <1>1, <1>5, <1>6 DEF G

\* What unquote has made of the first places of a literal.
SoFar(lit, u, k) ==
  u.panic \/ /\ u.q = QuotedAt(lit, k + 1) /\ u.esc = EscapedAt(lit, k + 1)
             /\ u.out = Picked([j \in 1..Len(lit) |-> MeantAt(lit, j)],
                               {j \in 1..k : KeptAt(lit, j)})

LEMMA SoFarNext ==
  ASSUME NEW lit \in Seq(Char), NEW k \in 0..(Len(lit) - 1), NEW u \in State,
         SoFar(lit, u, k)
  PROVE  SoFar(lit, UnquoteStep(u, lit[k + 1]), k + 1)
<1> DEFINE c == lit[k + 1]
           w == UnquoteStep(u, c)
           s == [j \in 1..Len(lit) |-> MeantAt(lit, j)]
           T(i) == {j \in 1..i : KeptAt(lit, j)}
<1>1. Len(lit) \in Nat /\ k \in Nat /\ k + 1 \in 1..Len(lit) /\ k + 1 \in Nat \ {0}
  OBVIOUS
<1>2. c \in Char  BY <1>1
<1>3. s[k + 1] = MeantAt(lit, k + 1)  BY <1>1
<1>4. KeptAt(lit, k + 1) => Picked(s, T(k + 1)) = Append(Picked(s, T(k)), s[k + 1])
  <2> SUFFICES ASSUME KeptAt(lit, k + 1)
               PROVE  Picked(s, T(k + 1)) = Append(Picked(s, T(k)), s[k + 1])
    OBVIOUS
  <2>1. 1..(k + 1) = (1..k) \cup {k + 1}  BY <1>1
  <2>2. T(k + 1) = T(k) \cup {k + 1}  BY <2>1
  <2>3. T(k) \in SUBSET Nat /\ \A h \in T(k) : h < k + 1  BY <1>1
  <2>4. IsFiniteSet(1..k) /\ T(k) \in SUBSET (1..k)  BY <1>1, FS_Interval
  <2>5. IsFiniteSet(T(k))  BY <2>4, FS_Subset
  <2> HIDE DEF T, s
  <2> QED  BY <1>1, <2>2, <2>3, <2>5, PickedMore
<1>5. ~KeptAt(lit, k + 1) => T(k + 1) = T(k)
  <2>1. 1..(k + 1) = (1..k) \cup {k + 1}  BY <1>1
  <2> QED  BY <2>1
<1>6. EscapedAt(lit, (k + 1) + 1) <=> c = "back" /\ ~EscapedAt(lit, k + 1)
  BY <1>1, EscapedNext
<1>7. QuotedAt(lit, (k + 1) + 1) <=> IF c = "quote" /\ ~EscapedAt(lit, k + 1)
                                     THEN ~QuotedAt(lit, k + 1) ELSE QuotedAt(lit, k + 1)
  BY <1>1, QuotedNext
<1>8. /\ u.q \in BOOLEAN /\ u.esc \in BOOLEAN /\ u.panic \in BOOLEAN  BY DEF State
<1>9. \A i : EscapedAt(lit, i) \in BOOLEAN /\ QuotedAt(lit, i) \in BOOLEAN
  BY DEF EscapedAt, QuotedAt
<1>10. /\ SoFar(lit, u, k) <=> u.panic \/ /\ u.q = QuotedAt(lit, k + 1)
                                          /\ u.esc = EscapedAt(lit, k + 1)
                                          /\ u.out = Picked(s, T(k))
       /\ SoFar(lit, w, k + 1) <=> w.panic \/ /\ w.q = QuotedAt(lit, (k + 1) + 1)
                                              /\ w.esc = EscapedAt(lit, (k + 1) + 1)
                                              /\ w.out = Picked(s, T(k + 1))
  BY DEF SoFar
<1>11. /\ KeptAt(lit, k + 1) <=> IF EscapedAt(lit, k + 1) THEN c # "nl"
                                 ELSE c \notin {"quote", "back"}
       /\ MeantAt(lit, k + 1) = IF EscapedAt(lit, k + 1) /\ c = "n" THEN "nl" ELSE c
  BY DEF KeptAt, MeantAt
<1> DEFINE E == EscapedAt(lit, k + 1)
           Q == QuotedAt(lit, k + 1)
           a == Picked(s, T(k))
           b == Picked(s, T(k + 1))
<1> SUFFICES SoFar(lit, w, k + 1)  OBVIOUS
<1> HIDE DEF c, s, T
<1>12. CASE u.panic
  <2>1. w = u  BY <1>12 DEF UnquoteStep
  <2> QED  BY <1>10, <1>12, <2>1
<1>13. CASE ~u.panic
  <2>1. u.q = Q /\ u.esc = E /\ u.out = a  BY <1>10, <1>13
  <2>2. CASE E
    <3>0. u.esc  BY <2>1, <2>2
    <3>1. CASE c \in {"back", "quote", "n"}
      <4> DEFINE d == IF c = "n" THEN "nl" ELSE c
      <4>1. w = [u EXCEPT !.esc = FALSE, !.out = Append(@, d)]
        BY <1>13, <3>0, <3>1 DEF UnquoteStep
      <4>2. w.esc = FALSE /\ w.q = u.q /\ w.out = Append(u.out, d)
        <5> HIDE DEF d
        <5> QED  BY <4>1 DEF State
      <4>3. b = Append(a, d)  BY <1>3, <1>4, <1>11, <2>2, <3>1
      <4>4. EscapedAt(lit, (k + 1) + 1) = FALSE  BY <1>6, <1>9, <2>2
      <4>5. QuotedAt(lit, (k + 1) + 1) = Q  BY <1>7, <1>9, <2>2
      <4> QED  BY <1>10, <2>1, <4>2, <4>3, <4>4, <4>5
    <3>2. CASE c = "nl" /\ ~u.q
      <4>1. w = [u EXCEPT !.esc = FALSE]  BY <1>13, <3>0, <3>2 DEF UnquoteStep
      <4>2. w.esc = FALSE /\ w.q = u.q /\ w.out = u.out  BY <4>1 DEF State
      <4>3. b = a  BY <1>5, <1>11, <2>2, <3>2
      <4>4. EscapedAt(lit, (k + 1) + 1) = FALSE  BY <1>6, <1>9, <2>2
      <4>5. QuotedAt(lit, (k + 1) + 1) = Q  BY <1>7, <1>9, <2>2
      <4> QED  BY <1>10, <2>1, <4>2, <4>3, <4>4, <4>5
    <3>3. CASE ~(c \in {"back", "quote", "n"}) /\ ~(c = "nl" /\ ~u.q)
      <4>1. w = [u EXCEPT !.panic = TRUE]  BY <1>13, <3>0, <3>3 DEF UnquoteStep
      <4>2. w.panic  BY <4>1 DEF State
      <4> QED  BY <1>10, <4>2
    <3> QED  BY <3>1, <3>2, <3>3
  <2>3. CASE ~E
    <3>0. ~u.esc  BY <2>1, <2>3
    <3>1. CASE c = "quote"
      <4>1. w = [u EXCEPT !.q = ~@]  BY <1>13, <3>0, <3>1 DEF UnquoteStep
      <4>2. w.esc = u.esc /\ w.q = (~u.q) /\ w.out = u.out  BY <4>1 DEF State
      <4>3. b = a  BY <1>5, <1>11, <2>3, <3>1
      <4>4. EscapedAt(lit, (k + 1) + 1) = E  BY <1>6, <1>9, <2>3, <3>1
      <4>5. QuotedAt(lit, (k + 1) + 1) = (~Q)  BY <1>7, <1>9, <2>3, <3>1
      <4> QED  BY <1>10, <2>1, <4>2, <4>3, <4>4, <4>5
    <3>2. CASE c = "back"
      <4>1. w = [u EXCEPT !.esc = TRUE]  BY <1>13, <3>0, <3>2 DEF UnquoteStep
      <4>2. w.esc = TRUE /\ w.q = u.q /\ w.out = u.out  BY <4>1 DEF State
      <4>3. b = a  BY <1>5, <1>11, <2>3, <3>2
      <4>4. EscapedAt(lit, (k + 1) + 1) = TRUE  BY <1>6, <1>9, <2>3, <3>2
      <4>5. QuotedAt(lit, (k + 1) + 1) = Q  BY <1>7, <1>9, <2>3, <3>2
      <4> QED  BY <1>10, <2>1, <4>2, <4>3, <4>4, <4>5
    <3>3. CASE c \notin {"quote", "back"}
      <4>1. w = [u EXCEPT !.out = Append(@, c)]  BY <1>13, <3>0, <3>3 DEF UnquoteStep
      <4>2. w.esc = u.esc /\ w.q = u.q /\ w.out = Append(u.out, c)  BY <4>1 DEF State
      <4>3. b = Append(a, c)  BY <1>3, <1>4, <1>11, <2>3, <3>3
      <4>4. EscapedAt(lit, (k + 1) + 1) = E  BY <1>6, <1>9, <2>3, <3>3
      <4>5. QuotedAt(lit, (k + 1) + 1) = Q  BY <1>7, <1>9, <2>3, <3>3
      <4> QED  BY <1>10, <2>1, <4>2, <4>3, <4>4, <4>5
    <3> QED  BY <3>1, <3>2, <3>3
  <2> QED  BY <2>2, <2>3
<1> QED  BY <1>12, <1>13

\* What a literal means that unquote does not panic on.
LEMMA UnquoteMeans ==
  ASSUME NEW lit \in Seq(Char)
  PROVE  SoFar(lit, Unquoted(lit), Len(lit))
<1> DEFINE n == Len(lit)
           u == UnquoteLoop(lit)
           G == {k \in 0..n : u[k] \in State /\ SoFar(lit, u[k], k)}
<1>1. n \in Nat  OBVIOUS
<1>2. \A k \in 0..n : u[k] = UnquoteAt(lit, u, k)  BY UnquotePass DEF Unquotes
<1> HIDE DEF u
<1>3. 0 \in G
  <2>1. u[0] = Unread  BY <1>1, <1>2 DEF UnquoteAt
  <2>2. ~QuotedAt(lit, 1) /\ ~EscapedAt(lit, 1)  BY EscapedNext, QuotedNext
  <2>3. QuotedAt(lit, 0 + 1) = FALSE /\ EscapedAt(lit, 0 + 1) = FALSE
    BY <2>2 DEF QuotedAt, EscapedAt
  <2>4. {j \in 1..0 : KeptAt(lit, j)} = {}  OBVIOUS
  <2>5. Unread.q = FALSE /\ Unread.esc = FALSE /\ Unread.out = << >>  BY DEF Unread
  <2>6. SoFar(lit, Unread, 0)  BY <2>3, <2>4, <2>5, PickedNone DEF SoFar
  <2> QED  BY <1>1, <2>1, <2>6, StepType
<1>4. ASSUME NEW k \in 0..(n - 1), k \in G PROVE k + 1 \in G
  <2>1. k + 1 \in 0..n /\ k + 1 \in 1..n /\ k + 1 # 0 /\ (k + 1) - 1 = k  BY <1>1
  <2>2. u[k + 1] = UnquoteStep(u[k], lit[k + 1])  BY <1>2, <2>1 DEF UnquoteAt
  <2>3. lit[k + 1] \in Char  BY <2>1
  <2>4. SoFar(lit, u[k + 1], k + 1)  BY <1>4, <2>2, SoFarNext
  <2>5. u[k + 1] \in State  BY <1>4, <2>2, <2>3, StepType
  <2> QED  BY <2>1, <2>4, <2>5
<1> HIDE DEF G, n
<1>a. \A k \in 0..(n - 1) : k \in G => k + 1 \in G  BY <1>4
<1>b. \A k \in 0..n : k \in G  BY <1>1, <1>3, <1>a, Counting
<1>5. n \in G  BY <1>1, <1>b
<1>6. Unquoted(lit) = u[n]  BY UnquotedIsLoop DEF u, n
<1> QED  BY <1>5, <1>6 DEF G, n

---------------------------------------------------------------------------
(* The loop in a value next to what the text means: as far as the loop has *)
(* come the value has not ended, and what its literal leaves out is blank. *)

LEMMA MinIs ==
  ASSUME NEW S \in SUBSET Nat, NEW m \in S, \A j \in S : m <= j
  PROVE  Min(S) = m
<1>1. \A j \in S : (\A h \in S : j <= h) => j = m  OBVIOUS
<1>2. Min(S) \in S /\ \A h \in S : Min(S) <= h  BY DEF Min
<1> QED  BY <1>1, <1>2

LEMMA MaxIs ==
  ASSUME NEW S \in SUBSET Nat, NEW m \in S, \A j \in S : j <= m
  PROVE  Max(S) = m
<1>1. \A j \in S : (\A h \in S : j >= h) => j = m  OBVIOUS
<1>2. Max(S) \in S /\ \A h \in S : Max(S) >= h  BY DEF Max
<1> QED  BY <1>1, <1>2

\* x begins with l.
Opens(l, x) == Len(l) <= Len(x) /\ \A k \in 1..Len(l) : x[k] = l[k]

LEMMA OpensSame ==
  ASSUME NEW l \in Seq(Char), NEW x \in Seq(Char), Opens(l, x)
  PROVE  \A k \in 1..(Len(l) + 1) : /\ EscapedAt(x, k) <=> EscapedAt(l, k)
                                    /\ QuotedAt(x, k) <=> QuotedAt(l, k)
<1> DEFINE n == Len(l) + 1
           Same(k) == /\ EscapedAt(x, k) <=> EscapedAt(l, k)
                      /\ QuotedAt(x, k) <=> QuotedAt(l, k)
           G == {k \in 1..n : Same(k)}
<1>1. n \in Nat /\ 1 \in 1..n  OBVIOUS
<1>2. 1 \in G  BY <1>1, EscapedNext, QuotedNext
<1>3. ASSUME NEW k \in 1..(n - 1), k \in G PROVE k + 1 \in G
  <2>1. k \in Nat \ {0} /\ k \in 1..Len(l) /\ k + 1 \in 1..n  OBVIOUS
  <2>2. x[k] = l[k]  BY <2>1 DEF Opens
  <2>3. Same(k)  BY <1>3
  <2>4. EscapedAt(x, k + 1) <=> EscapedAt(l, k + 1)  BY <2>1, <2>2, <2>3, EscapedNext
  <2>5. QuotedAt(x, k + 1) <=> QuotedAt(l, k + 1)
    <3>1. QuotedAt(x, k + 1) <=> IF x[k] = "quote" /\ ~EscapedAt(x, k)
                                 THEN ~QuotedAt(x, k) ELSE QuotedAt(x, k)
      BY <2>1, QuotedNext
    <3>2. QuotedAt(l, k + 1) <=> IF l[k] = "quote" /\ ~EscapedAt(l, k)
                                 THEN ~QuotedAt(l, k) ELSE QuotedAt(l, k)
      BY <2>1, QuotedNext
    <3> QED  BY <2>2, <2>3, <3>1, <3>2
  <2> QED  BY <2>1, <2>4, <2>5
<1> HIDE DEF G, n
<1>4. \A k \in 1..(n - 1) : k \in G => k + 1 \in G  BY <1>3
<1>5. \A k \in 1..n : k \in G  BY <1>1, <1>2, <1>4, CountingFrom
<1> QED  BY <1>5 DEF G, n

\* What stands at the place behind a beginning that unquote can read.
LEMMA BehindOpening ==
  ASSUME NEW l \in Seq(Char), NEW x \in Seq(Char), Opens(l, x), ~Unquoted(l).panic
  PROVE  /\ QuotedAt(x, Len(l) + 1) = Unquoted(l).q
         /\ EscapedAt(x, Len(l) + 1) = Unquoted(l).esc
<1> DEFINE k == Len(l) + 1
<1>1. k \in 1..k  OBVIOUS
<1>2. QuotedAt(l, k) = Unquoted(l).q /\ EscapedAt(l, k) = Unquoted(l).esc
  BY UnquoteMeans DEF SoFar
<1>3. /\ EscapedAt(x, k) <=> EscapedAt(l, k)
      /\ QuotedAt(x, k) <=> QuotedAt(l, k)
  BY <1>1, OpensSame
<1>4. \A y : EscapedAt(y, k) \in BOOLEAN /\ QuotedAt(y, k) \in BOOLEAN
  BY DEF EscapedAt, QuotedAt
<1> HIDE DEF k
<1>5. EscapedAt(x, k) = EscapedAt(l, k) /\ QuotedAt(x, k) = QuotedAt(l, k)
  BY <1>3, <1>4
<1> QED  BY <1>2, <1>5 DEF k

\* b is read of a value, without CRs, and l of it is the literal so far: the value
\* goes on, and behind l there are blanks.
Spoken(b, l) ==
  /\ \A k \in 1..Len(b) : ~StopsAt(b, k)
  /\ Opens(l, b)
  /\ Len(l) = 0 \/ QuotedAt(b, Len(l)) \/ b[Len(l)] # "sp"
  /\ \A k \in (Len(l) + 1)..Len(b) : ~QuotedAt(b, k) /\ b[k] = "sp"

LEMMA SpokenMore ==
  ASSUME NEW b \in Seq(Char), NEW l \in Seq(Char), NEW c \in Char, Spoken(b, l),
         ~Unquoted(b).panic,
         c \in {"nl", "semi"} => Unquoted(b).q \/ Unquoted(b).esc
  PROVE  /\ Unquoted(b).q \/ c # "sp" => Spoken(Append(b, c), Append(b, c))
         /\ ~Unquoted(b).q /\ c = "sp" => Spoken(Append(b, c), l)
<1> DEFINE w == Append(b, c)
           n == Len(b)
           u == Unquoted(b)
<1>1. /\ n \in Nat /\ w \in Seq(Char) /\ Len(w) = n + 1 /\ w[n + 1] = c
      /\ \A k \in 1..n : w[k] = b[k]
      /\ Len(l) \in Nat
  OBVIOUS
<1>2. Opens(b, w)  BY <1>1 DEF Opens
<1>3. QuotedAt(w, n + 1) = u.q /\ EscapedAt(w, n + 1) = u.esc
  BY <1>1, <1>2, BehindOpening
<1>4. \A k \in 1..n : /\ EscapedAt(w, k) <=> EscapedAt(b, k)
                      /\ QuotedAt(w, k) <=> QuotedAt(b, k)
  <2>1. \A k \in 1..n : k \in 1..(n + 1)  BY <1>1
  <2> QED  BY <1>1, <1>2, <2>1, OpensSame
<1> HIDE DEF w, n, u
<1>5. \A k \in 1..(n + 1) : ~StopsAt(w, k)
  <2>1. ~StopsAt(w, n + 1)  BY <1>1, <1>3 DEF StopsAt, u
  <2>2. \A k \in 1..n : ~StopsAt(w, k)
    BY <1>1, <1>4 DEF Spoken, StopsAt, n
  <2> QED  BY <1>1, <2>1, <2>2
<1>6. Opens(l, w) /\ Len(l) <= n
  <2>1. Len(l) <= n /\ \A k \in 1..Len(l) : b[k] = l[k]  BY DEF Spoken, Opens, n
  <2> QED  BY <1>1, <2>1 DEF Opens
<1>7. ASSUME u.q \/ c # "sp" PROVE Spoken(w, w)
  <2>1. Opens(w, w)  BY <1>1 DEF Opens
  <2>2. QuotedAt(w, n + 1) \/ w[n + 1] # "sp"  BY <1>1, <1>3, <1>7
  <2>3. \A k \in ((n + 1) + 1)..(n + 1) : FALSE  BY <1>1
  <2> QED  BY <1>1, <1>5, <2>1, <2>2, <2>3 DEF Spoken
<1>8. ASSUME ~u.q, c = "sp" PROVE Spoken(w, l)
  <2>1. Len(l) = 0 \/ QuotedAt(w, Len(l)) \/ w[Len(l)] # "sp"
    <3>1. CASE Len(l) = 0  BY <3>1
    <3>2. CASE Len(l) # 0
      <4>1. Len(l) \in 1..n  BY <1>1, <1>6, <3>2
      <4>2. QuotedAt(b, Len(l)) \/ b[Len(l)] # "sp"  BY <3>2 DEF Spoken
      <4> QED  BY <1>1, <1>4, <4>1, <4>2
    <3> QED  BY <3>1, <3>2
  <2>2. ASSUME NEW k \in (Len(l) + 1)..(n + 1) PROVE ~QuotedAt(w, k) /\ w[k] = "sp"
    <3>1. CASE k = n + 1  BY <1>1, <1>3, <1>8, <3>1
    <3>2. CASE k # n + 1
      <4>1. k \in 1..n /\ k \in (Len(l) + 1)..n  BY <1>1, <3>2
      <4>2. ~QuotedAt(b, k) /\ b[k] = "sp"  BY <4>1 DEF Spoken, n
      <4> QED  BY <1>1, <1>4, <4>1, <4>2
    <3> QED  BY <3>1, <3>2
  <2> QED  BY <1>1, <1>5, <1>6, <2>1, <2>2 DEF Spoken
<1> QED  BY <1>7, <1>8 DEF w, u

\* What Written says of the text without CRs and blanks in front.
ValueEnd(x)  == Min({k \in 1..(Len(x) + 1) : k > Len(x) \/ StopsAt(x, k)})
ValueLast(x) ==
  Max({0} \cup {k \in 1..(ValueEnd(x) - 1) : QuotedAt(x, k) \/ x[k] # "sp"})
Meaning(x) == Picked([k \in 1..ValueLast(x) |-> MeantAt(x, k)],
                     {k \in 1..ValueLast(x) : KeptAt(x, k)})

LEMMA SpokenMeans ==
  ASSUME NEW x \in Seq(Char), NEW b \in Seq(Char), NEW l \in Seq(Char),
         Opens(b, x), Spoken(b, l), Reading(Unquoted(b), FALSE),
         Len(x) = Len(b) \/ x[Len(b) + 1] \in {"nl", "semi"},
         ~Unquoted(l).panic
  PROVE  Meaning(x) = Unquoted(l).out
<1> DEFINE n == Len(b)
           m == Len(l)
<1>1. n \in Nat /\ m \in Nat /\ Len(x) \in Nat /\ n <= Len(x) /\ m <= n
  BY DEF Opens, Spoken
<1>2. \A k \in 1..n : x[k] = b[k]  BY DEF Opens
<1>3. \A k \in 1..(n + 1) : /\ EscapedAt(x, k) <=> EscapedAt(b, k)
                            /\ QuotedAt(x, k) <=> QuotedAt(b, k)
  BY OpensSame
<1>4. ~QuotedAt(x, n + 1) /\ ~EscapedAt(x, n + 1)
  BY BehindOpening DEF Reading
<1>5. \A k \in 1..n : ~StopsAt(x, k)
  <2>1. \A k \in 1..n : k \in 1..(n + 1) /\ ~StopsAt(b, k)  BY <1>1 DEF Spoken
  <2> QED  BY <1>2, <1>3, <2>1 DEF StopsAt
<1>6. ValueEnd(x) = n + 1
  <2> DEFINE S == {k \in 1..(Len(x) + 1) : k > Len(x) \/ StopsAt(x, k)}
  <2>1. S \in SUBSET Nat  OBVIOUS
  <2>2. n + 1 \in S
    <3>1. CASE Len(x) = n  BY <1>1, <3>1
    <3>2. CASE Len(x) # n
      <4>1. n + 1 \in 1..(Len(x) + 1)  BY <1>1
      <4>2. StopsAt(x, n + 1)  BY <1>4, <3>2 DEF StopsAt
      <4> QED  BY <4>1, <4>2
    <3> QED  BY <3>1, <3>2
  <2>3. ASSUME NEW k \in S PROVE n + 1 <= k
    <3> SUFFICES ASSUME k <= n PROVE FALSE  BY <1>1
    <3>1. k \in 1..n  OBVIOUS
    <3> QED  BY <1>1, <1>5, <3>1
  <2> HIDE DEF S
  <2>4. Min(S) = n + 1  BY <2>1, <2>2, <2>3, MinIs
  <2> QED  BY <2>4 DEF S, ValueEnd
<1>7. ValueLast(x) = m
  <2> DEFINE S == {0} \cup {k \in 1..((n + 1) - 1) : QuotedAt(x, k) \/ x[k] # "sp"}
  <2>0. (n + 1) - 1 = n  BY <1>1
  <2>1. S \in SUBSET Nat  OBVIOUS
  <2>2. m \in S
    <3>1. CASE m = 0  BY <3>1
    <3>2. CASE m # 0
      <4>1. m \in 1..n /\ m \in 1..(n + 1)  BY <1>1, <3>2
      <4>2. QuotedAt(b, m) \/ b[m] # "sp"  BY <3>2 DEF Spoken
      <4> QED  BY <1>2, <1>3, <2>0, <4>1, <4>2
    <3> QED  BY <3>1, <3>2
  <2>3. ASSUME NEW k \in S PROVE k <= m
    <3> SUFFICES ASSUME ~(k <= m) PROVE FALSE  OBVIOUS
    <3>1. k \in 1..n /\ k \in 1..(n + 1) /\ k \in (m + 1)..n  BY <1>1, <2>0
    <3>2. ~QuotedAt(b, k) /\ b[k] = "sp"  BY <3>1 DEF Spoken
    <3>3. QuotedAt(x, k) \/ x[k] # "sp"  BY <1>1, <3>1
    <3> QED  BY <1>2, <1>3, <3>1, <3>2, <3>3
  <2> HIDE DEF S
  <2>4. Max(S) = m  BY <2>1, <2>2, <2>3, MaxIs
  <2> QED  BY <1>6, <2>4 DEF S, ValueLast
<1>8. \A k \in 1..m : x[k] = l[k]
  <2>1. \A k \in 1..m : k \in 1..n /\ b[k] = l[k]  BY <1>1 DEF Spoken, Opens
  <2> QED  BY <1>2, <2>1
<1>9. Opens(l, x)  BY <1>1, <1>8 DEF Opens
<1>10. \A k \in 1..m : EscapedAt(x, k) <=> EscapedAt(l, k)
  <2>1. \A k \in 1..m : k \in 1..(m + 1)  BY <1>1
  <2> QED  BY <1>9, <2>1, OpensSame
<1>11. \A k \in 1..m : MeantAt(x, k) = MeantAt(l, k) /\ (KeptAt(x, k) <=> KeptAt(l, k))
  BY <1>8, <1>10 DEF MeantAt, KeptAt
<1>12. Unquoted(l).out = Picked([k \in 1..m |-> MeantAt(l, k)], {k \in 1..m : KeptAt(l, k)})
  BY UnquoteMeans DEF SoFar
<1> HIDE DEF m
<1>13. [k \in 1..m |-> MeantAt(x, k)] = [k \in 1..m |-> MeantAt(l, k)]  BY <1>11
<1>14. {k \in 1..m : KeptAt(x, k)} = {k \in 1..m : KeptAt(l, k)}  BY <1>11
<1> QED  BY <1>7, <1>12, <1>13, <1>14 DEF Meaning

\* The text without its CRs, up to one place and up to a later one.
LEMMA BareOpens ==
  ASSUME NEW x \in Seq(Char), NEW p \in 1..(Len(x) + 1), NEW i \in p..(Len(x) + 1),
         NEW j \in i..(Len(x) + 1)
  PROVE  /\ Bare(x, p, i) \in Seq(Char)
         /\ Opens(Bare(x, p, i), Bare(x, p, j))
<1> DEFINE n == Len(x) + 1
           B(k) == Bare(x, p, k)
           G == {k \in i..n : Opens(B(i), B(k))}
<1>1. n \in Nat /\ p \in Nat /\ i \in Nat /\ 1 <= p /\ p <= i /\ i <= n /\ Len(x) \in Nat
  OBVIOUS
<1>2. ASSUME NEW k \in p..n PROVE B(k) \in Seq(Char)
  <2>1. SubSeq(x, p, k - 1) \in Seq(Char)
    <3>1. k \in Nat /\ p \in 1..(Len(x) + 1) /\ k - 1 <= Len(x)  BY <1>1
    <3> QED  BY <1>1, <3>1
  <2> QED  BY <2>1, StripPass DEF Bare
<1>3. i \in p..n /\ i \in i..n  BY <1>1
<1>4. i \in G  BY <1>2, <1>3 DEF Opens
<1>5. ASSUME NEW k \in i..(n - 1), k \in G PROVE k + 1 \in G
  <2>1. k \in p..Len(x) /\ k \in p..n /\ k + 1 \in i..n  BY <1>1
  <2>2. B(k + 1) = IF Ch(x, k) # "cr" THEN Append(B(k), Ch(x, k)) ELSE B(k)
    BY <2>1, BareIs
  <2>3. k \in 1..Len(x)  BY <1>1, <2>1
  <2>4. Ch(x, k) \in Char  BY <2>3, CharAt
  <2>5. B(k) \in Seq(Char) /\ B(i) \in Seq(Char)  BY <1>2, <1>3, <2>1
  <2>6. Opens(B(i), B(k))  BY <1>5
  <2> DEFINE a == B(i)
             b == B(k)
             c == Ch(x, k)
  <2> HIDE DEF a, b, c, B
  <2>7. Opens(a, Append(b, c))
    <3>1. a \in Seq(Char) /\ b \in Seq(Char) /\ c \in Char /\ Opens(a, b)
      BY <2>4, <2>5, <2>6 DEF a, b, c
    <3>2. Len(Append(b, c)) = Len(b) + 1 /\ \A h \in 1..Len(b) : Append(b, c)[h] = b[h]
      BY <3>1
    <3>3. Len(a) \in Nat /\ Len(b) \in Nat  BY <3>1
    <3> QED  BY <3>1, <3>2, <3>3 DEF Opens
  <2>8. Opens(B(i), B(k + 1))  BY <2>2, <2>6, <2>7 DEF a, b, c
  <2> QED  BY <2>1, <2>8
<1> HIDE DEF G, B, n
<1>6. \A k \in i..(n - 1) : k \in G => k + 1 \in G  BY <1>5
<1>7. \A k \in i..n : k \in G  BY <1>1, <1>4, <1>6, CountingFrom
<1>8. j \in G  BY <1>7 DEF n
<1>9. B(i) \in Seq(Char)  BY <1>2, <1>3
<1> QED  BY <1>8, <1>9 DEF G, B

\* Where the loop in a value stands.
Worded(x, p, v) ==
  \/ v = BadValue
  \/ /\ ValueInv(x, p, v) /\ v.at # 0 /\ v.end <= v.at /\ (v.q => v.end = v.at)
     /\ Spoken(Bare(x, p, v.at), Bare(x, p, v.end))

LEMMA WordedAll ==
  ASSUME NEW x \in Seq(Char), NEW p \in 1..(Len(x) + 1), NEW i \in p..(Len(x) + 1),
         NEW q \in BOOLEAN, Reading(Stripped(x, p, i), q),
         Spoken(Bare(x, p, i), Bare(x, p, i))
  PROVE  Worded(x, p, AllOfIt(i, q))
<1>1. i \in Nat /\ i # 0  OBVIOUS
<1>2. ValueInv(x, p, AllOfIt(i, q))  BY <1>1, ValueAt
<1> QED  BY <1>1, <1>2, ValueParts DEF Worded

\* One character more, behind which the literal ends or does not yet.
LEMMA SpokenOn ==
  ASSUME NEW x \in Seq(Char), NEW p \in 1..(Len(x) + 1), NEW i \in p..Len(x),
         NEW e \in p..i, Spoken(Bare(x, p, i), Bare(x, p, e)),
         NEW u, u = Stripped(x, p, i), ~u.panic,
         Ch(x, i) \in {"nl", "semi"} => u.q \/ u.esc
  PROVE  /\ Ch(x, i) \notin White => Spoken(Bare(x, p, i + 1), Bare(x, p, i + 1))
         /\ Ch(x, i) = "sp" /\ u.q => Spoken(Bare(x, p, i + 1), Bare(x, p, i + 1))
         /\ Ch(x, i) = "sp" /\ ~u.q => Spoken(Bare(x, p, i + 1), Bare(x, p, e))
         /\ Ch(x, i) = "cr" => Bare(x, p, i + 1) = Bare(x, p, i)
<1> DEFINE b == Bare(x, p, i)
           l == Bare(x, p, e)
           c == Ch(x, i)
           w == Bare(x, p, i + 1)
<1>1. Len(x) \in Nat /\ p \in Nat /\ i \in 1..Len(x) /\ i \in p..(Len(x) + 1)
      /\ i + 1 \in p..(Len(x) + 1) /\ e \in p..(Len(x) + 1) /\ e \in Nat
  OBVIOUS
<1>2. c \in Char  BY <1>1, CharAt
<1>3. w = IF c # "cr" THEN Append(b, c) ELSE b  BY BareIs
<1>4. i \in i..(Len(x) + 1) /\ e \in e..(Len(x) + 1)  BY <1>1
<1>5. b \in Seq(Char) /\ l \in Seq(Char)  BY <1>1, <1>4, BareOpens
<1>6. Unquoted(b) = u  BY DEF Stripped, Bare
<1> HIDE DEF b, l, c, w
<1>7. c # "cr" => /\ u.q \/ c # "sp" => Spoken(w, w)
                  /\ ~u.q /\ c = "sp" => Spoken(w, l)
  <2>1. Spoken(b, l) /\ ~Unquoted(b).panic
        /\ (c \in {"nl", "semi"} => Unquoted(b).q \/ Unquoted(b).esc)
    BY <1>6 DEF b, l, c
  <2>2. /\ Unquoted(b).q \/ c # "sp" => Spoken(Append(b, c), Append(b, c))
        /\ ~Unquoted(b).q /\ c = "sp" => Spoken(Append(b, c), l)
    BY <1>2, <1>5, <2>1, SpokenMore
  <2> QED  BY <1>3, <1>6, <2>2
<1> QED  BY <1>3, <1>7 DEF White, b, l, c, w

LEMMA WordedTurn ==
  ASSUME NEW x \in Seq(Char), NEW p \in 1..(Len(x) + 1), NEW v \in ValueState,
         ~ValueEnds(x, v), Worded(x, p, v)
  PROVE  Worded(x, p, ValueTurn(x, v))
<1> DEFINE i == v.at
           n == Len(x)
           w == ValueTurn(x, v)
           B(k) == Bare(x, p, k)
           S(k) == Stripped(x, p, k)
<1>1. i \in Nat /\ v.end \in Nat /\ v.q \in BOOLEAN /\ (~v.q) \in BOOLEAN /\ i # 0
  BY DEF ValueState, ValueEnds
<1>2. v # BadValue  BY ValueParts DEF ValueEnds
<1>3. /\ i \in p..(n + 1) /\ v.end \in p..(n + 1) /\ v.end <= i /\ (v.q => v.end = i)
      /\ Reading(S(i), v.q) /\ Reading(S(v.end), v.q)
      /\ Spoken(B(i), B(v.end))
  BY <1>2 DEF Worded, ValueInv
<1>4. p \in Nat /\ n \in Nat /\ 1 <= p  OBVIOUS
<1>5. \A k \in Nat : Ch(x, k) # EOF => k \in 1..n  BY CharAt
<1>6. EOF \notin {"back", "quote", "n", "nl", "cr"}  BY DEF EOF
<1> HIDE DEF i, n
<1>7. v.end \in p..i  BY <1>1, <1>3, <1>4
\* A character behind which the literal goes on.
<1>8. ASSUME NEW j \in p..n, NEW e \in p..j, NEW q \in BOOLEAN,
             Reading(S(j), q) \/ Escaped(S(j), q), Spoken(B(j), B(e)),
             Ch(x, j) \in {"back", "quote", "n"} \/ (Ch(x, j) = "nl" /\ Escaped(S(j), q))
      PROVE  Spoken(B(j + 1), B(j + 1))
  <2>1. ~S(j).panic /\ (Ch(x, j) \in {"nl", "semi"} => S(j).q \/ S(j).esc)
    BY <1>8 DEF Reading, Escaped
  <2>2. Ch(x, j) \notin White  BY <1>8 DEF White
  <2> HIDE DEF B, S
  <2>3. j \in p..Len(x)  BY DEF n
  <2> QED  BY <1>8, <2>1, <2>2, <2>3, SpokenOn DEF B, S
<1>9. CASE w = BadValue  BY <1>9 DEF Worded
<1>10. CASE Ch(x, i) = "back" /\ w # BadValue
  <2>1. i \in p..n /\ i + 1 \in p..(n + 1) /\ i + 1 \in Nat /\ (i + 1) + 1 = i + 2
        /\ (i + 2) + 1 = i + 3 /\ i + 1 \in p..(i + 1) /\ i + 2 \in p..(i + 2)
    BY <1>1, <1>3, <1>4, <1>5, <1>6, <1>10
  <2>2. Escaped(S(i + 1), v.q)  BY <1>1, <1>3, <1>10, <2>1, StrippedNext DEF n
  <2>3. Spoken(B(i + 1), B(i + 1))  BY <1>1, <1>3, <1>7, <1>8, <1>10, <2>1
  <2>4. CASE v.q
    <3>1. Ch(x, i + 1) \in {"back", "quote", "n"} /\ w = AllOfIt(i + 2, TRUE)
      BY <1>10, <2>4, ValueTurnIs DEF i
    <3>2. i + 1 \in p..n /\ i + 2 \in p..(n + 1)
      BY <1>3, <1>4, <1>5, <1>6, <2>1, <3>1
    <3>3. Reading(S(i + 2), TRUE)
      <4>1. v.q = TRUE  BY <1>1, <2>4
      <4> QED  BY <2>1, <2>2, <3>1, <3>2, <4>1, StrippedEscape DEF n
    <3>4. Spoken(B(i + 2), B(i + 2))  BY <1>1, <1>8, <2>1, <2>2, <2>3, <3>1, <3>2
    <3> QED  BY <3>1, <3>2, <3>3, <3>4, WordedAll DEF n
  <2>5. CASE ~v.q /\ Ch(x, i + 1) # "cr"
    <3>1. Ch(x, i + 1) = "nl" /\ w = AllOfIt(i + 2, FALSE)
      BY <1>10, <2>5, ValueTurnIs DEF i
    <3>2. i + 1 \in p..n /\ i + 2 \in p..(n + 1)
      BY <1>3, <1>4, <1>5, <1>6, <2>1, <3>1
    <3>3. Reading(S(i + 2), FALSE)
      <4>1. v.q = FALSE  BY <1>1, <2>5
      <4> QED  BY <2>1, <2>2, <3>1, <3>2, <4>1, StrippedEscape DEF n
    <3>4. Spoken(B(i + 2), B(i + 2))  BY <1>1, <1>8, <2>1, <2>2, <2>3, <3>1, <3>2
    <3> QED  BY <3>1, <3>2, <3>3, <3>4, WordedAll DEF n
  <2>6. CASE ~v.q /\ Ch(x, i + 1) = "cr"
    <3>1. Ch(x, i + 2) = "nl" /\ w = AllOfIt(i + 3, FALSE)
      BY <1>10, <2>6, ValueTurnIs DEF i
    <3>2. i + 1 \in p..n /\ i + 2 \in p..n /\ i + 3 \in p..(n + 1)
      BY <1>1, <1>3, <1>4, <1>5, <1>6, <2>1, <2>6, <3>1
    <3>0. v.q = FALSE  BY <1>1, <2>6
    <3>3. Escaped(S(i + 2), FALSE)
      BY <2>1, <2>2, <2>6, <3>0, <3>2, StrippedEscape DEF n
    <3>4. Reading(S(i + 3), FALSE)  BY <2>1, <3>1, <3>2, <3>3, StrippedEscape DEF n
    <3>5. B(i + 2) = B(i + 1)  BY <2>1, <2>6, <3>2, BareIs DEF n
    <3>6. Spoken(B(i + 3), B(i + 3))
      <4>1. Spoken(B(i + 2), B(i + 2))  BY <2>3, <3>5
      <4> HIDE DEF B, S
      <4> QED  BY <1>8, <2>1, <3>1, <3>2, <3>3, <4>1
    <3> QED  BY <3>1, <3>2, <3>4, <3>6, WordedAll DEF n
  <2> QED  BY <1>1, <2>4, <2>5, <2>6
<1>11. CASE Ch(x, i) = "quote"
  <2>1. w = AllOfIt(i + 1, ~v.q)  BY <1>11, ValueTurnIs DEF i
  <2>2. i \in p..n /\ i + 1 \in p..(n + 1)  BY <1>1, <1>3, <1>4, <1>5, <1>6, <1>11
  <2>3. Reading(S(i + 1), ~v.q)  BY <1>1, <1>3, <1>11, <2>2, StrippedNext DEF n
  <2>4. Spoken(B(i + 1), B(i + 1))  BY <1>1, <1>3, <1>7, <1>8, <1>11, <2>2
  <2> QED  BY <1>1, <2>1, <2>2, <2>3, <2>4, WordedAll DEF n
<1>12. CASE Ch(x, i) \notin {"back", "quote"} /\ w # BadValue
  <2>0. Ch(x, i) \notin {EOF, "nl"} /\ (Ch(x, i) = "semi" => v.q)
    <3>1. v.q => Ch(x, i) \notin {EOF, "nl"}  BY <1>12, ValueTurnIs DEF i
    <3>2. ~v.q => Ch(x, i) \notin {EOF, "nl", "semi"}  BY DEF ValueEnds, i
    <3> QED  BY <3>1, <3>2
  <2>1. w = [at |-> i + 1, q |-> v.q,
             end |-> IF v.q \/ Ch(x, i) \notin White THEN i + 1 ELSE v.end]
    BY <1>12, <2>0, ValueTurnIs DEF i
  <2>2. i \in p..n /\ i + 1 \in p..(n + 1)  BY <1>1, <1>3, <1>4, <1>5, <2>0
  <2>3. Reading(S(i + 1), v.q)  BY <1>1, <1>3, <1>12, <2>2, StrippedNext DEF n
  <2>4. S(i).q = v.q /\ ~S(i).panic  BY <1>3 DEF Reading
  <2>5. /\ Ch(x, i) \notin White => Spoken(B(i + 1), B(i + 1))
        /\ Ch(x, i) = "sp" /\ v.q => Spoken(B(i + 1), B(i + 1))
        /\ Ch(x, i) = "sp" /\ ~v.q => Spoken(B(i + 1), B(v.end))
        /\ Ch(x, i) = "cr" => B(i + 1) = B(i)
    <3>1. i \in p..Len(x) /\ (Ch(x, i) \in {"nl", "semi"} => S(i).q \/ S(i).esc)
      BY <2>0, <2>2, <2>4 DEF n
    <3> QED  BY <1>3, <1>7, <2>4, <3>1, SpokenOn
  <2>6. CASE v.q \/ Ch(x, i) \notin White
    <3>1. w = AllOfIt(i + 1, v.q)  BY <2>1, <2>6 DEF AllOfIt
    <3>2. Spoken(B(i + 1), B(i + 1))
      <4>1. CASE Ch(x, i) = "cr"
        <5>1. v.q  BY <2>6, <4>1 DEF White
        <5> QED  BY <1>3, <2>5, <4>1, <5>1
      <4>2. CASE Ch(x, i) # "cr"  BY <2>5, <2>6, <4>2 DEF White
      <4> QED  BY <4>1, <4>2
    <3> QED  BY <1>1, <2>2, <2>3, <3>1, <3>2, WordedAll DEF n
  <2>7. CASE ~v.q /\ Ch(x, i) \in White
    <3>1. w = [at |-> i + 1, q |-> v.q, end |-> v.end]  BY <2>1, <2>7
    <3>2. w.at = i + 1 /\ w.q = v.q /\ w.end = v.end  BY <3>1
    <3>3. Spoken(B(i + 1), B(v.end))  BY <1>3, <2>5, <2>7 DEF White
    <3>4. ValueInv(x, p, w)  BY <1>3, <2>2, <2>3, <3>2 DEF ValueInv, n
    <3>5. w.at # 0 /\ w.end <= w.at /\ ~w.q  BY <1>1, <1>3, <2>7, <3>2
    <3> HIDE DEF w
    <3>6. Worded(x, p, w)  BY <3>2, <3>3, <3>4, <3>5 DEF Worded
    <3> QED  BY <3>6 DEF w
  <2> QED  BY <2>6, <2>7
<1> QED  BY <1>9, <1>10, <1>11, <1>12

\* Where the loop leaves a value.
LEMMA ValueSpoken ==
  ASSUME NEW x \in Seq(Char), NEW p \in 1..(Len(x) + 1)
  PROVE  LET v == scanValString(x, AllOfIt(p, FALSE)) IN
         v.at = 0 \/ (/\ v.at \in p..(Len(x) + 1) /\ v.end \in p..v.at
                      /\ Ch(x, v.at) \in {EOF, "nl", "semi"}
                      /\ Reading(Stripped(x, p, v.at), FALSE)
                      /\ Reading(Stripped(x, p, v.end), FALSE)
                      /\ Spoken(Bare(x, p, v.at), Bare(x, p, v.end)))
<1> DEFINE I == {v \in ValueState : Worded(x, p, v)}
           z == AllOfIt(p, FALSE)
           v == scanValString(x, z)
<1>1. p \in Nat /\ Len(x) \in Nat /\ p \in p..(Len(x) + 1)  OBVIOUS
<1>2. z \in I
  <2>1. Stripped(x, p, p) = Unread  BY StrippedReads
  <2>2. Reading(Unread, FALSE)  BY StepType DEF Reading, Unread
  <2>3. Bare(x, p, p) = << >>  BY <1>1, BareIs
  <2>4. Spoken(Bare(x, p, p), Bare(x, p, p))
    <3> DEFINE b == Bare(x, p, p)
    <3>1. Len(b) = 0  BY <2>3
    <3> HIDE DEF b
    <3>2. Spoken(b, b)  BY <3>1 DEF Spoken, Opens
    <3> QED  BY <3>2 DEF b
  <2>5. Worded(x, p, z)  BY <1>1, <2>1, <2>2, <2>4, WordedAll
  <2>6. z \in ValueState  BY <1>1, ValueParts
  <2> QED  BY <2>5, <2>6
<1>3. ASSUME NEW w \in I \ ValueStops(x) PROVE ValueTurns(x)[w] \in I
  <2>1. w \in ValueState /\ Worded(x, p, w) /\ ~ValueEnds(x, w)  BY <1>3 DEF ValueStops
  <2>2. ValueTurn(x, w) \in ValueState /\ Worded(x, p, ValueTurn(x, w))
    BY <2>1, ValueTurnsOn, WordedTurn
  <2> QED  BY <2>1, <2>2 DEF ValueTurns
<1>4. Kept(ValueState, ValueStops(x), ValueTurns(x), I)  BY <1>3 DEF Kept
<1> HIDE DEF I, z
<1>5. v \in I /\ v \in ValueStops(x)
  BY <1>2, <1>4, ValueEnding, ValueLoop, LoopKeeps
<1> HIDE DEF v
<1>6. Worded(x, p, v) /\ ValueEnds(x, v) /\ v \in ValueState  BY <1>5 DEF I, ValueStops
<1>7. CASE v.at = 0  BY <1>7 DEF v, z
<1>8. CASE v.at # 0
  <2>1. v # BadValue  BY <1>8, ValueParts
  <2>2. ~v.q /\ Ch(x, v.at) \in {EOF, "nl", "semi"}  BY <1>6, <1>8 DEF ValueEnds
  <2>3. v.q = FALSE /\ v.at \in Nat /\ v.end \in Nat  BY <1>6, <2>2 DEF ValueState
  <2>4. /\ v.at \in p..(Len(x) + 1) /\ v.end \in p..(Len(x) + 1) /\ v.end <= v.at
        /\ Reading(Stripped(x, p, v.at), v.q) /\ Reading(Stripped(x, p, v.end), v.q)
        /\ Spoken(Bare(x, p, v.at), Bare(x, p, v.end))
    BY <1>6, <2>1 DEF Worded, ValueInv
  <2>5. v.end \in p..v.at  BY <1>1, <2>3, <2>4
  <2> QED  BY <2>2, <2>3, <2>4, <2>5 DEF v, z
<1> QED  BY <1>7, <1>8

\* The literal of a value stands for what the text means from its first place on.
LEMMA ValueMeans ==
  ASSUME NEW x \in Seq(Char), NEW p \in 1..(Len(x) + 1)
  PROVE  LET v == scanValString(x, AllOfIt(p, FALSE)) IN
         v.at # 0 =>
           unquote(stripCR(SubSeq(x, p, v.end - 1))).out = Meaning(Bare(x, p, Len(x) + 1))
<1> DEFINE v == scanValString(x, AllOfIt(p, FALSE))
           i == v.at
           e == v.end
           n == Len(x)
           X == Bare(x, p, n + 1)
           b == Bare(x, p, i)
           l == Bare(x, p, e)
<1> SUFFICES ASSUME v.at # 0 PROVE unquote(l).out = Meaning(X)  BY DEF Bare
<1>1. /\ i \in p..(n + 1) /\ e \in p..i
      /\ Ch(x, i) \in {EOF, "nl", "semi"}
      /\ Reading(Stripped(x, p, i), FALSE) /\ Reading(Stripped(x, p, e), FALSE)
      /\ Spoken(b, l)
  BY ValueSpoken
<1> HIDE DEF v, i, e
<1>2. n \in Nat /\ p \in Nat /\ i \in 1..(n + 1) /\ e \in p..(n + 1) /\ 1 <= p /\ i \in Nat
      /\ n + 1 \in i..(n + 1) /\ e \in e..(n + 1) /\ n + 1 \in p..(n + 1)
      /\ n + 1 \in (n + 1)..(n + 1)
  BY <1>1
<1>3. b \in Seq(Char) /\ Opens(b, X) /\ l \in Seq(Char) /\ X \in Seq(Char)
  BY <1>1, <1>2, BareOpens
<1>4. Unquoted(b) = Stripped(x, p, i) /\ Unquoted(l) = Stripped(x, p, e)
  BY DEF Bare, Stripped
<1>5. Len(X) = Len(b) \/ X[Len(b) + 1] \in {"nl", "semi"}
  <2>1. CASE i = n + 1  BY <2>1
  <2>2. CASE i # n + 1
    <3>1. i \in p..n /\ i \in 1..n /\ i + 1 \in p..(n + 1) /\ n + 1 \in (i + 1)..(n + 1)
      BY <1>1, <1>2, <2>2
    <3>2. Ch(x, i) # EOF  BY <3>1, CharAt
    <3>3. Ch(x, i) \in {"nl", "semi"}  BY <1>1, <3>2
    <3> DEFINE c == Ch(x, i)
               w == Bare(x, p, i + 1)
    <3>4. w = Append(b, c)  BY <3>1, <3>3, BareIs
    <3>5. Opens(w, X)  BY <3>1, BareOpens
    <3>6. c \in Char  BY <3>1, CharAt
    <3> HIDE DEF b, c, w, X
    <3>7. Len(w) = Len(b) + 1 /\ w[Len(b) + 1] = c /\ Len(b) \in Nat
      BY <1>3, <3>4, <3>6
    <3>8. X[Len(b) + 1] = c  BY <3>5, <3>7 DEF Opens
    <3> QED  BY <3>3, <3>8 DEF c
  <2> QED  BY <2>1, <2>2
<1>6. Reading(Unquoted(b), FALSE) /\ ~Unquoted(l).panic
  BY <1>1, <1>4 DEF Reading
<1>7. Spoken(b, l)  BY <1>1
<1> HIDE DEF b, l, X
<1>8. Meaning(X) = Unquoted(l).out
  BY <1>3, <1>5, <1>6, <1>7, SpokenMeans
<1> QED  BY <1>8 DEF unquote

---------------------------------------------------------------------------
(* The blanks in front.                                                    *)

LEMMA BareSplit ==
  ASSUME NEW x \in Seq(Char), NEW i \in 1..(Len(x) + 1), NEW p \in i..(Len(x) + 1),
         NEW j \in p..(Len(x) + 1)
  PROVE  Bare(x, i, j) = Bare(x, i, p) \o Bare(x, p, j)
<1> DEFINE n == Len(x) + 1
           a == Bare(x, i, p)
           W(k) == Bare(x, i, k)
           B(k) == Bare(x, p, k)
           G == {k \in p..n : W(k) = a \o B(k)}
<1>1. n \in Nat /\ p \in Nat /\ i \in Nat /\ 1 <= i /\ i <= p /\ p <= n /\ Len(x) \in Nat
  OBVIOUS
<1>2. p \in i..n /\ p \in 1..n /\ p \in p..n  BY <1>1
<1>3. a \in Seq(Char)  BY <1>2, BareOpens
<1>4. p \in G
  <2>1. B(p) = << >>  BY <1>1, <1>2, BareIs
  <2> HIDE DEF a, B
  <2>2. a \o B(p) = a  BY <1>3, <2>1
  <2> QED  BY <1>2, <2>2 DEF a
<1>5. ASSUME NEW k \in p..(n - 1), k \in G PROVE k + 1 \in G
  <2>1. k \in i..Len(x) /\ k \in p..Len(x) /\ k + 1 \in p..n /\ k \in 1..Len(x) /\ k \in p..n
        /\ k \in k..n
    BY <1>1
  <2> DEFINE c == Ch(x, k)
             b == B(k)
  <2>2. c \in Char  BY <2>1, CharAt
  <2>3. W(k + 1) = IF c # "cr" THEN Append(W(k), c) ELSE W(k)  BY <2>1, BareIs
  <2>4. B(k + 1) = IF c # "cr" THEN Append(b, c) ELSE b  BY <1>2, <2>1, BareIs
  <2>5. b \in Seq(Char)  BY <1>2, <2>1, BareOpens
  <2>6. W(k) = a \o b  BY <1>5
  <2> HIDE DEF a, b, c, W, B
  <2>7. Append(a \o b, c) = a \o Append(b, c)
    <3> DEFINE y == Append(a \o b, c)
               z == a \o Append(b, c)
    <3>1. y \in Seq(Char) /\ z \in Seq(Char) /\ Len(y) = Len(z)
      BY <1>3, <2>2, <2>5
    <3>2. ASSUME NEW h \in 1..Len(y) PROVE y[h] = z[h]
      <4>1. Len(y) = Len(a) + Len(b) + 1 /\ Len(a) \in Nat /\ Len(b) \in Nat
        BY <1>3, <2>2, <2>5
      <4>2. CASE h <= Len(a)  BY <1>3, <2>2, <2>5, <4>1, <4>2
      <4>3. CASE ~(h <= Len(a)) /\ h <= Len(a) + Len(b)
        BY <1>3, <2>2, <2>5, <4>1, <4>3
      <4>4. CASE h = Len(a) + Len(b) + 1  BY <1>3, <2>2, <2>5, <4>1, <4>4
      <4> QED  BY <4>1, <4>2, <4>3, <4>4
    <3> HIDE DEF y, z
    <3>3. y = z  BY <3>1, <3>2
    <3> QED  BY <3>3 DEF y, z
  <2>8. W(k + 1) = a \o B(k + 1)  BY <2>3, <2>4, <2>6, <2>7
  <2> QED  BY <2>1, <2>8
<1> HIDE DEF G, n
<1>6. \A k \in p..(n - 1) : k \in G => k + 1 \in G  BY <1>5
<1>7. \A k \in p..n : k \in G  BY <1>1, <1>4, <1>6, CountingFrom
<1>8. j \in G  BY <1>7 DEF n
<1> QED  BY <1>8 DEF G

\* Of blanks and CRs only the blanks are left.
LEMMA BareBlanks ==
  ASSUME NEW x \in Seq(Char), NEW i \in 1..(Len(x) + 1), NEW p \in i..(Len(x) + 1),
         \A k \in i..(p - 1) : Ch(x, k) \in White
  PROVE  \A k \in 1..Len(Bare(x, i, p)) : Bare(x, i, p)[k] = "sp"
<1> DEFINE B(j) == Bare(x, i, j)
           Blanks(b) == b \in Seq(Char) /\ \A k \in 1..Len(b) : b[k] = "sp"
           G == {j \in i..p : Blanks(B(j))}
<1>1. Len(x) \in Nat /\ p \in Nat /\ i \in Nat /\ 1 <= i /\ i <= p /\ p <= Len(x) + 1
  OBVIOUS
<1>2. i \in G
  <2>1. B(i) = << >>  BY <1>1, BareIs
  <2> DEFINE e == B(i)
  <2>2. e \in Seq(Char) /\ Len(e) = 0  BY <2>1
  <2> HIDE DEF e
  <2>3. Blanks(e)  BY <2>2
  <2> QED  BY <1>1, <2>3 DEF e
<1>3. ASSUME NEW j \in i..(p - 1), j \in G PROVE j + 1 \in G
  <2>1. j \in i..Len(x) /\ j + 1 \in i..p  BY <1>1
  <2> DEFINE c == Ch(x, j)
             b == B(j)
  <2>2. B(j + 1) = IF c # "cr" THEN Append(b, c) ELSE b  BY <2>1, BareIs
  <2>3. c \in {"sp", "cr"}  BY DEF White
  <2>4. Blanks(b)  BY <1>3
  <2> HIDE DEF b, c, B
  <2>5. Blanks(Append(b, "sp"))
    <3>1. "sp" \in Char  BY DEF Char, White
    <3> DEFINE w == Append(b, "sp")
               m == Len(b)
    <3>2. m \in Nat /\ w \in Seq(Char) /\ Len(w) = m + 1 /\ w[m + 1] = "sp"
          /\ \A k \in 1..m : w[k] = b[k]
      BY <2>4, <3>1
    <3>3. \A k \in 1..m : b[k] = "sp"  BY <2>4
    <3> HIDE DEF w, m
    <3>4. \A k \in 1..(m + 1) : w[k] = "sp"  BY <3>2, <3>3
    <3> QED  BY <3>2, <3>4 DEF w, m
  <2> HIDE DEF Blanks
  <2>6. Blanks(B(j + 1))  BY <2>2, <2>3, <2>4, <2>5
  <2> QED  BY <2>1, <2>6
<1> HIDE DEF G
<1>4. \A j \in i..(p - 1) : j \in G => j + 1 \in G  BY <1>3
<1>5. \A j \in i..p : j \in G  BY <1>1, <1>2, <1>4, CountingFrom
<1>6. p \in G  BY <1>1, <1>5
<1> QED  BY <1>6 DEF G

\* Written, of any text.
WrittenIn(x, i) ==
  LET rest == SubSeq(x, i, Len(x))
      all == Picked(rest, {k \in DOMAIN rest : rest[k] # "cr"})
      lead == Min({k \in 1..(Len(all) + 1) : k > Len(all) \/ all[k] # "sp"})
  IN  Meaning(SubSeq(all, lead, Len(all)))

LEMMA WrittenIs == \A i : Written(i) = WrittenIn(src, i)
BY DEF Written, WrittenIn, Meaning, ValueLast, ValueEnd

LEMMA WrittenFrom ==
  ASSUME NEW x \in Seq(Char), NEW i \in 1..(Len(x) + 1)
  PROVE  WrittenIn(x, i) = Meaning(Bare(x, After(x, White, i), Len(x) + 1))
<1> DEFINE n == Len(x) + 1
           p == After(x, White, i)
           rest == SubSeq(x, i, Len(x))
           all == Bare(x, i, n)
           a == Bare(x, i, p)
           b == Bare(x, p, n)
           Lead(y) == {k \in 1..(Len(y) + 1) : k > Len(y) \/ y[k] # "sp"}
<1>1. n \in Nat /\ i \in Nat /\ Len(x) \in Nat /\ n - 1 = Len(x) /\ 1 <= i /\ i <= n
  OBVIOUS
<1>2. EOF \notin White  BY DEF EOF, White
<1>3. p \in i..n /\ Ch(x, p) \notin White /\ \A k \in i..(p - 1) : Ch(x, k) \in White
  BY <1>2, AfterIs
<1> HIDE DEF p
<1>4. p \in 1..n /\ n \in p..n /\ n \in i..n /\ p \in Nat /\ p \in p..n /\ n \in n..n
  BY <1>1, <1>3
<1>5. rest \in Seq(Char)  BY <1>1
<1>6. Picked(rest, {k \in DOMAIN rest : rest[k] # "cr"}) = all
  <2>1. Picked(rest, {k \in DOMAIN rest : rest[k] # "cr"}) = stripCR(rest)
    BY <1>5, StripPicks
  <2> QED  BY <1>1, <2>1 DEF Bare
<1>7. all = a \o b  BY <1>3, <1>4, BareSplit
<1>8. a \in Seq(Char) /\ b \in Seq(Char) /\ all \in Seq(Char)
  BY <1>3, <1>4, BareOpens
<1>9. \A k \in 1..Len(a) : a[k] = "sp"  BY <1>3, BareBlanks
<1>10. Len(b) = 0 \/ b[1] # "sp"
  <2>1. CASE p = n
    <3>1. b = << >>  BY <1>4, <2>1, BareIs
    <3> QED  BY <3>1
  <2>2. CASE p # n
    <3>1. p \in p..Len(x) /\ p \in 1..Len(x) /\ p + 1 \in p..n /\ n \in (p + 1)..n
      BY <1>1, <1>3, <1>4, <2>2
    <3> DEFINE c == Ch(x, p)
               w == Bare(x, p, p + 1)
    <3>2. c \in Char /\ c # "cr" /\ c # "sp"  BY <1>3, <3>1, CharAt DEF White
    <3>3. Bare(x, p, p) = << >>  BY <1>4, BareIs
    <3>4. w = Append(<< >>, c)  BY <1>4, <3>1, <3>2, <3>3, BareIs
    <3>5. Opens(w, b)  BY <1>4, <3>1, BareOpens
    <3> HIDE DEF b, c, w
    <3>6. Len(w) = 1 /\ w[1] = c  BY <3>2, <3>4
    <3>7. b[1] = c  BY <3>5, <3>6 DEF Opens
    <3> QED  BY <3>2, <3>7
  <2> QED  BY <2>1, <2>2
<1> HIDE DEF a, b, all, rest
<1>11. Len(a) \in Nat /\ Len(b) \in Nat /\ Len(all) = Len(a) + Len(b)  BY <1>7, <1>8
<1>12. Min(Lead(all)) = Len(a) + 1
  <2>1. \A k \in 1..Len(a) : all[k] = a[k]  BY <1>7, <1>8
  <2>2. Len(b) # 0 => all[Len(a) + 1] = b[1]  BY <1>7, <1>8, <1>11
  <2>3. Lead(all) \in SUBSET Nat  OBVIOUS
  <2>4. Len(a) + 1 \in Lead(all)
    <3>1. Len(a) + 1 \in 1..(Len(all) + 1)  BY <1>11
    <3>2. Len(b) = 0 => Len(a) + 1 > Len(all)  BY <1>11
    <3>3. Len(b) # 0 => all[Len(a) + 1] # "sp"  BY <1>10, <2>2
    <3> QED  BY <3>1, <3>2, <3>3
  <2>5. ASSUME NEW k \in Lead(all) PROVE Len(a) + 1 <= k
    <3> SUFFICES ASSUME k <= Len(a) PROVE FALSE  BY <1>11
    <3>1. k \in 1..Len(a)  BY <1>11
    <3>2. all[k] = "sp"  BY <1>9, <2>1, <3>1
    <3> QED  BY <1>11, <3>1, <3>2
  <2> HIDE DEF Lead
  <2> QED  BY <2>3, <2>4, <2>5, MinIs
<1>13. SubSeq(all, Len(a) + 1, Len(all)) = b
  <2> DEFINE y == SubSeq(all, Len(a) + 1, Len(all))
  <2>1. y \in Seq(Char) /\ Len(y) = Len(b)  BY <1>8, <1>11
  <2>2. ASSUME NEW k \in 1..Len(b) PROVE y[k] = b[k]
    <3>1. y[k] = all[Len(a) + k]  BY <1>8, <1>11
    <3>2. all[Len(a) + k] = b[k]  BY <1>7, <1>8, <1>11
    <3> QED  BY <3>1, <3>2
  <2> HIDE DEF y
  <2>3. y = b  BY <1>8, <2>1, <2>2
  <2> QED  BY <2>3 DEF y
<1>14. WrittenIn(x, i) = Meaning(SubSeq(all, Min(Lead(all)), Len(all)))
  BY <1>6 DEF WrittenIn, rest
<1> QED  BY <1>12, <1>13, <1>14 DEF b, p

\* The token behind a '='.
LEMMA ValueToken ==
  ASSUME NEW x \in Seq(Char), NEW i \in 1..(Len(x) + 1), Scan(x, i, TRUE).kind # "ERROR"
  PROVE  unquote(Scan(x, i, TRUE).lit).out = WrittenIn(x, i)
<1> DEFINE p == After(x, White, i)
           v == scanValString(x, AllOfIt(p, FALSE))
           lit == stripCR(SubSeq(x, p, v.end - 1))
           tok == Token(x, "STRING", lit, p, v.at)
<1>1. Scan(x, i, TRUE) = tok
  BY ScanParts DEF TokenFrom, ValueFrom, TokenAt, Blank
<1>2. p \in 1..(Len(x) + 1)
  <2>0. EOF \notin White  BY DEF EOF, White
  <2>1. p \in i..(Len(x) + 1) /\ Len(x) \in Nat  BY <2>0, AfterRight
  <2> QED  BY <2>1
<1> HIDE DEF p, v, lit
<1>3. tok.lit = lit /\ tok.kind = IF v.at > 0 /\ Readable(x, v.at) THEN "STRING" ELSE "ERROR"
  BY TokenFields
<1>4. v.at > 0  BY <1>1, <1>3
<1>5. v.at # 0  BY <1>4
<1>6. unquote(lit).out = Meaning(Bare(x, p, Len(x) + 1))
  BY <1>2, <1>5, ValueMeans DEF lit, v
<1>7. WrittenIn(x, i) = Meaning(Bare(x, p, Len(x) + 1))  BY WrittenFrom DEF p
<1> HIDE DEF tok
<1> QED  BY <1>1, <1>3, <1>6, <1>7

\* Where readInto wants a value it looks at what the scanner read behind the '='.
WordedInv ==
  /\ Looking("value") => from \in 1..(Len(src) + 1) /\ t = Scan(src, from, TRUE)
  /\ ValueReadAsWritten

LEMMA ElsewhereWordedInv ==
  ASSUME result' # "reading" \/ want' \notin {"value", "value end"}
  PROVE  WordedInv'
BY DEF WordedInv, ValueReadAsWritten, Looking

LEMMA InitWordedInv == Init => WordedInv
BY DEF Init, WordedInv, ValueReadAsWritten, Looking

LEMMA AssignWordedInv ==
  ASSUME GInv, Assign, src' = src
  PROVE  WordedInv'
<1>1. t.kind = "ASSIGN" /\ from' = t.at /\ want' = "value"  BY DEF Assign
<1>2. t.at \in 1..(Len(src) + 1)  BY <1>1 DEF GInv, TokenRight
<1>3. (t.kind = "ASSIGN") = TRUE  BY <1>1
<1>4. t' = Scan(src, t.at, TRUE)  BY <1>3 DEF Assign, ScanNext
<1> DEFINE s(x, i) == Scan(x, i, TRUE)
<1> HIDE DEF s
<1>5. t' = s(src', from')  BY <1>1, <1>4 DEF s
<1>6. t' = Scan(src, from, TRUE)'  BY <1>5 DEF s
<1>7. (from \in 1..(Len(src) + 1))'  BY <1>1, <1>2
<1>8. ValueReadAsWritten'  BY <1>1 DEF ValueReadAsWritten, Looking
<1> QED  BY <1>6, <1>7, <1>8 DEF WordedInv

LEMMA ValueWordedInv ==
  ASSUME GInv, WordedInv, Value, src' = src
  PROVE  WordedInv'
<1>1. Looking("value") /\ t.kind = "STRING"  BY DEF Value
<1>2. from \in 1..(Len(src) + 1) /\ t = Scan(src, from, TRUE) /\ src \in Seq(Char)
  BY <1>1 DEF WordedInv, GInv, Text
<1>3. ~unquote(t.lit).panic  BY <1>1 DEF GInv, TokenRight
<1>4. val' = unquote(t.lit).out /\ want' = "value end" /\ from' = from
  BY <1>3 DEF Value
<1>5. unquote(t.lit).out = WrittenIn(src, from)  BY <1>1, <1>2, ValueToken
<1>6. val' = WrittenIn(src, from)  BY <1>4, <1>5
<1>7. Written(from)' = WrittenIn(src', from')
  BY DEF Written, WrittenIn, Meaning, ValueLast, ValueEnd
<1>8. WrittenIn(src', from') = WrittenIn(src, from)  BY <1>4
<1>9. val' = Written(from)'  BY <1>6, <1>7, <1>8
<1> QED  BY <1>4, <1>9 DEF WordedInv, ValueReadAsWritten, Looking

LEMMA NextWordedInv == GInv /\ WordedInv /\ [Next]_vars => WordedInv'
<1> SUFFICES ASSUME GInv, WordedInv, [Next]_vars PROVE WordedInv'  OBVIOUS
<1>1. CASE UNCHANGED vars
  <2>1. UNCHANGED <<src, t, want, val, result, from>>  BY <1>1 DEF vars, parser
  <2>2. Written(from)' = WrittenIn(src', from') /\ Written(from) = WrittenIn(src, from)
    BY DEF Written, WrittenIn, Meaning, ValueLast, ValueEnd
  <2>3. Written(from)' = Written(from)  BY <2>1, <2>2
  <2>4. Scan(src, from, TRUE)' = Scan(src, from, TRUE)
    <3> DEFINE s(x, i) == Scan(x, i, TRUE)
    <3>1. Scan(src, from, TRUE)' = s(src', from') /\ Scan(src, from, TRUE) = s(src, from)
      OBVIOUS
    <3> HIDE DEF s
    <3> QED  BY <2>1, <3>1
  <2> QED  BY <2>1, <2>3, <2>4 DEF WordedInv, ValueReadAsWritten, Looking
<1>2. CASE Reread  BY <1>2, ElsewhereWordedInv DEF Reread
<1>3. CASE Read
  <2>1. src' = src  BY <1>3 DEF Read
  <2>2. CASE Assign  BY <2>1, <2>2, AssignWordedInv
  <2>3. CASE Value  BY <2>1, <2>3, ValueWordedInv
  <2>4. CASE EndOfText \/ EndOfLine \/ Bracket \/ Variable \/ NotAStatement \/ Section
    BY <2>4, ElsewhereWordedInv
    DEF EndOfText, EndOfLine, Bracket, Variable, NotAStatement, Section, Looking, Fail
  <2>5. CASE Subsection
    BY <2>5, ElsewhereWordedInv DEF Subsection, Panic, Fail
  <2>6. CASE CloseBracket \/ HeaderEnd \/ Unexpected
    BY <2>6, ElsewhereWordedInv DEF CloseBracket, HeaderEnd, Unexpected, Fail
  <2>7. CASE SetBlank  BY <2>7, ElsewhereWordedInv DEF SetBlank, Set, Looking
  <2>8. CASE SetValue  BY <2>8, ElsewhereWordedInv DEF SetValue, Set, Looking
  <2> QED  BY <1>3, <2>2, <2>3, <2>4, <2>5, <2>6, <2>7, <2>8 DEF Read
<1> QED  BY <1>1, <1>2, <1>3 DEF Next

\* A value that is set is what the text means, for every text: the literal that
\* scanValString and stripCR cut out and the second pass of unquote over it agree
\* with quotes, escapes, blanks, comments, CRs and broken lines as Written has them.
THEOREM ValuesRight == Spec => []ValueReadAsWritten
<1>1. WordedInv => ValueReadAsWritten  BY DEF WordedInv
<1> QED  BY <1>1, InitGInv, NextGInv, InitWordedInv, NextWordedInv, PTL DEF Spec
=============================================================================
