------------------------------ MODULE MCDelta ------------------------------
EXTENDS Delta, TLC

CONSTANTS m1, m2, m3, m4, k1, k2, k3, h1, h2

\* Four names, two of them with one siphash: one can be in hand at deltaSender,
\* one fill the queue, and one wait to be offered.
Collide   == m1 :> k1 @@ m2 :> k2 @@ m3 :> k2 @@ m4 :> k3
TwoHosts  == m1 :> h1 @@ m2 :> h2 @@ m3 :> h1 @@ m4 :> h1

\* Two names that do not collide.
TwoNames  == m1 :> k1 @@ m2 :> k2
OneEach   == m1 :> h1 @@ m2 :> h2
=============================================================================
