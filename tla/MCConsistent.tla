---------------------------- MODULE MCConsistent ----------------------------
EXTENDS Consistent, TLC

CONSTANTS a, b, c, r1, w1

\* Two replicas each, on the smallest and the largest hash, side by side (c's)
\* and apart; the hashes 2 and 6 are names only.
Spread    == a :> {0, 3} @@ b :> {1, 7} @@ c :> {4, 5}
\* The same with a point that a and b share; hash 2 is a name only.
Colliding == a :> {0, 4} @@ b :> {1, 4} @@ c :> {3, 5}

SomeSets == {<< >>, <<c>>, <<a, b>>, <<b, b>>, <<c, b, a>>}
NoSets   == {}
=============================================================================
