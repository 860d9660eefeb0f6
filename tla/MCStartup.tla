----------------------------- MODULE MCStartup -----------------------------
EXTENDS Startup, TLC

CONSTANTS a, b

\* Replicas on the smallest and the largest hash and between; hash 3 is a name
\* only.
TwoPoints == a :> {0, 2} @@ b :> {1, 4}

Def(form, host, port, num) == [form |-> form, host |-> host, port |-> port, num |-> num]

Local == Def("good", a, 1, 1)

\* Up to three definitions: no senders, one and two, two ports of one host,
\* passed over and malformed ones.
Defs ==
  {Def("good", h, 1, n) : h \in Hosts, n \in 0..2}
  \cup {Def("good", a, 2, 1), Def("short", a, 1, 1), Def("malformed", a, 1, 1)}
SomeLists == UNION {[1..n -> Defs] : n \in 0..3}
SomeRfs   == -1..3
=============================================================================
