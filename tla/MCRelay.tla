------------------------------ MODULE MCRelay ------------------------------
EXTENDS Relay, TLC

CONSTANTS c1, c2, s1, s2, h1, h2, m1, m2

\* Two storages with one sender each; Rf = 2.  The metrics' replica lists are in
\* opposite orders.
PairHostOf   == s1 :> h1 @@ s2 :> h2
RingReplicas == m1 :> <<h1, h2>> @@ m2 :> <<h2, h1>>

\* One storage with two sender instances.
TwinHostOf     == s1 :> h1 @@ s2 :> h1
SingleReplicas == m1 :> <<h1>>

\* Which lines are settled, but not how often they were stored and failed to be,
\* which no guard reads and only OutcomeExplained and ImplementsDelivery ask for.
WithoutOutcomes ==
  <<conn, deltaChan, pipe, buf, send, tick, phase, retry, mon,
    [s \in Senders |-> LinesOf(settled[s])]>>
=============================================================================
