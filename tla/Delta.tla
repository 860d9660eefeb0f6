------------------------------- MODULE Delta -------------------------------
(***************************************************************************)
(* New metric names on their way to the metricsearch index,                *)
(* src/src/cacher/delta/delta.go: DeltaManager takes every announced name  *)
(* off boss.DeltaChan, passes the ones its cache does not know on to       *)
(* deltaSender, and deltaSender adds them to the index over HTTP.          *)
(***************************************************************************)
EXTENDS Naturals, Sequences, FiniteSets

CONSTANTS
  Metrics,     \* metric names
  Hashes,      \* what siphash.Hash answers
  HashOf,      \* [Metrics -> Hashes]; two names may share a hash
  Hosts,       \* storage hosts
  Stray,       \* hashes of other lines an answer to the dump may hold: a name
               \* that is cut off where it breaks, the text of an error page
  StorageOf,   \* [Metrics -> Hosts], the only storage or the ring's first
  DeltaLimit,  \* capacity of boss.DeltaChan (5000000 in the code)
  QueueLimit,  \* capacity of the channel delta (100000 in the code)
  MaxRetry     \* attempts at a name (3 in the code)

ASSUME DeltaAssumption ==
  /\ HashOf \in [Metrics -> Hashes]
  /\ StorageOf \in [Metrics -> Hosts]
  /\ Metrics # {} /\ Stray \subseteq Hashes
  /\ DeltaLimit \in Nat \ {0} /\ QueueLimit \in Nat \ {0} /\ MaxRetry \in Nat \ {0}

VARIABLES
  deltaChan,   \* boss.DeltaChan
  cache,       \* the keys of the map cache
  phase,       \* DeltaManager: loading, receiving, or sending item on delta
  item,        \* the local m of DeltaManager
  delta,       \* the channel delta, of CacheItems
  sending,     \* deltaSender: idle or in the retry loop with a CacheItem
  retry,
  index,       \* metricsearch: the names it has
  down         \* metricsearch: requests fail

\* History: the names and the stray hashes loadCache read, the names taken off
\* DeltaChan, the CacheItems put on delta, in order.
VARIABLES loaded, strays, seen, offered

managerVars == <<cache, phase, item, loaded, strays, seen, offered>>
senderVars  == <<sending, retry, index>>
vars == <<deltaChan, cache, phase, item, delta, sending, retry, index, down,
          loaded, strays, seen, offered>>

CacheItem == [metric : Metrics, storage : Hosts]
Nothing   == [metric |-> "none"]

Init ==
  /\ deltaChan = << >> /\ delta = << >>
  /\ cache = {} /\ loaded = {} /\ strays = {} /\ seen = {} /\ offered = << >>
  /\ phase = "load" /\ item = (CHOOSE m \in Metrics : TRUE)
  /\ sending = Nothing /\ retry = 0
  /\ index \in SUBSET Metrics /\ down \in BOOLEAN

\* A connection, or the monitor, puts a name on DeltaChan.
Announce(m) ==
  /\ Len(deltaChan) < DeltaLimit
  /\ deltaChan' = Append(deltaChan, m)
  /\ UNCHANGED <<delta, down, managerVars, senderVars>>

\* metricsearch comes and goes.
Fail == ~down /\ down' = TRUE /\ UNCHANGED <<deltaChan, delta, managerVars, senderVars>>
Recover == down /\ down' = FALSE /\ UNCHANGED <<deltaChan, delta, managerVars, senderVars>>

-----------------------------------------------------------------------------
(* DeltaManager *)

\* loadCache reads the answer to the dump, to its end or to the error that cuts
\* it short, a line that is cut off included; its status is not looked at, and
\* no answer at all leaves the cache empty.
loadCache ==
  /\ phase = "load"
  /\ \E dump \in SUBSET index, stray \in SUBSET Stray :
       /\ cache' = {HashOf[m] : m \in dump} \cup stray
       /\ loaded' = dump /\ strays' = stray
  /\ phase' = "receive"
  /\ UNCHANGED <<deltaChan, delta, down, item, seen, offered, senderVars>>

\* Mutant: every name is new.
NeverKnown(m) == FALSE

Known(m) == HashOf[m] \in cache

\* A new name has a storage: GetN's error and an empty answer, which only a ring
\* without members gives, are left out, as start-up fills the ring first. GetN is
\* taken to return, which it may not where Rf is above the number of hosts
\* (GetNReturns in Consistent).
Take ==
  /\ phase = "receive" /\ deltaChan # << >>
  /\ deltaChan' = Tail(deltaChan)
  /\ item' = Head(deltaChan)
  /\ seen' = seen \cup {Head(deltaChan)}
  /\ phase' = IF Known(Head(deltaChan)) THEN "receive" ELSE "send"
  /\ UNCHANGED <<delta, down, cache, loaded, strays, offered, senderVars>>

\* Mutant: the cache is not told.
Forget == UNCHANGED cache

Remember == cache' = cache \cup {HashOf[item]}

\* delta <- CacheItem, which blocks while delta is full; the cache after it.
Offer ==
  /\ phase = "send"
  /\ Len(delta) < QueueLimit
  /\ delta' = Append(delta, [metric |-> item, storage |-> StorageOf[item]])
  /\ offered' = Append(offered, [metric |-> item, storage |-> StorageOf[item]])
  /\ Remember
  /\ phase' = "receive"
  /\ UNCHANGED <<deltaChan, down, item, loaded, strays, seen, senderVars>>

-----------------------------------------------------------------------------
(* deltaSender *)

\* Mutant: deltaSender returns where it gives a name up.
ReceiveUntilFailure ==
  /\ sending = Nothing /\ delta # << >> /\ retry < MaxRetry
  /\ sending' = Head(delta)
  /\ delta' = Tail(delta)
  /\ retry' = 0
  /\ UNCHANGED <<deltaChan, down, index, managerVars>>

Receive ==
  /\ sending = Nothing /\ delta # << >>
  /\ sending' = Head(delta)
  /\ delta' = Tail(delta)
  /\ retry' = 0
  /\ UNCHANGED <<deltaChan, down, index, managerVars>>

\* The request is answered with 200.
AddOk ==
  /\ sending # Nothing /\ ~down
  /\ index' = index \cup {sending.metric}
  /\ sending' = Nothing
  /\ UNCHANGED <<deltaChan, delta, down, retry, managerVars>>

AfterFailure(attempts) == IF attempts < MaxRetry THEN sending ELSE Nothing

\* The request fails, its answer is lost or is not 200; it is repeated at once
\* and the name forgotten after the last attempt.
AddFail ==
  /\ sending # Nothing /\ down
  /\ \E reached \in BOOLEAN :
       index' = IF reached THEN index \cup {sending.metric} ELSE index
  /\ retry' = retry + 1
  /\ sending' = AfterFailure(retry + 1)
  /\ UNCHANGED <<deltaChan, delta, down, managerVars>>

Next ==
  \/ \E m \in Metrics : Announce(m)
  \/ Fail
  \/ Recover
  \/ loadCache
  \/ Take
  \/ Offer
  \/ Receive
  \/ AddOk
  \/ AddFail

Spec == Init /\ [][Next]_vars

\* A goroutine that can run does, and a request ends: deltaSender's carries a
\* 60 s deadline.  loadCache's has none, DialTimeoutLong is not used: nothing
\* says that it ends.
Fairness ==
  /\ WF_vars(Take) /\ WF_vars(Offer)
  /\ WF_vars(Receive) /\ WF_vars(AddOk \/ AddFail)

FairSpec == Spec /\ Fairness

-----------------------------------------------------------------------------
(* Properties *)

TypeOK ==
  /\ deltaChan \in Seq(Metrics) /\ Len(deltaChan) <= DeltaLimit
  /\ cache \subseteq Hashes
  /\ phase \in {"load", "receive", "send"} /\ item \in Metrics
  /\ delta \in Seq(CacheItem) /\ Len(delta) <= QueueLimit
  /\ sending \in CacheItem \cup {Nothing} /\ retry \in 0..MaxRetry
  /\ index \subseteq Metrics /\ down \in BOOLEAN
  /\ loaded \subseteq Metrics /\ strays \subseteq Stray /\ seen \subseteq Metrics
  /\ offered \in Seq(CacheItem)

Offered == {offered[i].metric : i \in DOMAIN offered}

\* However often a name is announced, no name is offered to the index twice,
\* and none whose hash was in the dump, or like something the dump held.
OfferedOnce ==
  /\ \A i, j \in DOMAIN offered :
       HashOf[offered[i].metric] = HashOf[offered[j].metric] => i = j
  /\ \A m \in Offered : HashOf[m] \notin {HashOf[l] : l \in loaded} \cup strays

\* Each hash in the cache is explained: its name was in the dump or was offered,
\* or the dump held something like it; and no name that was taken off DeltaChan
\* is forgotten: it is in hand or its hash is in the cache.
CacheExplained ==
  /\ cache = {HashOf[m] : m \in loaded \cup Offered} \cup strays
  /\ \A m \in seen : HashOf[m] \in cache \/ (phase = "send" /\ item = m)

\* If the dump ever ends, no outage of metricsearch stops the consumer of
\* DeltaChan for good: who waits for room, a connection or the monitor, gets it.
DeltaDrains ==
  <>(phase # "load") =>
    (Len(deltaChan) = DeltaLimit ~> Len(deltaChan) < DeltaLimit)

\* cacher.go:247: "all monitor metrics must exist in metricsearch index".  A
\* name announced again and again reaches an index that recovers for good.
EveryMetricIndexed ==
  (<>(phase # "load") /\ <>[]~down
     /\ \A m \in Metrics : []<>(deltaChan # << >> /\ Head(deltaChan) = m))
    => \A m \in Metrics : <>(m \in index)
=============================================================================
