---------------------------- MODULE DeltaProofs ----------------------------
(***************************************************************************)
(* Theorems about DeltaManager and deltaSender, for every set of names,    *)
(* every hash function, collisions included, and every capacity: no name   *)
(* is offered to the index twice, and none that was taken is forgotten.    *)
(***************************************************************************)
EXTENDS Delta, TLAPS, SequenceTheorems

-----------------------------------------------------------------------------
(* The inductive invariant *)

\* Nothing is known before the dump has been read; a name DeltaManager holds
\* in its hand while it waits for room in delta is new.  deltaSender holds a
\* CacheItem only while it has an attempt left.
InHand ==
  /\ phase = "load" => offered = << >> /\ seen = {}
  /\ phase = "send" => HashOf[item] \notin cache
  /\ sending # Nothing => retry < MaxRetry

IInv == TypeOK /\ InHand /\ OfferedOnce /\ CacheExplained

-----------------------------------------------------------------------------
\* A sequence that is not empty gives up its head.
LEMMA HeadTail ==
  ASSUME NEW S, NEW q \in Seq(S), q # << >>
  PROVE  Head(q) \in S /\ Tail(q) \in Seq(S) /\ Len(Tail(q)) = Len(q) - 1
BY HeadTailProperties

\* What is put at the end of a sequence joins what it holds.
LEMMA Appended ==
  ASSUME NEW S, NEW q \in Seq(S), NEW x \in S
  PROVE  /\ Append(q, x) \in Seq(S) /\ Len(Append(q, x)) = Len(q) + 1
         /\ DOMAIN q = 1..Len(q) /\ DOMAIN Append(q, x) = 1..(Len(q) + 1)
         /\ \A i \in 1..Len(q) : Append(q, x)[i] = q[i]
         /\ Append(q, x)[Len(q) + 1] = x
BY AppendProperties

LEMMA InitIInv == Init => IInv
<1> SUFFICES ASSUME Init PROVE IInv  OBVIOUS
<1> USE DeltaAssumption
<1>1. (CHOOSE m \in Metrics : TRUE) \in Metrics  OBVIOUS
<1>2. TypeOK  BY <1>1 DEF Init, TypeOK
<1>3. InHand /\ OfferedOnce /\ CacheExplained
  BY DEF Init, InHand, OfferedOnce, CacheExplained, Offered
<1> QED  BY <1>2, <1>3 DEF IInv

LEMMA NextTypeOK == IInv /\ [Next]_vars => TypeOK'
<1> SUFFICES ASSUME TypeOK, InHand, [Next]_vars PROVE TypeOK'
  BY DEF IInv
<1> USE DeltaAssumption DEF TypeOK
<1>1. ASSUME NEW m \in Metrics, Announce(m) PROVE TypeOK'
  <2>1. deltaChan' \in Seq(Metrics) /\ Len(deltaChan') <= DeltaLimit
    BY <1>1, Appended DEF Announce
  <2> QED  BY <1>1, <2>1 DEF Announce, managerVars, senderVars
<1>2. CASE Fail
  BY <1>2 DEF Fail, managerVars, senderVars
<1>3. CASE Recover
  BY <1>3 DEF Recover, managerVars, senderVars
<1>4. CASE loadCache
  BY <1>4 DEF loadCache, senderVars
<1>5. CASE Take
  <2>1. /\ deltaChan' \in Seq(Metrics) /\ Len(deltaChan') <= DeltaLimit
        /\ item' \in Metrics /\ seen' \subseteq Metrics
    BY <1>5, HeadTail DEF Take
  <2> QED  BY <1>5, <2>1 DEF Take, senderVars
<1>6. CASE Offer
  <2>1. [metric |-> item, storage |-> StorageOf[item]] \in CacheItem
    BY DEF CacheItem
  <2>2. delta' \in Seq(CacheItem) /\ Len(delta') <= QueueLimit
    BY <1>6, <2>1, Appended DEF Offer
  <2>3. offered' \in Seq(CacheItem)
    BY <1>6, <2>1, Appended DEF Offer
  <2>4. cache' \subseteq Hashes
    BY <1>6 DEF Offer, Remember
  <2> QED  BY <1>6, <2>2, <2>3, <2>4 DEF Offer, senderVars
<1>7. CASE Receive
  <2>1. /\ delta' \in Seq(CacheItem) /\ Len(delta') <= QueueLimit
        /\ sending' \in CacheItem
    BY <1>7, HeadTail DEF Receive
  <2> QED  BY <1>7, <2>1 DEF Receive, managerVars
<1>8. CASE AddOk
  <2>1. index' \subseteq Metrics
    BY <1>8 DEF AddOk, CacheItem
  <2> QED  BY <1>8, <2>1 DEF AddOk, managerVars
<1>9. CASE AddFail
  <2>1. index' \subseteq Metrics
    BY <1>9 DEF AddFail, CacheItem
  <2>2. retry' \in 0..MaxRetry
    BY <1>9 DEF AddFail, InHand
  <2>3. sending' \in CacheItem \cup {Nothing}
    BY <1>9 DEF AddFail, AfterFailure
  <2> QED  BY <1>9, <2>1, <2>2, <2>3 DEF AddFail, managerVars
<1>10. CASE UNCHANGED vars
  BY <1>10 DEF vars
<1> QED
  BY <1>1, <1>2, <1>3, <1>4, <1>5, <1>6, <1>7, <1>8, <1>9, <1>10 DEF Next

\* Whatever does not touch what InHand, OfferedOnce and CacheExplained speak of.
LEMMA Untouched ==
  ASSUME InHand, OfferedOnce, CacheExplained,
         UNCHANGED <<cache, phase, item, loaded, strays, seen, offered>>,
         sending' # Nothing => retry' < MaxRetry
  PROVE  InHand' /\ OfferedOnce' /\ CacheExplained'
<1>1. InHand'  BY DEF InHand
<1>2. OfferedOnce'  BY DEF OfferedOnce, Offered
<1>3. CacheExplained'  BY DEF CacheExplained, Offered
<1> QED  BY <1>1, <1>2, <1>3

\* A new name goes to deltaSender and into the cache in one go.
LEMMA OfferKeeps ==
  ASSUME IInv, Offer
  PROVE  InHand' /\ OfferedOnce' /\ CacheExplained'
<1> USE DEF IInv
<1> DEFINE x == [metric |-> item, storage |-> StorageOf[item]]
<1>x. x \in CacheItem /\ x.metric = item
  BY DeltaAssumption DEF TypeOK, CacheItem
<1>o. offered \in Seq(CacheItem) /\ offered' = Append(offered, x)
  BY DEF Offer, TypeOK
<1> HIDE DEF x
<1>a. /\ DOMAIN offered = 1..Len(offered) /\ Len(offered) \in Nat
      /\ DOMAIN offered' = 1..(Len(offered) + 1)
      /\ \A i \in 1..Len(offered) : offered'[i] = offered[i]
      /\ offered'[Len(offered) + 1] = x
  BY <1>x, <1>o, Appended
<1>b. Offered' = Offered \cup {item}
  <2>1. \A m \in Offered : m \in Offered'
    BY <1>a DEF Offered
  <2>2. item \in Offered'
    BY <1>a, <1>x DEF Offered
  <2>3. \A m \in Offered' : m \in Offered \cup {item}
    BY <1>a, <1>x DEF Offered
  <2> QED  BY <2>1, <2>2, <2>3
<1>c. HashOf[item] \notin cache /\ cache' = cache \cup {HashOf[item]}
  BY DEF InHand, Offer, Remember
<1>d. UNCHANGED <<loaded, strays, seen, item>> /\ phase' = "receive" /\ phase = "send"
  BY DEF Offer
<1>1. InHand'
  BY DEF InHand, Offer, senderVars
<1>2. CacheExplained'
  <2>1. cache' = {HashOf[m] : m \in loaded' \cup Offered'} \cup strays'
    BY <1>b, <1>c, <1>d DEF CacheExplained
  <2>2. \A m \in seen' : HashOf[m] \in cache'
    BY <1>c, <1>d DEF CacheExplained
  <2> QED  BY <2>1, <2>2 DEF CacheExplained
<1>3. OfferedOnce'
  <2>1. \A i \in 1..Len(offered) : HashOf[offered[i].metric] # HashOf[item]
    BY <1>a, <1>c DEF CacheExplained, Offered
  <2>2. ASSUME NEW i \in DOMAIN offered', NEW j \in DOMAIN offered',
               HashOf[offered'[i].metric] = HashOf[offered'[j].metric]
        PROVE  i = j
    <3>1. CASE i \in 1..Len(offered) /\ j \in 1..Len(offered)
      BY <1>a, <2>2, <3>1 DEF OfferedOnce
    <3>2. CASE i = Len(offered) + 1 /\ j \in 1..Len(offered)
      BY <1>a, <1>x, <2>1, <2>2, <3>2
    <3>3. CASE i \in 1..Len(offered) /\ j = Len(offered) + 1
      BY <1>a, <1>x, <2>1, <2>2, <3>3
    <3> QED  BY <1>a, <3>1, <3>2, <3>3
  <2>3. \A m \in Offered' : HashOf[m] \notin {HashOf[l] : l \in loaded'} \cup strays'
    BY <1>b, <1>c, <1>d DEF OfferedOnce, CacheExplained
  <2> QED  BY <2>2, <2>3 DEF OfferedOnce
<1> QED  BY <1>1, <1>2, <1>3

LEMMA NextIInv == IInv /\ [Next]_vars => IInv'
<1> SUFFICES ASSUME IInv, [Next]_vars PROVE InHand' /\ OfferedOnce' /\ CacheExplained'
  BY NextTypeOK DEF IInv
<1> USE DEF IInv
<1>1. ASSUME NEW m \in Metrics, Announce(m)
      PROVE  InHand' /\ OfferedOnce' /\ CacheExplained'
  BY <1>1, Untouched DEF Announce, managerVars, senderVars, InHand
<1>2. CASE Fail
  BY <1>2, Untouched DEF Fail, managerVars, senderVars, InHand
<1>3. CASE Recover
  BY <1>3, Untouched DEF Recover, managerVars, senderVars, InHand
<1>4. CASE loadCache
  <2>1. offered' = << >> /\ seen' = {} /\ phase' = "receive"
    BY <1>4 DEF loadCache, InHand
  <2>2. Offered' = {}
    BY <2>1 DEF Offered
  <2>3. cache' = {HashOf[m] : m \in loaded'} \cup strays'
    BY <1>4 DEF loadCache
  <2>4. InHand'
    BY <1>4, <2>1 DEF InHand, loadCache, senderVars
  <2>5. OfferedOnce'
    BY <2>1, <2>2 DEF OfferedOnce
  <2>6. CacheExplained'
    BY <2>1, <2>2, <2>3 DEF CacheExplained
  <2> QED  BY <2>4, <2>5, <2>6
<1>5. CASE Take
  <2>1. /\ UNCHANGED <<cache, loaded, strays, offered, sending, retry>>
        /\ phase = "receive" /\ seen' = seen \cup {item'}
        /\ phase' = IF HashOf[item'] \in cache THEN "receive" ELSE "send"
    BY <1>5 DEF Take, Known, senderVars
  <2>2. InHand'
    BY <2>1 DEF InHand
  <2>3. OfferedOnce'
    BY <2>1 DEF OfferedOnce, Offered
  <2>4. CacheExplained'
    BY <2>1 DEF CacheExplained, Offered
  <2> QED  BY <2>2, <2>3, <2>4
<1>6. CASE Offer
  BY <1>6, OfferKeeps
<1>7. CASE Receive
  BY <1>7, Untouched, DeltaAssumption DEF Receive, managerVars
<1>8. CASE AddOk
  BY <1>8, Untouched DEF AddOk, managerVars
<1>9. CASE AddFail
  BY <1>9, Untouched DEF AddFail, AfterFailure, managerVars
<1>10. CASE UNCHANGED vars
  BY <1>10, Untouched DEF vars, InHand
<1> QED
  BY <1>1, <1>2, <1>3, <1>4, <1>5, <1>6, <1>7, <1>8, <1>9, <1>10 DEF Next

LEMMA Invariant == Spec => []IInv
BY InitIInv, NextIInv, PTL DEF Spec

-----------------------------------------------------------------------------
(* The theorems *)

\* No name is offered to metricsearch twice, and none whose hash the dump held:
\* a name in hand has a hash the cache lacks (InHand), and the cache holds the
\* hash of every name offered.
THEOREM NoNameTwice == Spec => []OfferedOnce
BY Invariant, PTL DEF IInv

\* Nothing gets into the cache but from the dump or with an offer, and no name
\* that was taken off DeltaChan is forgotten.
THEOREM CacheRight == Spec => []CacheExplained
BY Invariant, PTL DEF IInv
=============================================================================
