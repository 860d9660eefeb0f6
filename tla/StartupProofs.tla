--------------------------- MODULE StartupProofs ---------------------------
(***************************************************************************)
(* Theorems about the way from a configuration to the first lines, for     *)
(* every list of storage definitions, every Rf and every hash function:    *)
(* what Relay assumes of hosts, senders and answers is true, and of the    *)
(* panics the code could meet only those of PanicExplained happen.  What   *)
(* lookups do comes from the lemmas about the hash ring.                   *)
(***************************************************************************)
EXTENDS Startup, TLAPS, FiniteSetTheorems, SequenceTheorems

CP == INSTANCE ConsistentProofs WITH
       Elts <- Hosts, Readers <- {"parse"}, Writers <- {}, writer <- << >>, MaxN <- 0,
       Adds <- {}, Removes <- {}, Sets <- {}, MaxCount <- 0

-----------------------------------------------------------------------------
(* The ring of this program is one the lemmas are about *)

LEMMA RingAssumptions == CP!PointsAssumption /\ CP!InputsAssumption
BY StartupAssumption DEF CP!PointsAssumption, CP!InputsAssumption, CP!Hash

LEMMA SameCardinality ==
  \A S : C!Cardinality(S) = Cardinality(S) /\ CP!Cardinality(S) = Cardinality(S)
BY DEF C!Cardinality, CP!Cardinality, Cardinality, C!IsFiniteSet, CP!IsFiniteSet, IsFiniteSet

LEMMA SameFinite == \A S : CP!IsFiniteSet(S) <=> IsFiniteSet(S)
BY DEF CP!IsFiniteSet, IsFiniteSet

Me == "parse"

LEMMA InitRing == Init => CP!LookupInv
<1>1. Init => CP!Init
  BY DEF Init, CP!Init, C!Idle, CP!Idle
<1> QED  BY <1>1, CP!InitLookupInv, RingAssumptions

LEMMA AddRing ==
  ASSUME CP!LookupInv, NEW h \in Hosts, C!Add(h), UNCHANGED reader,
         reader[Me].pc = "idle"
  PROVE  CP!LookupInv'
<1>1. CP!Add(h)
  BY DEF C!Add, CP!Add, C!updateSortedHashes, CP!updateSortedHashes, C!Ascending,
         CP!Ascending, C!Cardinality, CP!Cardinality, C!IsFiniteSet, CP!IsFiniteSet
<1>2. ~CP!ReadersInside
  BY DEF CP!ReadersInside, Me
<1> QED  BY <1>1, <1>2, CP!AddBetweenLookups, RingAssumptions

LEMMA GetNRing ==
  ASSUME CP!LookupInv, NEW key \in C!Hash, NEW n \in Int, C!GetN(Me, key, n)
  PROVE  /\ CP!LookupInv' /\ UNCHANGED ring /\ DOMAIN circle # {}
         /\ reader'[Me].op = "GetN" /\ reader'[Me].asked = n
<1>1. CP!GetN(Me, key, n) /\ key \in CP!Hash
  BY DEF C!GetN, CP!GetN, C!Enter, CP!Enter, C!WriterWaits, CP!WriterWaits, C!AtMostCount,
         CP!AtMostCount, C!search, CP!search, C!Elem, CP!Elem, C!ring, CP!ring,
         C!Hash, CP!Hash
<1>2. CP!ReaderType /\ Me \in {"parse"}
  BY DEF CP!LookupInv, Me
<1>3. /\ UNCHANGED CP!ring /\ \E s : reader' = [reader EXCEPT ![Me] = s]
      /\ DOMAIN circle # {} /\ reader'[Me].op = "GetN" /\ reader'[Me].asked = n
  BY <1>1, <1>2 DEF CP!GetN, CP!Enter, CP!ReaderType
<1>4. reader'[Me] \in CP!ReaderState /\ CP!Looking(reader'[Me])
  BY <1>1, <1>2, CP!GetNLooks, RingAssumptions
<1> QED  BY <1>2, <1>3, <1>4, CP!LookupGoesOn, RingAssumptions DEF CP!ring, ring

LEMMA EmptyRing ==
  ASSUME CP!LookupInv, NEW key \in C!Hash, C!EmptyCircle(Me, key)
  PROVE  CP!LookupInv' /\ UNCHANGED ring /\ DOMAIN circle = {} /\ reader'[Me].op = "GetN"
<1>1. CP!EmptyCircle(Me, key) /\ key \in CP!Hash
  BY DEF C!EmptyCircle, CP!EmptyCircle, C!WriterWaits, CP!WriterWaits, C!Idle, CP!Idle,
         C!ring, CP!ring, C!Hash, CP!Hash
<1>2. CP!ReaderType /\ Me \in {"parse"}
  BY DEF CP!LookupInv, Me
<1>3. /\ UNCHANGED CP!ring /\ \E s : reader' = [reader EXCEPT ![Me] = s]
      /\ DOMAIN circle = {} /\ reader'[Me] = [CP!Idle EXCEPT !.pc = "done", !.key = key]
  BY <1>1, <1>2 DEF CP!EmptyCircle, CP!ReaderType
<1>4. reader'[Me] \in CP!ReaderState /\ CP!Looking(reader'[Me])
  BY <1>1, <1>2, CP!EmptyLooks, RingAssumptions
<1>5. reader'[Me].op = "GetN"
  BY <1>3 DEF CP!Idle
<1> QED  BY <1>2, <1>3, <1>4, <1>5, CP!LookupGoesOn, RingAssumptions DEF CP!ring, ring

LEMMA GetNPanicsRing ==
  ASSUME CP!LookupInv, NEW key \in C!Hash, NEW n \in Int, C!GetNPanics(Me, key, n)
  PROVE  /\ CP!LookupInv' /\ UNCHANGED ring /\ reader'[Me].pc = "panic"
         /\ DOMAIN circle # {} /\ (count < 0 \/ n < 0)
<1>1. CP!GetNPanics(Me, key, n)
  BY DEF C!GetNPanics, CP!GetNPanics, C!WriterWaits, CP!WriterWaits, C!AtMostCount,
         CP!AtMostCount, C!ring, CP!ring
<1>2. CP!ReaderType /\ Me \in {"parse"} /\ count \in Int
  BY DEF CP!LookupInv, CP!RingInv, CP!RingType, Me
<1>3. /\ UNCHANGED CP!ring
      /\ reader' = [reader EXCEPT ![Me] = [reader[Me] EXCEPT !.pc = "panic"]]
      /\ DOMAIN circle # {} /\ (count < 0 \/ n < 0)
  BY <1>1, <1>2 DEF CP!GetNPanics, CP!AtMostCount
<1>4. reader'[Me] \in CP!ReaderState /\ reader'[Me].pc = "panic"
  BY <1>2, <1>3 DEF CP!ReaderType, CP!ReaderState
<1>5. CP!Looking(reader'[Me])
  BY <1>4 DEF CP!Looking
<1> QED  BY <1>2, <1>3, <1>4, <1>5, CP!LookupGoesOn, RingAssumptions DEF CP!ring, ring

LEMMA WalkRing ==
  ASSUME CP!LookupInv, C!WalkOn(Me) \/ C!Around(Me)
  PROVE  /\ CP!LookupInv' /\ UNCHANGED ring /\ reader[Me].pc = "walk"
         /\ reader'[Me].op = reader[Me].op /\ reader'[Me].asked = reader[Me].asked
<1>1. CP!WalkOn(Me) \/ CP!Around(Me)
  BY DEF C!WalkOn, CP!WalkOn, C!Around, CP!Around, C!AppendNew, CP!AppendNew, C!Enough,
         CP!Enough, C!Elem, CP!Elem, C!RangeOf, CP!RangeOf, C!ring, CP!ring
<1>2. CP!ReaderType /\ Me \in {"parse"} /\ reader[Me] \in CP!ReaderState
  BY DEF CP!LookupInv, CP!ReaderType, Me
<1>3. /\ UNCHANGED CP!ring /\ \E s : reader' = [reader EXCEPT ![Me] = s]
      /\ reader[Me].pc = "walk"
  BY <1>1, <1>2 DEF CP!WalkOn, CP!Around, CP!ReaderType
<1>4. reader'[Me].op = reader[Me].op /\ reader'[Me].asked = reader[Me].asked
  <2>1. CASE CP!WalkOn(Me)
    BY <1>2, <2>1 DEF CP!WalkOn, CP!ReaderType, CP!ReaderState
  <2>2. CASE CP!Around(Me)
    BY <1>2, <2>2 DEF CP!Around, CP!ReaderType, CP!ReaderState
  <2> QED  BY <1>1, <2>1, <2>2
<1>5. reader'[Me] \in CP!ReaderState /\ CP!Looking(reader'[Me])
  BY <1>1, <1>2, CP!WalkOnLooks, CP!AroundLooks, RingAssumptions
<1> QED  BY <1>2, <1>3, <1>4, <1>5, CP!LookupGoesOn, RingAssumptions DEF CP!ring, ring

LEMMA ReturnRing ==
  ASSUME CP!LookupInv, C!Return(Me)
  PROVE  CP!LookupInv' /\ UNCHANGED ring /\ reader'[Me].pc = "idle" /\ reader[Me].pc = "done"
<1>1. CP!Return(Me)
  BY DEF C!Return, CP!Return, C!Idle, CP!Idle, C!ring, CP!ring
<1>2. CP!ReaderType /\ Me \in {"parse"}
  BY DEF CP!LookupInv, Me
<1>3. /\ UNCHANGED CP!ring /\ \E s : reader' = [reader EXCEPT ![Me] = s]
      /\ reader[Me].pc = "done" /\ reader'[Me] = CP!Idle
  BY <1>1, <1>2 DEF CP!Return, CP!ReaderType
<1>4. reader'[Me] \in CP!ReaderState /\ CP!Looking(reader'[Me])
  BY <1>1, <1>2, CP!ReturnLooks, RingAssumptions
<1>5. reader'[Me].pc = "idle"
  BY <1>3 DEF CP!Idle
<1> QED  BY <1>2, <1>3, <1>4, <1>5, CP!LookupGoesOn, RingAssumptions DEF CP!ring, ring

LEMMA RestingRing ==
  ASSUME CP!LookupInv, UNCHANGED <<ring, reader>>
  PROVE  CP!LookupInv'
<1>1. UNCHANGED CP!vars
  BY DEF CP!vars, ring
<1> QED  BY <1>1, CP!NextLookupInv, RingAssumptions

-----------------------------------------------------------------------------
(* From the definitions to the senders *)

Storage == [Host : Hosts, Port : Nat, Num : Int]
Sender  == [Host : Hosts, Port : Nat, Index : Nat]

TypesRight ==
  /\ config \in [defs : Seq(Definition), Rf : Int] /\ todo \in Seq(Definition)
  /\ storages \in Seq(Storage) /\ j \in Nat
  /\ senders \in Seq(Sender)

\* The hosts a list of definitions wants senders for, and those that a list of
\* storages will give senders to.
Wanted(ds)  == {h \in Hosts : \E i \in DOMAIN ds : ds[i].form = "good" /\ ds[i].host = h
                                                    /\ ds[i].num >= 1}
Staffed(ss) == {h \in Hosts : \E i \in DOMAIN ss : ss[i].Host = h /\ ss[i].Num >= 0}
SenderHosts == {senders[i].Host : i \in DOMAIN senders}

\* No host is lost between the definitions and the ring.
HostsKept ==
  /\ pc \in {"load", "parse"} => members = {}
  /\ pc = "load" => storages = << >>
  /\ pc \in {"load", "parse"} => j = 0
  /\ pc = "parse" => Configured = Staffed(storages) \cup Wanted(todo)
  /\ pc = "workers" =>
       /\ Configured = members \cup Staffed(storages)
       /\ j > 0 => storages # << >> /\ Head(storages).Host \in members
  /\ pc \in {"listen", "serve"} =>
       Configured = members /\ (single <=> Cardinality(members) = 1)
  /\ members = SenderHosts

\* What a lookup of parse wants, and what it finds the ring to be.
RingServes ==
  /\ count >= Cardinality(members) /\ (members # {} => DOMAIN circle # {})
  /\ pc \in {"load", "parse", "workers", "listen"} => reader[Me].pc = "idle"
  /\ reader[Me].pc \in {"walk", "done"} =>
       reader[Me].op = "GetN" /\ (DOMAIN circle = {} \/ reader[Me].asked = config.Rf)


-----------------------------------------------------------------------------
(* Lists of definitions and of storages *)

LEMMA FromHead ==
  ASSUME NEW S, NEW s \in Seq(S), s # << >>
  PROVE  /\ Head(s) \in S /\ Tail(s) \in Seq(S)
         /\ \A x : (\E i \in DOMAIN s : s[i] = x) <=>
                   x = Head(s) \/ \E i \in DOMAIN Tail(s) : Tail(s)[i] = x
<1>1. Head(s) \in S /\ Tail(s) \in Seq(S)
  OBVIOUS
<1>2. /\ Len(s) \in Nat /\ Len(s) >= 1 /\ DOMAIN s = 1..Len(s) /\ Head(s) = s[1]
      /\ DOMAIN Tail(s) = 1..(Len(s) - 1) /\ \A i \in 1..(Len(s) - 1) : Tail(s)[i] = s[i + 1]
  OBVIOUS
<1>3. \A i \in 1..Len(s) : i = 1 \/ (i - 1 \in 1..(Len(s) - 1) /\ (i - 1) + 1 = i)
  BY <1>2
<1>4. ASSUME NEW x, NEW i \in DOMAIN s, s[i] = x
      PROVE  x = Head(s) \/ \E k \in DOMAIN Tail(s) : Tail(s)[k] = x
  BY <1>2, <1>3, <1>4
<1>5. 1 \in DOMAIN s /\ \A i \in DOMAIN Tail(s) : i + 1 \in DOMAIN s
  BY <1>2
<1> QED  BY <1>1, <1>2, <1>4, <1>5

LEMMA FromAppend ==
  ASSUME NEW S, NEW s \in Seq(S), NEW e \in S
  PROVE  \A x : (\E i \in DOMAIN Append(s, e) : Append(s, e)[i] = x) <=>
                x = e \/ \E i \in DOMAIN s : s[i] = x
<1>1. /\ Len(s) \in Nat /\ DOMAIN s = 1..Len(s) /\ DOMAIN Append(s, e) = 1..(Len(s) + 1)
      /\ Append(s, e)[Len(s) + 1] = e /\ \A i \in 1..Len(s) : Append(s, e)[i] = s[i]
  OBVIOUS
<1>2. \A i \in 1..(Len(s) + 1) : i = Len(s) + 1 \/ i \in 1..Len(s)
  BY <1>1
<1>3. Len(s) + 1 \in 1..(Len(s) + 1) /\ \A i \in 1..Len(s) : i \in 1..(Len(s) + 1)
  BY <1>1
<1> QED  BY <1>1, <1>2, <1>3

LEMMA ConfiguredWanted == Configured = Wanted(config.defs)
BY DEF Configured, DefsOf, Wanted

\* The storage parseStorages makes of a good definition.
Made(d) == [Host |-> d.host, Port |-> d.port, Num |-> d.num - 1]

LEMMA StaffedAppend ==
  ASSUME NEW ss \in Seq(Storage), NEW s \in Storage
  PROVE  /\ Append(ss, s) \in Seq(Storage)
         /\ Staffed(Append(ss, s)) = Staffed(ss) \cup {h \in Hosts : s.Host = h /\ s.Num >= 0}
<1> DEFINE new == Append(ss, s)
<1>1. \A x : (\E i \in DOMAIN new : new[i] = x) <=> x = s \/ \E i \in DOMAIN ss : ss[i] = x
  BY FromAppend
<1>2. new \in Seq(Storage)
  OBVIOUS
<1> HIDE DEF new
<1>a. \A i \in DOMAIN new : new[i] = s \/ \E k \in DOMAIN ss : ss[k] = new[i]
  BY <1>1
<1>b. \E i \in DOMAIN new : new[i] = s
  BY <1>1
<1>c. \A k \in DOMAIN ss : \E i \in DOMAIN new : new[i] = ss[k]
  BY <1>1
<1>3. ASSUME NEW h, h \in Staffed(new)
      PROVE  h \in Staffed(ss) \/ (h \in Hosts /\ s.Host = h /\ s.Num >= 0)
  <2>1. h \in Hosts /\ \E i \in DOMAIN new : new[i].Host = h /\ new[i].Num >= 0
    BY <1>3 DEF Staffed
  <2>2. PICK i \in DOMAIN new : new[i].Host = h /\ new[i].Num >= 0
    BY <2>1
  <2> QED  BY <1>a, <2>1, <2>2 DEF Staffed
<1>4. \A h : h \in Staffed(ss) => h \in Staffed(new)
  BY <1>c DEF Staffed
<1>5. \A h \in Hosts : s.Host = h /\ s.Num >= 0 => h \in Staffed(new)
  BY <1>b DEF Staffed
<1> QED  BY <1>2, <1>3, <1>4, <1>5 DEF new

LEMMA WantedFromHead ==
  ASSUME NEW ds \in Seq(Definition), ds # << >>, NEW ss, Head(ds).form # "malformed",
         ss \in Seq(Storage),
         NEW next, next = IF Head(ds).form = "good" THEN Append(ss, Made(Head(ds))) ELSE ss
  PROVE  /\ next \in Seq(Storage)
         /\ Staffed(next) \cup Wanted(Tail(ds)) = Staffed(ss) \cup Wanted(ds)
<1> DEFINE d == Head(ds)
<1>1. /\ d \in Definition
      /\ \A x : (\E i \in DOMAIN ds : ds[i] = x) <=>
                x = d \/ \E i \in DOMAIN Tail(ds) : Tail(ds)[i] = x
  BY FromHead
<1>2. Wanted(ds) = Wanted(Tail(ds)) \cup
        {h \in Hosts : d.form = "good" /\ d.host = h /\ d.num >= 1}
  <2>a. \A i \in DOMAIN ds : ds[i] = d \/ \E k \in DOMAIN Tail(ds) : Tail(ds)[k] = ds[i]
    BY <1>1
  <2> HIDE DEF d
  <2>1. ASSUME NEW h, h \in Wanted(ds)
        PROVE  h \in Wanted(Tail(ds))
                 \/ (h \in Hosts /\ d.form = "good" /\ d.host = h /\ d.num >= 1)
    <3>1. PICK i \in DOMAIN ds : ds[i].form = "good" /\ ds[i].host = h /\ ds[i].num >= 1
      BY <2>1 DEF Wanted
    <3>2. h \in Hosts
      BY <2>1 DEF Wanted
    <3> QED  BY <2>a, <3>1, <3>2 DEF Wanted
  <2>2. \A h : h \in Wanted(Tail(ds)) => h \in Wanted(ds)
    BY <1>1 DEF Wanted
  <2>3. \A h \in Hosts : d.form = "good" /\ d.host = h /\ d.num >= 1 => h \in Wanted(ds)
    BY <1>1 DEF Wanted
  <2> QED  BY <2>1, <2>2, <2>3
<1>3. CASE d.form = "good"
  <2> DEFINE e == Made(d)
  <2>1. e \in Storage /\ e.Host = d.host /\ (e.Num >= 0 <=> d.num >= 1)
    <3>1. d.num \in Int /\ d.host \in Hosts /\ d.port \in Nat /\ d.num - 1 \in Int
      BY <1>1 DEF Definition
    <3>2. e = [Host |-> d.host, Port |-> d.port, Num |-> d.num - 1]
      BY DEF Made
    <3>3. e.Num = d.num - 1 /\ e.Host = d.host /\ e \in Storage
      BY <3>1, <3>2 DEF Storage
    <3> QED  BY <3>1, <3>3
  <2>2. next = Append(ss, e)
    BY <1>3
  <2> HIDE DEF e, d
  <2>3. /\ next \in Seq(Storage)
        /\ Staffed(next) = Staffed(ss) \cup {h \in Hosts : e.Host = h /\ e.Num >= 0}
    BY <2>1, <2>2, StaffedAppend
  <2> QED  BY <1>2, <1>3, <2>1, <2>3
<1>4. CASE d.form # "good"
  BY <1>2, <1>4
<1> QED  BY <1>3, <1>4

LEMMA StaffedFromHead ==
  ASSUME NEW ss \in Seq(Storage), ss # << >>
  PROVE  /\ Head(ss) \in Storage /\ Tail(ss) \in Seq(Storage)
         /\ Staffed(ss) = Staffed(Tail(ss)) \cup
                            {h \in Hosts : Head(ss).Host = h /\ Head(ss).Num >= 0}
<1> DEFINE s == Head(ss)
<1>1. /\ s \in Storage /\ Tail(ss) \in Seq(Storage)
      /\ \A x : (\E i \in DOMAIN ss : ss[i] = x) <=>
                x = s \/ \E i \in DOMAIN Tail(ss) : Tail(ss)[i] = x
  BY FromHead
<1> HIDE DEF s
<1>a. \A i \in DOMAIN ss : ss[i] = s \/ \E k \in DOMAIN Tail(ss) : Tail(ss)[k] = ss[i]
  BY <1>1
<1>2. ASSUME NEW h, h \in Staffed(ss)
      PROVE  h \in Staffed(Tail(ss)) \/ (h \in Hosts /\ s.Host = h /\ s.Num >= 0)
  <2>1. h \in Hosts /\ \E i \in DOMAIN ss : ss[i].Host = h /\ ss[i].Num >= 0
    BY <1>2 DEF Staffed
  <2>2. PICK i \in DOMAIN ss : ss[i].Host = h /\ ss[i].Num >= 0
    BY <2>1
  <2> QED  BY <1>a, <2>1, <2>2 DEF Staffed
<1>3. \A h : h \in Staffed(Tail(ss)) => h \in Staffed(ss)
  BY <1>1 DEF Staffed
<1>4. \A h \in Hosts : s.Host = h /\ s.Num >= 0 => h \in Staffed(ss)
  BY <1>1 DEF Staffed
<1> QED  BY <1>1, <1>2, <1>3, <1>4 DEF s

-----------------------------------------------------------------------------
(* Every step keeps the hosts and the ring *)

SInv == CP!LookupInv /\ TypesRight /\ HostsKept /\ RingServes

SameConfig == config' = config => Configured' = Configured

LEMMA ConfigStays == SameConfig
BY DEF SameConfig, Configured, DefsOf

LEMMA StaffedNone == Staffed(<< >>) = {}
BY DEF Staffed

LEMMA InitSInv == Init => SInv
<1> SUFFICES ASSUME Init PROVE SInv
  OBVIOUS
<1>1. config \in [defs : Seq(Definition), Rf : Int]
  <2>1. << >> \in Seq(Definition) /\ 0 \in Int
    OBVIOUS
  <2> QED  BY <2>1 DEF Init
<1>2. TypesRight
  BY <1>1 DEF Init, TypesRight
<1>3. HostsKept
  BY DEF Init, HostsKept, SenderHosts
<1>4. RingServes
  <2>1. reader[Me].pc = "idle"
    BY DEF Init, C!Idle, Me
  <2>2. Cardinality({}) = 0
    BY FS_EmptySet
  <2> QED  BY <2>1, <2>2 DEF Init, RingServes
<1> QED  BY <1>2, <1>3, <1>4, InitRing DEF SInv

LEMMA LoadSInv == ASSUME SInv, Load PROVE SInv'
<1>1. CP!LookupInv'
  BY RestingRing DEF SInv, Load, ring
<1>2. CASE pc' = "exit" /\ UNCHANGED <<config, todo>>
  <2>1. TypesRight'
    BY <1>2 DEF SInv, TypesRight, Load
  <2>2. HostsKept'
    BY <1>2 DEF SInv, HostsKept, Load, SenderHosts, ring
  <2>3. RingServes'
    BY <1>2 DEF SInv, RingServes, Load, ring
  <2> QED  BY <1>1, <2>1, <2>2, <2>3 DEF SInv
<1>3. ASSUME NEW defs \in Lists \cup {<<Default>>}, NEW Rf \in Rfs \cup {1},
             config' = [defs |-> defs, Rf |-> Rf], todo' = defs, pc' = "parse"
      PROVE  SInv'
  <2>1. defs \in Seq(Definition) /\ Rf \in Int
    <3>1. <<Default>> \in Seq(Definition)
      BY StartupAssumption
    <3>2. Rf \in Int
      BY StartupAssumption
    <3>3. CASE defs \in Lists
      BY <3>2, <3>3, StartupAssumption
    <3>4. CASE defs = <<Default>>
      BY <3>1, <3>2, <3>4
    <3> QED  BY <3>3, <3>4
  <2>2. TypesRight'
    BY <1>3, <2>1 DEF SInv, TypesRight, Load
  <2>3. Configured' = Wanted(defs)
    BY <1>3 DEF Configured, DefsOf, Wanted
  <2>4. HostsKept'
    <3>1. /\ members = {} /\ storages = << >> /\ j = 0
          /\ UNCHANGED <<members, storages, j, senders>>
      BY DEF SInv, HostsKept, Load, ring
    <3>2. Staffed(storages') \cup Wanted(todo') = Wanted(defs)
      BY <1>3, <3>1, StaffedNone
    <3> QED  BY <1>3, <2>3, <3>1, <3>2 DEF SInv, HostsKept, SenderHosts
  <2>5. RingServes'
    <3>1. reader[Me].pc = "idle"
      BY DEF SInv, RingServes, Load
    <3> QED  BY <3>1 DEF SInv, RingServes, Load, ring
  <2> QED  BY <1>1, <2>2, <2>4, <2>5 DEF SInv
<1> QED  BY <1>2, <1>3 DEF Load

LEMMA ParseSInv == ASSUME SInv, parseStorages PROVE SInv'
<1>1. CP!LookupInv'
  BY RestingRing DEF SInv, parseStorages, ring
<1>2. RingServes'
  BY DEF SInv, RingServes, parseStorages, ring
<1> DEFINE d == Head(todo)
<1>3. /\ d \in Definition /\ Tail(todo) \in Seq(Definition)
      /\ storages \in Seq(Storage) /\ todo \in Seq(Definition) /\ todo # << >>
      /\ todo' = Tail(todo)
      /\ storages' = IF d.form = "good" THEN Append(storages, Made(d)) ELSE storages
  BY DEF SInv, TypesRight, parseStorages, Made
<1>4. storages' \in Seq(Storage)
  <2>1. d.form = "good" => Made(d) \in Storage
    BY <1>3 DEF Made, Storage, Definition
  <2> HIDE DEF d
  <2> QED  BY <1>3, <2>1
<1>5. TypesRight'
  BY <1>3, <1>4 DEF SInv, TypesRight, parseStorages
<1>6. HostsKept'
  <2>1. CASE d.form = "malformed"
    BY <2>1 DEF SInv, HostsKept, parseStorages, SenderHosts, ring
  <2>2. CASE d.form # "malformed"
    <3>1. PICK next : next = storages'
      OBVIOUS
    <3>2. Staffed(next) \cup Wanted(Tail(todo)) = Staffed(storages) \cup Wanted(todo)
      <4> HIDE DEF d
      <4>1. next = IF Head(todo).form = "good"
                   THEN Append(storages, Made(Head(todo))) ELSE storages
        BY <1>3, <3>1 DEF d
      <4>2. Head(todo).form # "malformed"
        BY <2>2 DEF d
      <4> QED  BY <1>3, <4>1, <4>2, WantedFromHead
    <3>3. Configured = Staffed(storages) \cup Wanted(todo)
      BY DEF SInv, HostsKept, parseStorages
    <3>4. Configured' = Staffed(storages') \cup Wanted(todo')
      BY <1>3, <3>1, <3>2, <3>3, ConfigStays DEF SameConfig, parseStorages
    <3>5. pc' = "parse" /\ UNCHANGED <<members, j, senders>>
      BY <2>2 DEF parseStorages, ring
    <3> QED  BY <3>4, <3>5 DEF SInv, HostsKept, SenderHosts, parseStorages
  <2> QED  BY <2>1, <2>2
<1> QED  BY <1>1, <1>2, <1>5, <1>6 DEF SInv

LEMMA ParsedSInv == ASSUME SInv, Parsed PROVE SInv'
<1>1. CP!LookupInv'
  BY RestingRing DEF SInv, Parsed, ring
<1>2. RingServes' /\ TypesRight'
  BY DEF SInv, RingServes, TypesRight, Parsed, ring
<1>3. Wanted(todo) = {}
  BY DEF Parsed, Wanted
<1>4. Configured' = members \cup Staffed(storages) /\ members = {} /\ j = 0
  BY <1>3, ConfigStays DEF SameConfig, SInv, HostsKept, Parsed
<1>5. HostsKept'
  BY <1>4 DEF SInv, HostsKept, Parsed, SenderHosts, ring
<1> QED  BY <1>1, <1>2, <1>5 DEF SInv

LEMMA StartWorkerSInv == ASSUME SInv, StartWorker PROVE SInv'
<1> DEFINE s == Head(storages)  h == s.Host
           new == [Host |-> s.Host, Port |-> s.Port, Index |-> Len(senders)]
<1>1. /\ storages \in Seq(Storage) /\ storages # << >> /\ s \in Storage
      /\ j \in Nat /\ j <= s.Num /\ senders \in Seq(Sender)
      /\ reader[Me].pc = "idle" /\ pc = "workers"
      /\ Configured = members \cup Staffed(storages) /\ members = SenderHosts
  BY StaffedFromHead DEF SInv, TypesRight, HostsKept, RingServes, StartWorker
<1>2. /\ h \in Hosts /\ s.Num \in Int /\ s.Num >= 0 /\ new \in Sender
  <2>1. s.Host \in Hosts /\ s.Port \in Nat /\ s.Num \in Int /\ Len(senders) \in Nat
    BY <1>1 DEF Storage
  <2> HIDE DEF s
  <2> QED  BY <1>1, <2>1 DEF Sender
<1>3. /\ C!Add(h) /\ senders' = Append(senders, new) /\ j' = j + 1
      /\ UNCHANGED <<pc, config, todo, storages, single, monitor, reader>>
  BY DEF StartWorker
<1>4. h \in Staffed(storages)
  BY <1>1, <1>2, StaffedFromHead
<1>5. members' = members \cup {h} /\ count' = count + 1 /\ Points[h] \subseteq DOMAIN circle'
  BY <1>3 DEF C!Add
<1> HIDE DEF h, new
<1>6. CP!LookupInv'
  BY <1>1, <1>2, <1>3, AddRing DEF SInv
<1>7. TypesRight'
  BY <1>1, <1>2, <1>3 DEF SInv, TypesRight
<1>8. SenderHosts' = SenderHosts \cup {h}
  <2>1. \A x : (\E i \in DOMAIN senders' : senders'[i] = x) <=>
                  x = new \/ \E i \in DOMAIN senders : senders[i] = x
    BY <1>1, <1>2, <1>3, FromAppend
  <2>2. new.Host = h
    BY DEF new, h
  <2>3. \A i \in DOMAIN senders' :
          senders'[i] = new \/ \E k \in DOMAIN senders : senders[k] = senders'[i]
    BY <2>1
  <2>4. \E i \in DOMAIN senders' : senders'[i] = new
    BY <2>1
  <2>5. \A k \in DOMAIN senders : \E i \in DOMAIN senders' : senders'[i] = senders[k]
    BY <2>1
  <2>6. SenderHosts' \subseteq SenderHosts \cup {h}
    BY <2>2, <2>3 DEF SenderHosts
  <2>7. SenderHosts \subseteq SenderHosts'
    BY <2>5 DEF SenderHosts
  <2>8. h \in SenderHosts'
    BY <2>2, <2>4 DEF SenderHosts
  <2> QED  BY <2>6, <2>7, <2>8
<1>9. HostsKept'
  <2>1. Configured' = members' \cup Staffed(storages')
    BY <1>1, <1>3, <1>4, <1>5, ConfigStays DEF SameConfig
  <2>2. j' > 0 => storages' # << >> /\ Head(storages').Host \in members'
    BY <1>1, <1>3, <1>5 DEF h
  <2>3. members' = SenderHosts'
    BY <1>1, <1>5, <1>8
  <2> QED  BY <1>1, <1>3, <2>1, <2>2, <2>3 DEF HostsKept
<1>10. RingServes'
  <2>1. /\ count \in Int /\ count >= Cardinality(members) /\ IsFiniteSet(members)
    BY SameCardinality, SameFinite DEF SInv, CP!LookupInv, CP!RingInv, CP!RingType, RingServes
  <2>2. Cardinality(members') \in Nat /\ Cardinality(members) \in Nat
        /\ Cardinality(members') <= Cardinality(members) + 1
    <3>1. CASE h \in members
      <4>1. members' = members
        BY <1>5, <3>1
      <4>2. Cardinality(members) \in Nat
        BY <2>1, FS_CardinalityType
      <4> QED  BY <4>1, <4>2
    <3>2. CASE h \notin members
      <4>1. Cardinality(members \cup {h}) = Cardinality(members) + 1
        BY <2>1, <3>2, FS_AddElement
      <4>2. Cardinality(members) \in Nat
        BY <2>1, FS_CardinalityType
      <4> QED  BY <1>5, <4>1, <4>2
    <3> QED  BY <3>1, <3>2
  <2>3. count' >= Cardinality(members')
    BY <1>5, <2>1, <2>2
  <2>4. DOMAIN circle' # {}
    BY <1>2, <1>5, StartupAssumption
  <2>5. pc' = "workers" /\ reader'[Me].pc = "idle"
    BY <1>1, <1>3
  <2> QED  BY <2>3, <2>4, <2>5 DEF RingServes
<1> QED  BY <1>6, <1>7, <1>9, <1>10 DEF SInv

LEMMA NextStorageSInv == ASSUME SInv, NextStorage PROVE SInv'
<1> DEFINE s == Head(storages)
<1>1. /\ storages \in Seq(Storage) /\ storages # << >> /\ s \in Storage
      /\ Tail(storages) \in Seq(Storage)
      /\ j \in Nat /\ j > s.Num /\ pc = "workers"
      /\ Configured = members \cup Staffed(storages) /\ members = SenderHosts
      /\ j > 0 => s.Host \in members
      /\ Staffed(storages) = Staffed(Tail(storages)) \cup
                               {h \in Hosts : s.Host = h /\ s.Num >= 0}
  BY StaffedFromHead DEF SInv, TypesRight, HostsKept, NextStorage
<1>2. /\ storages' = Tail(storages) /\ j' = 0 /\ UNCHANGED ring
      /\ UNCHANGED <<pc, config, todo, senders, single, monitor, reader>>
  BY DEF NextStorage, AddNothing
<1>3. CP!LookupInv'
  BY <1>2, RestingRing DEF SInv
<1>4. RingServes' /\ TypesRight'
  BY <1>1, <1>2 DEF SInv, RingServes, TypesRight, ring
<1>5. members \cup Staffed(storages) = members \cup Staffed(Tail(storages))
  <2>1. s.Num >= 0 => s.Host \in members
    <3>1. s.Num \in Int
      BY <1>1 DEF Storage
    <3> HIDE DEF s
    <3> QED  BY <1>1, <3>1
  <2> HIDE DEF s
  <2> QED  BY <1>1, <2>1
<1>6. Configured' = members' \cup Staffed(storages')
  <2>1. Configured' = Configured /\ members' = members
    BY <1>2, ConfigStays DEF SameConfig, ring
  <2> QED  BY <1>1, <1>2, <1>5, <2>1
<1>7. HostsKept'
  BY <1>1, <1>2, <1>6 DEF HostsKept, SenderHosts, ring
<1> QED  BY <1>3, <1>4, <1>7 DEF SInv

LEMMA MakeBossSInv == ASSUME SInv, MakeBoss PROVE SInv'
<1>1. CP!LookupInv'
  BY RestingRing DEF SInv, MakeBoss, ring
<1>2. RingServes' /\ TypesRight'
  BY DEF SInv, RingServes, TypesRight, MakeBoss, ring
<1>3. Configured' = members /\ members' = members
  BY StaffedNone, ConfigStays DEF SameConfig, SInv, HostsKept, MakeBoss, ring
<1>4. HostsKept'
  BY <1>3 DEF SInv, HostsKept, MakeBoss, OneMember, SenderHosts, ring
<1> QED  BY <1>1, <1>2, <1>4 DEF SInv

LEMMA ListenSInv == ASSUME SInv, Listen PROVE SInv'
<1>1. CP!LookupInv'
  BY RestingRing DEF SInv, Listen, ring
<1>2. RingServes' /\ TypesRight'
  BY DEF SInv, RingServes, TypesRight, Listen, ring
<1>3. HostsKept'
  BY ConfigStays DEF SameConfig, SInv, HostsKept, Listen, SenderHosts, ring
<1> QED  BY <1>1, <1>2, <1>3 DEF SInv

LEMMA MonitorSInv == ASSUME SInv, Monitor PROVE SInv'
<1>1. CP!LookupInv'
  BY RestingRing DEF SInv, Monitor, ring
<1>2. RingServes' /\ TypesRight'
  BY DEF SInv, RingServes, TypesRight, Monitor, ring
<1>3. HostsKept'
  BY ConfigStays DEF SameConfig, SInv, HostsKept, Monitor, SenderHosts, ring
<1> QED  BY <1>1, <1>2, <1>3 DEF SInv

-----------------------------------------------------------------------------
(* Lookups *)

\* While lines are served neither the configuration nor the ring change, and a
\* lookup that goes on is one for Rf hosts or one in an empty ring.
LEMMA ServingSInv ==
  ASSUME SInv, pc = "serve", pc' \in {"serve", "panic"}, UNCHANGED <<Program, ring>>,
         CP!LookupInv',
         reader'[Me].pc \in {"walk", "done"} =>
           reader'[Me].op = "GetN" /\ (DOMAIN circle = {} \/ reader'[Me].asked = config.Rf)
  PROVE  SInv'
<1>1. TypesRight'
  BY DEF SInv, TypesRight, Program
<1>2. HostsKept'
  BY ConfigStays DEF SameConfig, SInv, HostsKept, SenderHosts, Program, ring
<1>3. RingServes'
  BY DEF SInv, RingServes, Program, ring
<1> QED  BY <1>1, <1>2, <1>3 DEF SInv

LEMMA RfType == SInv => config.Rf \in Int
BY DEF SInv, TypesRight

LEMMA GetNSInv == ASSUME SInv, GetN PROVE SInv'
<1>1. PICK key \in C!Hash : C!GetN(Me, key, config.Rf) \/ C!EmptyCircle(Me, key)
  BY DEF GetN, Me
<1>2. pc = "serve" /\ pc' = "serve" /\ UNCHANGED Program /\ config.Rf \in Int /\ CP!LookupInv
  BY RfType DEF GetN, SInv
<1>3. CASE C!GetN(Me, key, config.Rf)
  <2>1. PICK n \in Int : n = config.Rf
    BY <1>2
  <2>2. C!GetN(Me, key, n)
    BY <1>3, <2>1
  <2>3. CP!LookupInv' /\ UNCHANGED ring /\ reader'[Me].op = "GetN" /\ reader'[Me].asked = n
    BY <1>2, <2>2, GetNRing
  <2> QED  BY <1>2, <2>1, <2>3, ServingSInv
<1>4. CASE C!EmptyCircle(Me, key)
  <2>1. CP!LookupInv' /\ UNCHANGED ring /\ reader'[Me].op = "GetN" /\ DOMAIN circle = {}
    BY <1>2, <1>4, EmptyRing
  <2> QED  BY <1>2, <2>1, ServingSInv
<1> QED  BY <1>1, <1>3, <1>4

LEMMA GetNPanicsSInv ==
  ASSUME SInv, GetNPanics
  PROVE  SInv' /\ config.Rf < 0 /\ Cardinality(members) > 1
<1>1. PICK key \in C!Hash : C!GetNPanics(Me, key, config.Rf)
  BY DEF GetNPanics, Me
<1>2. /\ pc = "serve" /\ ~single /\ pc' = "panic" /\ UNCHANGED Program /\ config.Rf \in Int
      /\ CP!LookupInv
  BY RfType DEF GetNPanics, SInv
<1>3. PICK n \in Int : n = config.Rf
  BY <1>2
<1>4. C!GetNPanics(Me, key, n)
  BY <1>1, <1>3
<1>5. /\ CP!LookupInv' /\ UNCHANGED ring /\ reader'[Me].pc = "panic"
      /\ DOMAIN circle # {} /\ (count < 0 \/ n < 0)
  BY <1>2, <1>4, GetNPanicsRing
<1>6. /\ IsFiniteSet(members) /\ count \in Int
      /\ \A x \in DOMAIN circle : circle[x] \in members
      /\ Cardinality(members) # 1 /\ count >= Cardinality(members)
  BY <1>2, SameFinite DEF SInv, CP!LookupInv, CP!RingInv, CP!RingType, CP!RingAgrees,
     HostsKept, RingServes
<1>7. Cardinality(members) \in Nat /\ Cardinality(members) # 0
  <2>1. members # {}
    BY <1>5, <1>6
  <2> QED  BY <1>6, <2>1, FS_EmptySet, FS_CardinalityType
<1>8. n < 0 /\ Cardinality(members) > 1
  BY <1>5, <1>6, <1>7
<1> QED  BY <1>2, <1>3, <1>5, <1>8, ServingSInv

LEMMA WalkSInv == ASSUME SInv, Walk PROVE SInv'
<1>1. pc = "serve" /\ pc' = "serve" /\ UNCHANGED Program /\ CP!LookupInv
      /\ (C!WalkOn(Me) \/ C!Around(Me))
  BY DEF Walk, SInv, Me
<1>2. /\ CP!LookupInv' /\ UNCHANGED ring /\ reader[Me].pc = "walk"
      /\ reader'[Me].op = reader[Me].op /\ reader'[Me].asked = reader[Me].asked
  BY <1>1, WalkRing
<1>3. reader[Me].op = "GetN" /\ (DOMAIN circle = {} \/ reader[Me].asked = config.Rf)
  BY <1>2 DEF SInv, RingServes
<1> QED  BY <1>1, <1>2, <1>3, ServingSInv

\* The hosts of an answer have senders: getSender does not panic.
LEMMA AnswerSInv ==
  ASSUME SInv, Answer
  PROVE  SInv' /\ pc' = "serve"
<1>1. pc = "serve" /\ UNCHANGED Program /\ C!Return(Me) /\ CP!LookupInv
  BY DEF Answer, SInv, Me
<1>2. CP!LookupInv' /\ UNCHANGED ring /\ reader'[Me].pc = "idle" /\ reader[Me].pc = "done"
  BY <1>1, ReturnRing
<1>3. reader[Me].op = "GetN"
  BY <1>2 DEF SInv, RingServes
<1>4. \A i \in DOMAIN reader[Me].res : reader[Me].res[i] \in members
  <2>1. CP!Looking(reader[Me])
    BY <1>1 DEF CP!LookupInv, CP!LookupsRight, Me
  <2>2. CP!Found(reader[Me].key, reader[Me].res)
    BY <1>2, <1>3, <2>1 DEF CP!Looking, CP!Answered
  <2>3. \A i \in DOMAIN reader[Me].res : reader[Me].res[i] \in CP!RangeOf(circle)
    BY <2>2 DEF CP!Found, CP!ClosestFirst
  <2>4. CP!RangeOf(circle) \subseteq members
    BY <1>1 DEF CP!LookupInv, CP!RingInv, CP!RingAgrees, CP!RangeOf
  <2> QED  BY <2>3, <2>4
<1>5. \A h \in members : Hits(h) # {}
  BY DEF SInv, HostsKept, SenderHosts, Hits
<1>6. pc' = "serve"
  BY <1>1, <1>4, <1>5 DEF Answer, Me
<1> QED  BY <1>1, <1>2, <1>6, ServingSInv

LEMMA SingleSenderSInv ==
  ASSUME SInv, SingleSender
  PROVE  SInv' /\ pc' = "serve"
<1>1. /\ pc = "serve" /\ single /\ UNCHANGED <<Program, ring, reader>>
      /\ pc' = IF senders = << >> THEN "panic" ELSE pc
  BY DEF SingleSender
<1>2. CP!LookupInv'
  BY <1>1, RestingRing DEF SInv
<1>3. senders # << >>
  <2>1. Cardinality(members) = 1 /\ members = SenderHosts
    BY <1>1 DEF SInv, HostsKept
  <2>2. members # {}
    BY <2>1, FS_EmptySet
  <2> QED  BY <2>1, <2>2 DEF SenderHosts
<1> QED  BY <1>1, <1>2, <1>3, ServingSInv DEF SInv, RingServes

-----------------------------------------------------------------------------
LEMMA NextSInv == SInv /\ [Next]_vars => SInv'
<1> SUFFICES ASSUME SInv, [Next]_vars PROVE SInv'
  OBVIOUS
<1>1. CASE UNCHANGED vars
  <2>1. UNCHANGED <<pc, config, todo, storages, j, senders, single, ring, reader>>
    BY <1>1 DEF vars
  <2>2. CP!LookupInv'
    BY <2>1, RestingRing DEF SInv
  <2>3. TypesRight' /\ RingServes'
    BY <2>1 DEF SInv, TypesRight, RingServes, ring
  <2>4. HostsKept'
    BY <2>1, ConfigStays DEF SameConfig, SInv, HostsKept, SenderHosts, ring
  <2> QED  BY <2>2, <2>3, <2>4 DEF SInv
<1> QED  BY <1>1, LoadSInv, ParseSInv, ParsedSInv, StartWorkerSInv, NextStorageSInv,
            MakeBossSInv, ListenSInv, MonitorSInv, GetNSInv, GetNPanicsSInv, WalkSInv,
            AnswerSInv, SingleSenderSInv DEF Next

LEMMA StartupInvariant == Spec => []SInv
BY InitSInv, NextSInv, PTL DEF Spec

\* Whatever the configuration file says: the hosts with senders are those of
\* the definitions that ask for one, Boss.Single is set if there is just one,
\* and an answer of GetN in parse names Rf hosts with hashes or all of them.
THEOREM RelayServed == Spec => []RelayAssumptionsHold
<1>1. SInv => RelayAssumptionsHold
  <2> SUFFICES ASSUME SInv, pc \in {"listen", "serve"}
               PROVE  /\ SenderHosts = Configured /\ members = Configured
                      /\ single <=> Cardinality(Configured) = 1
                      /\ C!Disjoint => Owners = Configured
                      /\ config.Rf >= 1 /\ reader[Me].pc = "done" /\ Configured # {} =>
                           /\ Len(reader[Me].res) =
                                IF config.Rf < Cardinality(Owners)
                                THEN config.Rf ELSE Cardinality(Owners)
                           /\ {reader[Me].res[i] : i \in DOMAIN reader[Me].res}
                                \subseteq Configured
                           /\ C!NoTwice(reader[Me].res)
    BY DEF RelayAssumptionsHold, SenderHosts, Me
  <2>1. SenderHosts = Configured /\ members = Configured
        /\ (single <=> Cardinality(Configured) = 1)
    BY DEF SInv, HostsKept
  <2>2. Owners = CP!RangeOf(circle) /\ Owners \subseteq members
    BY DEF SInv, CP!LookupInv, CP!RingInv, CP!RingAgrees, CP!RangeOf, C!RangeOf, Owners
  <2>3. ASSUME C!Disjoint PROVE members \subseteq Owners
    <3>1. \A e \in members : \A h \in Points[e] : h \in DOMAIN circle /\ circle[h] = e
      BY <2>3 DEF SInv, CP!LookupInv, CP!RingInv, CP!RingAgrees, C!Disjoint, CP!Disjoint
    <3>2. \A e \in members : Points[e] # {}
      BY StartupAssumption DEF SInv, CP!LookupInv, CP!RingInv, CP!RingType
    <3> QED  BY <3>1, <3>2 DEF Owners, C!RangeOf
  <2>4. ASSUME config.Rf >= 1, reader[Me].pc = "done", Configured # {}
        PROVE  /\ Len(reader[Me].res) = IF config.Rf < Cardinality(Owners)
                                        THEN config.Rf ELSE Cardinality(Owners)
               /\ {reader[Me].res[i] : i \in DOMAIN reader[Me].res} \subseteq Configured
               /\ C!NoTwice(reader[Me].res)
    <3>1. reader[Me].op = "GetN" /\ reader[Me].asked = config.Rf
      BY <2>1, <2>4 DEF SInv, RingServes
    <3>2. CP!Answered(reader[Me])
      BY <2>4 DEF SInv, CP!LookupInv, CP!LookupsRight, CP!Looking, Me
    <3>3. CP!Owners = Cardinality(Owners)
      BY <2>2, SameCardinality DEF CP!Owners
    <3>4. CP!CountSuits("GetN")
      <4>1. IsFiniteSet(members) /\ count \in Int /\ count >= Cardinality(members)
        BY SameFinite DEF SInv, CP!LookupInv, CP!RingInv, CP!RingType, RingServes
      <4>2. /\ Cardinality(Owners) <= Cardinality(members)
            /\ Cardinality(Owners) \in Nat /\ Cardinality(members) \in Nat
        BY <2>2, <4>1, FS_Subset, FS_CardinalityType
      <4>3. count >= Cardinality(Owners)
        BY <4>1, <4>2
      <4> QED  BY <3>3, <4>3 DEF CP!CountSuits
    <3>5. CP!Found(reader[Me].key, reader[Me].res)
          /\ Len(reader[Me].res) = CP!AtMostOwners(config.Rf)
      BY <2>4, <3>1, <3>2, <3>4 DEF CP!Answered
    <3>6. Len(reader[Me].res) = IF config.Rf < Cardinality(Owners)
                                THEN config.Rf ELSE Cardinality(Owners)
      <4>1. CP!Owners \in Nat
        BY CP!OwnersFinite, RingAssumptions DEF SInv, CP!LookupInv
      <4>2. config.Rf \in Int
        BY RfType
      <4> QED  BY <3>3, <3>5, <4>1, <4>2 DEF CP!AtMostOwners
    <3>7. \A i \in DOMAIN reader[Me].res : reader[Me].res[i] \in Owners
      BY <2>2, <3>5 DEF CP!Found, CP!ClosestFirst
    <3>8. C!NoTwice(reader[Me].res)
      BY <3>5 DEF CP!Found, CP!NoTwice, C!NoTwice
    <3> QED  BY <2>1, <2>2, <3>6, <3>7, <3>8
  <2> QED  BY <2>1, <2>2, <2>3, <2>4
<1> QED  BY <1>1, StartupInvariant, PTL

\* The only panics of the way to the first lines: rand.Intn(0) or Senders[0] of
\* a program without senders, and make for a negative Rf with several hosts.
THEOREM PanicsExplained == Spec => []PanicExplained
<1>1. SInv /\ PanicExplained /\ [Next]_vars => PanicExplained'
  <2> SUFFICES ASSUME SInv, PanicExplained, [Next]_vars, pc' = "panic"
               PROVE  Configured' = {} \/ (config'.Rf < 0 /\ Cardinality(Configured') > 1)
    BY DEF PanicExplained
  <2>1. CASE UNCHANGED vars
    BY <2>1, ConfigStays DEF SameConfig, PanicExplained, vars
  <2>2. CASE Monitor
    <3>1. members = Configured /\ members = SenderHosts /\ Configured' = Configured
      BY <2>2, ConfigStays DEF SameConfig, Monitor, SInv, HostsKept
    <3>2. senders = << >>
      BY <2>2 DEF Monitor
    <3>3. SenderHosts = {}
      BY <3>2 DEF SenderHosts
    <3> QED  BY <3>1, <3>3
  <2>3. CASE GetNPanics
    <3>1. members = Configured /\ config' = config
      BY <2>3 DEF GetNPanics, Program, SInv, HostsKept
    <3> QED  BY <2>3, <3>1, GetNPanicsSInv, ConfigStays DEF SameConfig
  <2>4. CASE Answer \/ SingleSender
    BY <2>4, AnswerSInv, SingleSenderSInv
  <2>5. ~(Load \/ parseStorages \/ Parsed \/ StartWorker \/ NextStorage \/ MakeBoss \/ Listen
            \/ GetN \/ Walk)
    BY DEF Load, parseStorages, Parsed, StartWorker, NextStorage, MakeBoss, Listen, GetN, Walk
  <2> QED  BY <2>1, <2>2, <2>3, <2>4, <2>5 DEF Next
<1>2. Init => PanicExplained
  BY DEF Init, PanicExplained
<1> QED  BY <1>1, <1>2, StartupInvariant, PTL DEF Spec
=============================================================================
