--------------------------- MODULE MonitorProofs ---------------------------
(***************************************************************************)
(* Theorems about the counters, for every number of connections, copies,   *)
(* lines and seconds: nothing is counted twice or dropped, reports never   *)
(* show more copies than they show lines, con_alive is right, and no       *)
(* second is reported twice.                                               *)
(***************************************************************************)
EXTENDS Monitor, TLAPS, FiniteSetTheorems

-----------------------------------------------------------------------------
(* The inductive invariant *)

\* Where monitor is, and which arguments it has evaluated.
ReportInv ==
  /\ monitor = "select" => swapped = 0
  /\ monitor \in {"announce", "post"} => swapped = 3
  /\ swapped = 0 => report["Send"] = 0
  /\ swapped <= 1 => report["Rcv"] = 0
  /\ swapped <= 2 => report["Conn"] = 0
  /\ monitor = "announce" => left \in 1..OwnMetrics

\* No more copies than lines times Rf: among all there are, and among what is
\* reported once the lines that metrics_rcvd will show are counted in.
CopiesInv ==
  /\ sent + due <= Rf * lines
  /\ told["Send"] <= Rf * told["Rcv"]
  /\ swapped = 1 => told["Send"] + report["Send"] <= Rf * (told["Rcv"] + mon["Rcv"])
  /\ swapped >= 2 => told["Send"] + report["Send"] <= Rf * (told["Rcv"] + report["Rcv"])

IInv ==
  /\ TypeOK
  /\ ReportInv
  /\ Conservation
  /\ CopiesInv
  /\ AliveAgrees

-----------------------------------------------------------------------------
\* Sums, products and sets the steps below need.
LEMMA OneLineMore ==
  \A r, x, y, z \in Nat : y <= r * x /\ z <= y + r => z <= r * (x + 1)
<1> SUFFICES ASSUME NEW r \in Nat, NEW x \in Nat, NEW y \in Nat, NEW z \in Nat,
                    y <= r * x, z <= y + r
             PROVE  z <= r * (x + 1)
  OBVIOUS
<1>1. r * x \in Nat /\ r * (x + 1) = r * x + r  OBVIOUS
<1> QED  BY <1>1

LEMMA AtMostMore ==
  \A x, y, z, r \in Nat :
    z <= y + r => x + y \in Nat /\ x + z \in Nat /\ x + z <= (x + y) + r
OBVIOUS

LEMMA Numbers ==
  ASSUME TypeOK
  PROVE  /\ mon["Rcv"] \in Nat /\ mon["Send"] \in Nat /\ mon["Conn"] \in Nat
         /\ report["Rcv"] \in Nat /\ report["Send"] \in Nat /\ report["Conn"] \in Nat
         /\ told["Rcv"] \in Nat /\ told["Send"] \in Nat /\ told["Conn"] \in Nat
BY DEF TypeOK, Counters

LEMMA InAllType == TypeOK => \A f \in Counters : InAll(f) \in Nat
BY DEF TypeOK, InAll

\* A counter goes up: it alone changes.
LEMMA CountedUp ==
  ASSUME TypeOK, NEW g \in Counters, NEW n \in Nat,
         mon' = [mon EXCEPT ![g] = @ + n], UNCHANGED <<report, told>>
  PROVE  /\ mon' \in [Counters -> Nat] /\ mon'[g] = mon[g] + n
         /\ \A f \in Counters \ {g} : mon'[f] = mon[f]
         /\ InAll(g)' = InAll(g) + n
         /\ \A f \in Counters \ {g} : InAll(f)' = InAll(f)
<1>1. /\ mon' \in [Counters -> Nat] /\ mon'[g] = mon[g] + n
      /\ \A f \in Counters \ {g} : mon'[f] = mon[f]
  BY DEF TypeOK
<1>2. mon[g] \in Nat /\ report[g] \in Nat /\ told[g] \in Nat  BY DEF TypeOK
<1>3. InAll(g)' = InAll(g) + n  BY <1>1, <1>2 DEF InAll
<1>4. \A f \in Counters \ {g} : InAll(f)' = InAll(f)  BY <1>1 DEF InAll
<1> QED  BY <1>1, <1>3, <1>4

LEMMA HandlerSets ==
  ASSUME TypeOK
  PROVE  /\ IsFiniteSet(Accepted) /\ Cardinality(Accepted) \in Nat
         /\ IsFiniteSet(Alive) /\ Cardinality(Alive) \in Nat
<1>1. Accepted \subseteq Conns /\ Alive \subseteq Conns  BY DEF Accepted, Alive
<1>2. IsFiniteSet(Conns)  BY MonitorAssumption
<1> QED  BY <1>1, <1>2, FS_Subset, FS_CardinalityType

LEMMA InitIInv == Init => IInv
<1> SUFFICES ASSUME Init PROVE IInv  OBVIOUS
<1> USE MonitorAssumption
<1>1. TypeOK
  <2>1. Zero \in [Counters -> Nat]  BY DEF Zero
  <2>2. << >> \in Seq(0..MaxClock)  OBVIOUS
  <2>3. clock \in 0..MaxClock /\ 0 \in 0..MaxClock /\ last = clock  BY DEF Init
  <2>4. /\ mon \in [Counters -> Nat] /\ report \in [Counters -> Nat]
        /\ told \in [Counters -> Nat] /\ reports \in Seq(0..MaxClock)
    BY <2>1, <2>2 DEF Init
  <2>5. handler \in [Conns -> {"none", "scan", "announce", "gone"}]  BY DEF Init
  <2>6. /\ main = "accept" /\ con_alive = 0 /\ due = 0 /\ deltaLen = 0
        /\ tick = FALSE /\ monitor = "select" /\ swapped = 0
        /\ sec = 0 /\ alive = 0 /\ left = 0 /\ lines = 0 /\ sent = 0
    BY DEF Init
  <2>7. /\ deltaLen \in 0..DeltaLimit /\ left \in 0..OwnMetrics /\ lines \in 0..MaxLines
        /\ last \in 0..MaxClock /\ sec \in 0..MaxClock /\ swapped \in 0..3
    BY <2>3, <2>6
  <2>8. /\ con_alive \in Int /\ alive \in Int /\ due \in Nat /\ sent \in Nat
        /\ main \in {"accept", "conn", "alive"}
        /\ monitor \in {"select", "swap", "announce", "post"}
    BY <2>6
  <2>9. tick \in BOOLEAN  BY <2>6
  <2> QED  BY <2>3, <2>4, <2>5, <2>7, <2>8, <2>9 DEF TypeOK
<1>2. Accepted = {} /\ Alive = {}  BY DEF Init, Accepted, Alive
<1>3. Cardinality({}) = 0  BY FS_EmptySet
<1>4. ReportInv  BY DEF Init, ReportInv, Zero, Counters
<1>5. Conservation
  <2>1. InAll("Rcv") = 0 /\ InAll("Send") = 0 /\ InAll("Conn") = 0
    BY DEF Init, InAll, Zero, Counters
  <2> QED  BY <1>2, <1>3, <2>1 DEF Init, Conservation
<1>6. CopiesInv
  <2>1. Rf * 0 = 0  OBVIOUS
  <2> QED  BY <2>1 DEF Init, CopiesInv, Zero, Counters
<1>7. AliveAgrees  BY <1>2, <1>3 DEF Init, AliveAgrees
<1> QED  BY <1>1, <1>4, <1>5, <1>6, <1>7 DEF IInv

-----------------------------------------------------------------------------
(* The accept loop, the handlers and the senders *)

LEMMA AcceptIInv ==
  ASSUME IInv, NEW c \in Conns, Accept(c)
  PROVE  IInv'
<1> USE MonitorAssumption DEF IInv
<1>1. TypeOK'
  BY DEF Accept, TypeOK, monitorVars
<1>2. ReportInv' /\ CopiesInv'
  BY DEF Accept, ReportInv, CopiesInv, monitorVars
<1>3. Accepted' = Accepted \cup {c} /\ c \notin Accepted
  BY DEF Accept, Accepted, TypeOK
<1>4. Alive' = Alive \cup {c} /\ c \notin Alive
  BY DEF Accept, Alive, TypeOK
<1>5. Cardinality(Accepted') = Cardinality(Accepted) + 1
  BY <1>3, HandlerSets, FS_AddElement
<1>6. Cardinality(Alive') = Cardinality(Alive) + 1
  BY <1>4, HandlerSets, FS_AddElement
<1>7. Conservation'
  <2>1. \A f \in Counters : InAll(f)' = InAll(f)
    BY DEF Accept, InAll, monitorVars
  <2>2. InAll("Rcv")' = InAll("Rcv") /\ InAll("Send")' = InAll("Send")
        /\ InAll("Conn")' = InAll("Conn")
    BY <2>1 DEF Counters
  <2> QED  BY <1>5, <2>2, HandlerSets DEF Accept, Conservation
<1>8. AliveAgrees'
  BY <1>6, HandlerSets DEF Accept, AliveAgrees, TypeOK, monitorVars
<1> QED  BY <1>1, <1>2, <1>7, <1>8

LEMMA CountConnIInv ==
  ASSUME IInv, CountConn
  PROVE  IInv'
<1> USE MonitorAssumption DEF IInv
<1>1. TypeOK'
  BY DEF CountConn, TypeOK, Counters, monitorVars
<1>2. /\ mon'["Rcv"] = mon["Rcv"] /\ mon'["Send"] = mon["Send"]
      /\ InAll("Rcv")' = InAll("Rcv") /\ InAll("Send")' = InAll("Send")
      /\ InAll("Conn")' = InAll("Conn") + 1
  BY CountedUp DEF CountConn, Counters, monitorVars
<1>3. ReportInv' /\ CopiesInv'
  BY <1>2 DEF CountConn, ReportInv, CopiesInv, monitorVars
<1>4. Accepted' = Accepted /\ Alive' = Alive
  BY DEF CountConn, Accepted, Alive
<1>5. Conservation'
  BY <1>2, <1>4, HandlerSets, InAllType DEF CountConn, Conservation, Counters
<1>6. AliveAgrees'
  BY <1>4 DEF CountConn, AliveAgrees, monitorVars
<1> QED  BY <1>1, <1>3, <1>5, <1>6

LEMMA CountAliveIInv ==
  ASSUME IInv, CountAlive
  PROVE  IInv'
<1> USE MonitorAssumption DEF IInv
<1>1. TypeOK'
  BY DEF CountAlive, TypeOK, monitorVars
<1>2. ReportInv' /\ CopiesInv'
  BY DEF CountAlive, ReportInv, CopiesInv, monitorVars
<1>3. Accepted' = Accepted /\ Alive' = Alive
  BY DEF CountAlive, Accepted, Alive
<1>4. Conservation'
  BY <1>3 DEF CountAlive, Conservation, InAll, monitorVars
<1>5. AliveAgrees'
  BY <1>3, HandlerSets DEF CountAlive, AliveAgrees, TypeOK, monitorVars
<1> QED  BY <1>1, <1>2, <1>4, <1>5

LEMMA LineIInv ==
  ASSUME IInv, NEW c \in Conns, Line(c)
  PROVE  IInv'
<1> USE MonitorAssumption DEF IInv
<1>1. /\ mon' \in [Counters -> Nat] /\ mon'["Rcv"] = mon["Rcv"] + 1
      /\ InAll("Rcv")' = InAll("Rcv") + 1 /\ InAll("Send")' = InAll("Send")
      /\ InAll("Conn")' = InAll("Conn")
  BY CountedUp DEF Line, Counters, monitorVars
<1>2. due' \in Nat /\ due' <= due + Rf /\ lines' = lines + 1 /\ lines' \in 0..MaxLines
  BY DEF Line, TypeOK
<1>3. handler' \in [Conns -> {"none", "scan", "announce", "gone"}]
  BY DEF Line, TypeOK
<1>4. TypeOK'
  BY <1>1, <1>2, <1>3 DEF Line, TypeOK, monitorVars
<1>5. ReportInv'
  BY <1>1 DEF Line, ReportInv, monitorVars
<1>6. Accepted' = Accepted /\ Alive' = Alive
  BY DEF Line, Accepted, Alive, TypeOK
<1>7. Conservation'
  BY <1>1, <1>2, <1>6 DEF Line, Conservation
<1>8. CopiesInv'
  <2>1. sent' + due' <= Rf * lines'
    <3>0. sent' = sent /\ sent \in Nat /\ due \in Nat /\ lines \in Nat /\ Rf \in Nat
      BY DEF Line, TypeOK
    <3>1. sent + due \in Nat /\ sent + due' \in Nat /\ sent + due' <= (sent + due) + Rf
      BY <1>2, <3>0, AtMostMore, Zenon
    <3>2. sent' + due' \in Nat /\ sent' + due' <= (sent + due) + Rf
      BY <3>0, <3>1, Zenon
    <3>3. sent + due <= Rf * lines  BY DEF CopiesInv
    <3>4. sent' + due' <= Rf * (lines + 1)
      BY <3>0, <3>1, <3>2, <3>3, OneLineMore, Zenon
    <3> QED  BY <1>2, <3>4
  <2>2. told' = told /\ report' = report /\ swapped' = swapped
    BY DEF Line, monitorVars
  <2> DEFINE x == told["Rcv"] + mon["Rcv"]
             y == told["Send"] + report["Send"]
  <2>3. x \in Nat /\ y \in Nat /\ Rf \in Nat /\ y <= y + Rf  BY Numbers
  <2>4. told["Rcv"] + mon'["Rcv"] = x + 1  BY <1>1, Numbers
  <2>5. swapped = 1 => y <= Rf * (x + 1)
    <3>1. swapped = 1 => y <= Rf * x  BY DEF CopiesInv
    <3> HIDE DEF x, y
    <3> QED  BY <2>3, <3>1, OneLineMore, Zenon
  <2>6. swapped = 1 => told["Send"] + report["Send"] <= Rf * (told["Rcv"] + mon'["Rcv"])
    BY <2>4, <2>5
  <2> QED  BY <2>1, <2>2, <2>6 DEF CopiesInv
<1>9. AliveAgrees'
  BY <1>6 DEF Line, AliveAgrees, monitorVars
<1> QED  BY <1>4, <1>5, <1>7, <1>8, <1>9

LEMMA AnnounceIInv ==
  ASSUME IInv, NEW c \in Conns, Announce(c)
  PROVE  IInv'
<1> USE MonitorAssumption DEF IInv
<1>1. TypeOK'
  BY DEF Announce, HasRoom, TypeOK, monitorVars
<1>2. ReportInv' /\ CopiesInv'
  BY DEF Announce, ReportInv, CopiesInv, monitorVars
<1>3. Accepted' = Accepted /\ Alive' = Alive
  BY DEF Announce, Accepted, Alive, TypeOK
<1>4. Conservation' /\ AliveAgrees'
  BY <1>3 DEF Announce, Conservation, InAll, AliveAgrees, monitorVars
<1> QED  BY <1>1, <1>2, <1>4

LEMMA LeaveIInv ==
  ASSUME IInv, NEW c \in Conns, Leave(c)
  PROVE  IInv'
<1> USE MonitorAssumption DEF IInv
<1>1. TypeOK'
  BY DEF Leave, CountDown, TypeOK, monitorVars
<1>2. ReportInv' /\ CopiesInv'
  BY DEF Leave, ReportInv, CopiesInv, monitorVars
<1>3. Accepted' = Accepted
  BY DEF Leave, Accepted, TypeOK
<1>4. Alive' = Alive \ {c} /\ c \in Alive
  BY DEF Leave, Alive, TypeOK
<1>5. Cardinality(Alive') = Cardinality(Alive) - 1
  BY <1>4, HandlerSets, FS_RemoveElement
<1>6. Conservation'
  <2>1. InAll("Rcv")' = InAll("Rcv") /\ InAll("Send")' = InAll("Send")
        /\ InAll("Conn")' = InAll("Conn")
    BY DEF Leave, InAll, monitorVars
  <2> QED  BY <1>3, <2>1 DEF Leave, Conservation
<1>7. AliveAgrees'
  BY <1>5, HandlerSets DEF Leave, CountDown, AliveAgrees, TypeOK, monitorVars
<1> QED  BY <1>1, <1>2, <1>6, <1>7

LEMMA CountSentIInv ==
  ASSUME IInv, CountSent
  PROVE  IInv'
<1> USE MonitorAssumption DEF IInv
<1>1. PICK n \in 1..due :
        /\ mon' = [mon EXCEPT !["Send"] = @ + n]
        /\ sent' = sent + n /\ due' = due - n
  BY DEF CountSent
<1>2. n \in Nat /\ due - n \in Nat  BY DEF TypeOK
<1>3. /\ mon' \in [Counters -> Nat] /\ mon'["Rcv"] = mon["Rcv"]
      /\ InAll("Rcv")' = InAll("Rcv") /\ InAll("Send")' = InAll("Send") + n
      /\ InAll("Conn")' = InAll("Conn")
  BY <1>1, <1>2, CountedUp DEF CountSent, Counters, monitorVars
<1>4. TypeOK'
  BY <1>1, <1>2, <1>3 DEF CountSent, TypeOK, monitorVars
<1>5. ReportInv'
  BY <1>3 DEF CountSent, ReportInv, monitorVars
<1>6. Accepted' = Accepted /\ Alive' = Alive
  BY DEF CountSent, Accepted, Alive
<1>7. Conservation'
  BY <1>1, <1>3, <1>6 DEF CountSent, Conservation
<1>8. CopiesInv'
  <2>1. sent' + due' = sent + due  BY <1>1, <1>2 DEF TypeOK
  <2> QED  BY <2>1, <1>3 DEF CountSent, CopiesInv, monitorVars
<1>9. AliveAgrees'
  BY <1>6 DEF CountSent, AliveAgrees, monitorVars
<1> QED  BY <1>4, <1>5, <1>7, <1>8, <1>9

\* The steps that concern neither a counter nor monitor.
LEMMA OutsideIInv ==
  ASSUME IInv, BogusDelta \/ Clock \/ Tick \/ UNCHANGED vars
  PROVE  IInv'
<1> USE MonitorAssumption DEF IInv
<1>1. UNCHANGED <<pathVars, mon, monitorVars>>
  BY DEF BogusDelta, Clock, Tick, vars
<1>2. deltaLen' \in 0..DeltaLimit /\ clock' \in 0..MaxClock /\ tick' \in BOOLEAN
  <2>1. CASE BogusDelta  BY <2>1 DEF BogusDelta, TypeOK
  <2>2. CASE Clock  BY <2>2 DEF Clock, TypeOK
  <2>3. CASE Tick  BY <2>3 DEF Tick, TypeOK
  <2>4. CASE UNCHANGED vars  BY <2>4 DEF vars, TypeOK
  <2> QED  BY <2>1, <2>2, <2>3, <2>4
<1>3. TypeOK'
  BY <1>1, <1>2 DEF TypeOK, pathVars, monitorVars
<1>4. Accepted' = Accepted /\ Alive' = Alive
  BY <1>1 DEF Accepted, Alive, pathVars
<1>5. ReportInv' /\ CopiesInv' /\ Conservation' /\ AliveAgrees'
  BY <1>1, <1>4
  DEF ReportInv, CopiesInv, Conservation, InAll, AliveAgrees, pathVars, monitorVars
<1> QED  BY <1>3, <1>5
-----------------------------------------------------------------------------
(* monitor *)

\* Steps of monitor leave the handlers and con_alive alone.
LEMMA AliveKept ==
  ASSUME AliveAgrees, UNCHANGED pathVars, alive' >= -1
  PROVE  AliveAgrees'
<1>1. Alive' = Alive  BY DEF Alive, pathVars
<1> QED  BY <1>1 DEF AliveAgrees, pathVars

LEMMA TakeTickIInv ==
  ASSUME IInv, TakeTick
  PROVE  IInv'
<1> USE MonitorAssumption DEF IInv
<1>1. UNCHANGED <<pathVars, mon, swapped, report, alive, left, told>> /\ tick' = FALSE
  BY DEF TakeTick
<1>2. /\ monitor' \in {"select", "swap"} /\ sec' \in 0..MaxClock
      /\ monitor = "select"
  BY DEF TakeTick, TypeOK
<1>3. TypeOK'
  BY <1>2 DEF TakeTick, TypeOK, pathVars
<1>4. ReportInv' /\ CopiesInv'
  BY <1>1, <1>2 DEF ReportInv, CopiesInv, pathVars
<1>5. Accepted' = Accepted  BY <1>1 DEF Accepted, pathVars
<1>6. Conservation' /\ AliveAgrees'
  BY <1>1, <1>5, AliveKept DEF Conservation, InAll, AliveAgrees, pathVars
<1> QED  BY <1>3, <1>4, <1>6

\* A counter is swapped out: what is in all stays, since the report had nothing
\* of it.
LEMMA SwappedOut ==
  ASSUME TypeOK, NEW f \in Counters, SwapOut(f), report[f] = 0, told' = told
  PROVE  /\ mon' \in [Counters -> Nat] /\ report' \in [Counters -> Nat]
         /\ report'[f] = mon[f] /\ mon'[f] = 0
         /\ \A g \in Counters \ {f} : report'[g] = report[g] /\ mon'[g] = mon[g]
         /\ \A g \in Counters : InAll(g)' = InAll(g)
<1>1. /\ mon' \in [Counters -> Nat] /\ report' \in [Counters -> Nat]
      /\ report'[f] = mon[f] /\ mon'[f] = 0
      /\ \A g \in Counters \ {f} : report'[g] = report[g] /\ mon'[g] = mon[g]
  BY DEF TypeOK, SwapOut
<1>2. mon[f] \in Nat /\ told[f] \in Nat  BY DEF TypeOK
<1>3. InAll(f)' = InAll(f)  BY <1>1, <1>2 DEF InAll
<1>4. \A g \in Counters \ {f} : InAll(g)' = InAll(g)  BY <1>1 DEF InAll
<1> QED  BY <1>1, <1>3, <1>4

LEMMA SwapIInv ==
  ASSUME IInv, Swap
  PROVE  IInv'
<1> USE MonitorAssumption DEF IInv
<1> DEFINE f == Arguments[swapped + 1]
<1>1. /\ UNCHANGED <<pathVars, monitor, alive, left, sec, told, deltaLen, clock, tick,
                     last, reports>>
      /\ SwapOut(f) /\ monitor = "swap" /\ swapped' = swapped + 1
  BY DEF Swap
<1>2. swapped \in 0..2  BY DEF Swap, TypeOK
<1>3. /\ swapped = 0 => f = "Send"
      /\ swapped = 1 => f = "Rcv"
      /\ swapped = 2 => f = "Conn"
  BY DEF Arguments
<1> HIDE DEF f
<1>4. f \in Counters /\ report[f] = 0  BY <1>2, <1>3 DEF ReportInv, Counters
<1>5. /\ mon' \in [Counters -> Nat] /\ report' \in [Counters -> Nat]
      /\ report'[f] = mon[f] /\ mon'[f] = 0
      /\ \A g \in Counters \ {f} : report'[g] = report[g] /\ mon'[g] = mon[g]
      /\ \A g \in Counters : InAll(g)' = InAll(g)
  BY <1>1, <1>4, SwappedOut
<1>6. TypeOK'
  BY <1>1, <1>2, <1>5 DEF TypeOK, pathVars
<1>7. ReportInv'
  BY <1>1, <1>2, <1>3, <1>5 DEF ReportInv, Counters
<1>8. Accepted' = Accepted  BY <1>1 DEF Accepted, pathVars
<1>9. Conservation'
  BY <1>1, <1>5, <1>8 DEF Conservation, Counters, pathVars
<1>10. CopiesInv'
  <2>1. CASE swapped = 0
    <3>1. InAll("Send") = sent /\ InAll("Rcv") = lines  BY DEF Conservation
    <3>2. report["Send"] = 0 /\ report["Rcv"] = 0  BY <2>1 DEF ReportInv
    <3>3. told["Send"] + mon["Send"] = sent /\ told["Rcv"] + mon["Rcv"] = lines
      BY <3>1, <3>2, Numbers DEF InAll
    <3>4. sent <= Rf * lines
      <4> DEFINE x == Rf * lines
      <4>1. x \in Nat /\ sent \in Nat /\ due \in Nat  BY DEF TypeOK
      <4>2. sent + due <= x  BY DEF CopiesInv
      <4> HIDE DEF x
      <4>3. sent <= x  BY <4>1, <4>2
      <4> QED  BY <4>3 DEF x
    <3>5. report'["Send"] = mon["Send"] /\ mon'["Rcv"] = mon["Rcv"]
      BY <2>1, <1>3, <1>5 DEF Counters
    <3>6. told["Send"] + report'["Send"] <= Rf * (told["Rcv"] + mon'["Rcv"])
      BY <3>3, <3>4, <3>5
    <3> QED  BY <1>1, <2>1, <3>6 DEF CopiesInv, pathVars
  <2>2. CASE swapped = 1
    <3>1. report'["Rcv"] = mon["Rcv"] /\ report'["Send"] = report["Send"]
      BY <2>2, <1>3, <1>5 DEF Counters
    <3> QED  BY <1>1, <2>2, <3>1 DEF CopiesInv, pathVars
  <2>3. CASE swapped = 2
    <3>1. report'["Rcv"] = report["Rcv"] /\ report'["Send"] = report["Send"]
      BY <2>3, <1>3, <1>5 DEF Counters
    <3> QED  BY <1>1, <2>3, <3>1 DEF CopiesInv, pathVars
  <2> QED  BY <1>2, <2>1, <2>2, <2>3
<1>11. AliveAgrees'
  BY <1>1, AliveKept DEF AliveAgrees
<1> QED  BY <1>6, <1>7, <1>9, <1>10, <1>11

LEMMA LoadAliveIInv ==
  ASSUME IInv, LoadAlive
  PROVE  IInv'
<1> USE MonitorAssumption DEF IInv
<1>1. UNCHANGED <<pathVars, mon, swapped, report, told>>  BY DEF LoadAlive
<1>2. TypeOK'
  BY DEF LoadAlive, TypeOK, pathVars
<1>3. ReportInv' /\ CopiesInv'
  BY DEF LoadAlive, ReportInv, CopiesInv, pathVars
<1>4. Accepted' = Accepted  BY <1>1 DEF Accepted, pathVars
<1>5. Conservation'
  BY <1>1, <1>4 DEF Conservation, InAll, pathVars
<1>6. alive' >= -1
  <2>1. Cardinality(Alive) \in Nat  BY HandlerSets
  <2>2. con_alive \in Int
        /\ con_alive = Cardinality(Alive) - (IF main = "accept" THEN 0 ELSE 1)
    BY DEF AliveAgrees, TypeOK
  <2> QED  BY <2>1, <2>2 DEF LoadAlive
<1>7. AliveAgrees'
  BY <1>1, <1>6, AliveKept
<1> QED  BY <1>2, <1>3, <1>5, <1>7

LEMMA AnnounceOwnIInv ==
  ASSUME IInv, AnnounceOwn
  PROVE  IInv'
<1> USE MonitorAssumption DEF IInv
<1>1. UNCHANGED <<pathVars, mon, swapped, report, alive, told>>  BY DEF AnnounceOwn
<1>2. left \in 1..OwnMetrics /\ swapped = 3  BY DEF AnnounceOwn, ReportInv
<1>3. left' \in 0..OwnMetrics /\ (monitor' = "announce" => left' \in 1..OwnMetrics)
  BY <1>2 DEF AnnounceOwn
<1>4. deltaLen' \in 0..DeltaLimit /\ monitor' \in {"announce", "post"}
  BY DEF AnnounceOwn, HasRoom, TypeOK
<1>5. TypeOK'
  BY <1>3, <1>4 DEF AnnounceOwn, TypeOK, pathVars
<1>6. ReportInv' /\ CopiesInv'
  BY <1>1, <1>2, <1>3, <1>4 DEF ReportInv, CopiesInv, pathVars
<1>7. Accepted' = Accepted  BY <1>1 DEF Accepted, pathVars
<1>8. Conservation' /\ AliveAgrees'
  BY <1>1, <1>7, AliveKept DEF Conservation, InAll, AliveAgrees, pathVars
<1> QED  BY <1>5, <1>6, <1>8

LEMMA PostIInv ==
  ASSUME IInv, Post
  PROVE  IInv'
<1> USE MonitorAssumption DEF IInv
<1>1. /\ UNCHANGED <<pathVars, mon>> /\ monitor' = "select" /\ swapped' = 0
      /\ report' = Zero /\ alive' = 0
      /\ told' = [f \in Counters |-> told[f] + report[f]]
  BY DEF Post
<1>2. /\ report' \in [Counters -> Nat] /\ \A f \in Counters : report'[f] = 0
      /\ told' \in [Counters -> Nat]
      /\ \A f \in Counters : told'[f] = told[f] + report[f]
  <2>1. \A f \in Counters : told[f] \in Nat /\ report[f] \in Nat  BY DEF TypeOK
  <2> QED  BY <1>1, <2>1 DEF Zero
<1>3. TypeOK'
  <2>1. reports' \in Seq(0..MaxClock)  BY DEF Post, TypeOK
  <2>2. last' \in 0..MaxClock /\ sec' \in 0..MaxClock  BY DEF Post, TypeOK
  <2> QED  BY <1>1, <1>2, <2>1, <2>2 DEF Post, TypeOK, pathVars
<1>4. ReportInv'
  BY <1>1, <1>2 DEF ReportInv, Counters
<1>5. CopiesInv'
  <2>1. told["Send"] + report["Send"] <= Rf * (told["Rcv"] + report["Rcv"])
    BY DEF Post, ReportInv, CopiesInv
  <2>2. told'["Send"] <= Rf * told'["Rcv"]
    BY <1>2, <2>1 DEF Counters
  <2> QED  BY <1>1, <2>2 DEF CopiesInv, pathVars
<1>6. Accepted' = Accepted  BY <1>1 DEF Accepted, pathVars
<1>7. Conservation'
  <2>1. ASSUME NEW f \in Counters
        PROVE  InAll(f)' = InAll(f)
    <3>1. mon[f] \in Nat /\ report[f] \in Nat /\ told[f] \in Nat  BY DEF TypeOK
    <3> QED  BY <1>1, <1>2, <3>1 DEF InAll
  <2>2. InAll("Rcv")' = InAll("Rcv") /\ InAll("Send")' = InAll("Send")
        /\ InAll("Conn")' = InAll("Conn")
    BY <2>1 DEF Counters
  <2> QED  BY <1>1, <1>6, <2>2 DEF Conservation, pathVars
<1>8. AliveAgrees'
  BY <1>1, AliveKept
<1> QED  BY <1>3, <1>4, <1>5, <1>7, <1>8

LEMMA NextIInv == IInv /\ [Next]_vars => IInv'
<1> SUFFICES ASSUME IInv, [Next]_vars PROVE IInv'  OBVIOUS
<1>1. ASSUME NEW c \in Conns, Accept(c) \/ Line(c) \/ Announce(c) \/ Leave(c)
      PROVE  IInv'
  BY <1>1, AcceptIInv, LineIInv, AnnounceIInv, LeaveIInv
<1>2. CASE CountConn \/ CountAlive \/ CountSent
  BY <1>2, CountConnIInv, CountAliveIInv, CountSentIInv
<1>3. CASE BogusDelta \/ Clock \/ Tick \/ UNCHANGED vars
  BY <1>3, OutsideIInv
<1>4. CASE TakeTick \/ Swap \/ LoadAlive \/ AnnounceOwn \/ Post
  BY <1>4, TakeTickIInv, SwapIInv, LoadAliveIInv, AnnounceOwnIInv, PostIInv
<1> QED  BY <1>1, <1>2, <1>3, <1>4 DEF Next

\* In every state of every behaviour.
LEMMA Invariance == Spec => []IInv
BY InitIInv, NextIInv, PTL DEF Spec

-----------------------------------------------------------------------------
\* Every variable keeps its type: no counter runs below zero, DeltaChan holds no
\* more than it was made for, a report has as many parts as it should.
THEOREM CountersTyped == Spec => []TypeOK
BY Invariance, PTL DEF IInv

\* The counters, the report in the making and the reports made hold every line,
\* copy and connection once, however monitor's swaps fall among the increments.
THEOREM NothingLostBetweenReports == Spec => []Conservation
BY Invariance, PTL DEF IInv

\* The reports together never show more copies as sent than Rf for each line
\* they show as received.
THEOREM SentNeverAhead == Spec => []SendNotAhead
<1>1. IInv => SendNotAhead  BY DEF IInv, CopiesInv, SendNotAhead
<1> QED  BY <1>1, Invariance, PTL

\* con_alive counts the handlers that run, less the one not yet counted, and no
\* report shows less than -1.
THEOREM AliveRight == Spec => []AliveAgrees
BY Invariance, PTL DEF IInv

-----------------------------------------------------------------------------
(* The seconds of the reports *)

\* A report in the making is later than the last one made.
TimeInv ==
  /\ \A i \in DOMAIN reports : reports[i] <= last
  /\ monitor # "select" => last < sec
  /\ ReportsInOrder

LEMMA InitTimeInv == Init => TimeInv
BY DEF Init, TimeInv, ReportsInOrder

LEMMA StepTimeInv == IInv /\ TimeInv /\ [Next]_vars => TimeInv'
<1> SUFFICES ASSUME IInv, TimeInv, [Next]_vars PROVE TimeInv'
  OBVIOUS
<1>1. /\ last \in Int /\ sec \in Int /\ clock \in Int
      /\ reports \in Seq(0..MaxClock) /\ \A i \in DOMAIN reports : reports[i] \in Int
  <2>1. MaxClock \in Nat /\ last \in 0..MaxClock /\ sec \in 0..MaxClock
        /\ clock \in 0..MaxClock /\ reports \in Seq(0..MaxClock)
    BY MonitorAssumption DEF IInv, TypeOK
  <2>2. \A i \in DOMAIN reports : reports[i] \in 0..MaxClock
    BY <2>1
  <2> QED  BY <2>1, <2>2
<1>2. CASE TakeTick
  BY <1>1, <1>2 DEF TakeTick, Later, TimeInv, ReportsInOrder
<1>3. CASE Post
  <2>1. last < sec /\ last' = sec /\ reports' = Append(reports, sec) /\ monitor' = "select"
    BY <1>3 DEF Post, TimeInv
  <2>2. /\ Len(reports) \in Nat /\ DOMAIN reports = 1..Len(reports)
        /\ DOMAIN reports' = 1..(Len(reports) + 1)
        /\ \A i \in 1..Len(reports) : reports'[i] = reports[i]
        /\ reports'[Len(reports) + 1] = sec
    BY <1>1, <2>1
  <2>3. \A i \in 1..(Len(reports) + 1) : i \in 1..Len(reports) \/ i = Len(reports) + 1
    BY <2>2
  <2>4. \A i \in 1..Len(reports) : reports[i] < sec
    BY <1>1, <2>1, <2>2 DEF TimeInv
  <2>5. \A i \in DOMAIN reports' : reports'[i] <= last'
    BY <1>1, <2>1, <2>2, <2>3, <2>4
  <2>6. ASSUME NEW i \in DOMAIN reports', NEW j \in DOMAIN reports', i < j
        PROVE  reports'[i] < reports'[j]
    <3>1. i \in 1..Len(reports)
      BY <2>2, <2>6
    <3>2. CASE j \in 1..Len(reports)
      BY <2>2, <2>6, <3>1, <3>2 DEF TimeInv, ReportsInOrder
    <3>3. CASE j = Len(reports) + 1
      BY <2>2, <2>4, <3>1, <3>3
    <3> QED  BY <2>2, <2>3, <3>2, <3>3
  <2> QED  BY <2>1, <2>5, <2>6 DEF TimeInv, ReportsInOrder
<1>4. CASE UNCHANGED <<last, reports>> /\ sec' = sec
             /\ (monitor = "select" => monitor' = "select")
  BY <1>4 DEF TimeInv, ReportsInOrder
<1>5. CASE ~TakeTick /\ ~Post
  <2>1. UNCHANGED <<last, reports>> /\ sec' = sec
          /\ (monitor = "select" => monitor' = "select")
    BY <1>5 DEF Next, vars, monitorVars, Accept, Line, Announce, Leave, CountConn, CountAlive,
                CountSent, BogusDelta, Clock, Tick, Swap, LoadAlive, AnnounceOwn
  <2> QED  BY <1>4, <2>1
<1> QED  BY <1>2, <1>3, <1>5

\* The seconds of the reports grow, however ticks bunch up and whatever the
\* wall clock does.
THEOREM SecondsGrow == Spec => []ReportsInOrder
<1>1. IInv /\ TimeInv /\ [Next]_vars => TimeInv'
  BY StepTimeInv
<1>2. TimeInv => ReportsInOrder
  BY DEF TimeInv
<1> QED  BY InitTimeInv, Invariance, <1>1, <1>2, PTL DEF Spec
=============================================================================
