------------------------------ MODULE Monitor ------------------------------
(***************************************************************************)
(* The counters of src/src/cacher/cacher.go and what monitor reports of    *)
(* them: the accept loop, the connection handlers and the senders add to   *)
(* mylib.Mmon and con_alive while monitor, once a second, swaps the        *)
(* counters out one after the other, puts the names of its own metrics on  *)
(* DeltaChan and sends its report.  What happens to a line on its way from *)
(* a connection to a sender is module Relay's.                             *)
(***************************************************************************)
EXTENDS Integers, Sequences, FiniteSets

CONSTANTS
  Conns,       \* connections, each accepted once
  Rf,          \* copies of a line the senders are given (at most)
  OwnMetrics,  \* metrics of a report (9 in the code)
  DeltaLimit,  \* capacity of DeltaChan (5000000 in the code)
  MaxLines,    \* bound: lines received in all
  MaxClock     \* bound: seconds the wall clock shows

ASSUME MonitorAssumption ==
  /\ IsFiniteSet(Conns)
  /\ Rf \in Nat \ {0} /\ OwnMetrics \in Nat \ {0} /\ DeltaLimit \in Nat \ {0}
  /\ MaxLines \in Nat /\ MaxClock \in Nat

Counters == {"Send", "Rcv", "Conn"}

VARIABLES
  handler,    \* process_connection of every connection
  main,       \* the accept loop: accepting, or between go and an increment
  mon,        \* mylib.Mmon
  con_alive,
  due,        \* copies given to senders and not yet added to mon.Send
  deltaLen,   \* names on DeltaChan
  clock,      \* time.Now().Unix()
  tick,       \* a tick waits in monitor's ticker channel (capacity one)
  last,       \* the local last of monitor
  monitor,    \* where monitor is
  swapped,    \* arguments of send_mon_data evaluated so far
  report,     \* the values of these arguments, 0 before
  sec, alive, \* the report's second and conn_alive
  left        \* own metrics still to be announced

\* History: lines received and copies counted as sent; what was reported in
\* all; the seconds of the reports.
VARIABLES lines, sent, told, reports

pathVars    == <<handler, main, con_alive, due, lines, sent>>
monitorVars == <<last, monitor, swapped, report, sec, alive, left, told, reports>>
vars == <<pathVars, mon, deltaLen, clock, tick, monitorVars>>

Zero == [f \in Counters |-> 0]

Init ==
  /\ handler = [c \in Conns |-> "none"] /\ main = "accept"
  /\ mon = Zero /\ con_alive = 0 /\ due = 0 /\ deltaLen = 0
  /\ clock \in 0..MaxClock /\ last = clock /\ tick = FALSE
  /\ monitor = "select" /\ swapped = 0 /\ report = Zero
  /\ sec = 0 /\ alive = 0 /\ left = 0
  /\ lines = 0 /\ sent = 0 /\ told = Zero /\ reports = << >>

-----------------------------------------------------------------------------
(* main's accept loop *)

\* ln.Accept returns and the handler is started before it is counted.
Accept(c) ==
  /\ main = "accept" /\ handler[c] = "none"
  /\ handler' = [handler EXCEPT ![c] = "scan"]
  /\ main' = "conn"
  /\ UNCHANGED <<mon, con_alive, due, lines, sent, deltaLen, clock, tick, monitorVars>>

CountConn ==
  /\ main = "conn"
  /\ mon' = [mon EXCEPT !["Conn"] = @ + 1]
  /\ main' = "alive"
  /\ UNCHANGED <<handler, con_alive, due, lines, sent, deltaLen, clock, tick, monitorVars>>

CountAlive ==
  /\ main = "alive"
  /\ con_alive' = con_alive + 1
  /\ main' = "accept"
  /\ UNCHANGED <<handler, due, lines, sent, mon, deltaLen, clock, tick, monitorVars>>

-----------------------------------------------------------------------------
(* Connections and senders *)

\* A line is counted and then turned away or given to at most Rf senders.
Line(c) ==
  /\ handler[c] = "scan" /\ lines < MaxLines
  /\ mon' = [mon EXCEPT !["Rcv"] = @ + 1] /\ lines' = lines + 1
  /\ \/ UNCHANGED <<handler, due>>
     \/ /\ handler' = [handler EXCEPT ![c] = "announce"]
        /\ \E copies \in 1..Rf : due' = due + copies
  /\ UNCHANGED <<main, con_alive, sent, deltaLen, clock, tick, monitorVars>>

HasRoom == deltaLen < DeltaLimit

Announce(c) ==
  /\ handler[c] = "announce" /\ HasRoom
  /\ deltaLen' = deltaLen + 1
  /\ handler' = [handler EXCEPT ![c] = "scan"]
  /\ UNCHANGED <<main, con_alive, due, lines, sent, mon, clock, tick, monitorVars>>

\* Mutant: the handler returns without counting down.
LeaveUncounted == UNCHANGED con_alive

CountDown == con_alive' = con_alive - 1

\* The scan loop ends, with an error or without.
Leave(c) ==
  /\ handler[c] = "scan"
  /\ handler' = [handler EXCEPT ![c] = "gone"]
  /\ CountDown
  /\ UNCHANGED <<main, due, lines, sent, mon, deltaLen, clock, tick, monitorVars>>

\* A sender adds the size of a batch.
CountSent ==
  /\ \E n \in 1..due :
       /\ mon' = [mon EXCEPT !["Send"] = @ + n]
       /\ sent' = sent + n /\ due' = due - n
  /\ UNCHANGED <<handler, main, con_alive, lines, deltaLen, clock, tick, monitorVars>>

\* Mutant: nobody reads DeltaChan.
NoConsumer == FALSE /\ UNCHANGED vars

\* The consumer of DeltaChan takes a name.
BogusDelta ==
  /\ deltaLen > 0 /\ deltaLen' = deltaLen - 1
  /\ UNCHANGED <<pathVars, mon, clock, tick, monitorVars>>

-----------------------------------------------------------------------------
(* monitor and send_mon_data *)

\* The wall clock goes on, or is set.
Clock ==
  /\ clock' \in (0..MaxClock) \ {clock}
  /\ UNCHANGED <<pathVars, mon, deltaLen, tick, monitorVars>>

Tick ==
  /\ ~tick /\ tick' = TRUE
  /\ UNCHANGED <<pathVars, mon, deltaLen, clock, monitorVars>>

\* Mutant: >= where the code has >.
NotBefore == clock >= last

Later == clock > last

TakeTick ==
  /\ monitor = "select" /\ tick
  /\ tick' = FALSE
  /\ IF Later THEN monitor' = "swap" /\ sec' = clock
              ELSE UNCHANGED <<monitor, sec>>
  /\ UNCHANGED <<pathVars, mon, deltaLen, clock, last, swapped, report, alive, left,
                 told, reports>>

\* Mutant: metrics_rcvd is read before metrics_send.
ReceivedFirst == <<"Rcv", "Send", "Conn">>

\* The arguments of send_mon_data, in the order of their evaluation.
Arguments == <<"Send", "Rcv", "Conn">>

\* Mutant: atomic.LoadInt32 where the code has SwapInt32.
Peek(f) == report' = [report EXCEPT ![f] = mon[f]] /\ UNCHANGED mon

SwapOut(f) ==
  /\ report' = [report EXCEPT ![f] = mon[f]]
  /\ mon' = [mon EXCEPT ![f] = 0]

Swap ==
  /\ monitor = "swap" /\ swapped < 3
  /\ SwapOut(Arguments[swapped + 1])
  /\ swapped' = swapped + 1
  /\ UNCHANGED <<pathVars, deltaLen, clock, tick, last, monitor, sec, alive, left,
                 told, reports>>

LoadAlive ==
  /\ monitor = "swap" /\ swapped = 3
  /\ alive' = con_alive
  /\ monitor' = "announce" /\ left' = OwnMetrics
  /\ UNCHANGED <<pathVars, mon, deltaLen, clock, tick, last, swapped, report, sec,
                 told, reports>>

\* boss.DeltaChan <- metric_name, for one metric of the map after the other.
AnnounceOwn ==
  /\ monitor = "announce" /\ HasRoom
  /\ deltaLen' = deltaLen + 1
  /\ left' = left - 1
  /\ monitor' = IF left = 1 THEN "post" ELSE "announce"
  /\ UNCHANGED <<pathVars, mon, clock, tick, last, swapped, report, sec, alive,
                 told, reports>>

\* send_data ends, the report stored or given up; monitor does not know.
Post ==
  /\ monitor = "post"
  /\ told' = [f \in Counters |-> told[f] + report[f]]
  /\ reports' = Append(reports, sec)
  /\ last' = sec
  /\ monitor' = "select" /\ swapped' = 0 /\ report' = Zero /\ sec' = 0 /\ alive' = 0
  /\ UNCHANGED <<pathVars, mon, deltaLen, clock, tick, left>>

Next ==
  \/ \E c \in Conns : Accept(c) \/ Line(c) \/ Announce(c) \/ Leave(c)
  \/ CountConn
  \/ CountAlive
  \/ CountSent
  \/ BogusDelta
  \/ Clock
  \/ Tick
  \/ TakeTick
  \/ Swap
  \/ LoadAlive
  \/ AnnounceOwn
  \/ Post

Spec == Init /\ [][Next]_vars

\* monitor runs when it can, its place in the queue of DeltaChan's senders is
\* kept (SF), the consumer goes on, and send_data's attempts have deadlines.
Fairness ==
  /\ WF_vars(Swap) /\ WF_vars(LoadAlive) /\ SF_vars(AnnounceOwn) /\ WF_vars(Post)
  /\ WF_vars(BogusDelta)

FairSpec == Spec /\ Fairness

-----------------------------------------------------------------------------
(* Properties *)

TypeOK ==
  /\ handler \in [Conns -> {"none", "scan", "announce", "gone"}]
  /\ main \in {"accept", "conn", "alive"}
  /\ mon \in [Counters -> Nat] /\ report \in [Counters -> Nat]
  /\ told \in [Counters -> Nat]
  /\ con_alive \in Int /\ alive \in Int
  /\ due \in Nat /\ lines \in 0..MaxLines /\ sent \in Nat
  /\ deltaLen \in 0..DeltaLimit
  /\ clock \in 0..MaxClock /\ last \in 0..MaxClock /\ sec \in 0..MaxClock
  /\ tick \in BOOLEAN
  /\ monitor \in {"select", "swap", "announce", "post"}
  /\ swapped \in 0..3 /\ left \in 0..OwnMetrics
  /\ reports \in Seq(0..MaxClock)

\* The handlers whose connection was accepted, and those not yet counted.
Accepted == {c \in Conns : handler[c] # "none"}
Alive == {c \in Conns : handler[c] \in {"scan", "announce"}}

InAll(f) == mon[f] + report[f] + told[f]

\* Nothing is counted twice or dropped between two reports: every line, every
\* copy and every connection is in the counter, in the report being made or in
\* one report made before.
Conservation ==
  /\ InAll("Rcv") = lines
  /\ InAll("Send") = sent
  /\ InAll("Conn") = Cardinality(Accepted) - (IF main = "conn" THEN 1 ELSE 0)

\* Since metrics_send is swapped out before metrics_rcvd, the reports together
\* never show copies of lines that they do not show as received.
SendNotAhead == told["Send"] <= Rf * told["Rcv"]

\* con_alive is the number of handlers that run, less the one that was started
\* and is not counted yet; a report shows -1 connections at worst.
AliveAgrees ==
  /\ con_alive = Cardinality(Alive) - (IF main = "accept" THEN 0 ELSE 1)
  /\ alive >= -1

\* However ticks bunch up or the clock is set back no two reports carry the
\* same second: they would be two values of one metric at one time.
ReportsInOrder ==
  \A i, j \in DOMAIN reports : i < j => reports[i] < reports[j]

\* A report is always finished, also when connections fill DeltaChan as fast
\* as its consumer empties it.
MonitorReturns == monitor # "select" ~> monitor = "select"
=============================================================================
