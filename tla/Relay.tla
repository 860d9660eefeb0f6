------------------------------- MODULE Relay -------------------------------
(***************************************************************************)
(* The data path of src/src/cacher/cacher.go: one goroutine per client     *)
(* connection parses lines and fans each one out to the storages the hash  *)
(* ring names; one goroutine per sender batches what arrives on its Pipe   *)
(* and posts the batch to its storage every five seconds, at most three    *)
(* times.  A line that was fanned out is then announced on DeltaChan.      *)
(***************************************************************************)
EXTENDS Naturals, Sequences, FiniteSets

CONSTANTS
  Conns,       \* client connections, one process_connection goroutine each
  Senders,     \* mylib.Sender instances, one sender goroutine each
  Hosts,       \* storage hosts
  HostOf,      \* [Senders -> Hosts], the field Host of a Sender
  Metrics,     \* metric names
  Replicas,    \* [Metrics -> Seq(Hosts)], what Ring.GetN(metric, Rf) answers
  ChanLimit,   \* capacity of a Pipe; 0, the default config, is unbuffered
  DeltaLimit,  \* capacity of DeltaChan (5000000 in the code)
  MaxRetry,    \* attempts at a batch (3 in the code)
  MaxLines     \* bound: lines one connection delivers

ASSUME HostsAssumption ==
  /\ Hosts # {}
  /\ HostOf \in [Senders -> Hosts]
  /\ \A h \in Hosts : \E s \in Senders : HostOf[s] = h

\* Established by module Consistent for Rf >= 1: GetN answers at least one
\* host and no host twice.
ASSUME ReplicasAssumption ==
  /\ Metrics # {}
  /\ Replicas \in [Metrics -> Seq(Hosts)]
  /\ \A m \in Metrics :
       /\ Replicas[m] # << >>
       /\ \A i, j \in DOMAIN Replicas[m] :
            Replicas[m][i] = Replicas[m][j] => i = j

ASSUME LimitsAssumption ==
  /\ ChanLimit \in Nat
  /\ DeltaLimit \in Nat \ {0}
  /\ MaxRetry \in Nat \ {0}
  /\ MaxLines \in Nat

\* A line is named by its connection, its position there and its metric; value
\* and timestamps are carried along and never looked at.
Line == [conn : Conns, num : 1..MaxLines, metric : Metrics]

VARIABLES
  conn,       \* the connection goroutines: program counter, lines read, the
              \* metric in hand and the senders still to be given its line
  deltaChan,  \* boss.DeltaChan
  pipe,       \* Sender.Pipe
  buf,        \* data_buf, in the order of arrival
  send,       \* the local counter send of sender()
  tick,       \* a tick is waiting in the ticker channel (capacity one)
  phase,      \* where sender() is: in its select or in a step of send_data
  retry,      \* failed attempts at the batch in hand
  mon         \* mylib.Mmon, lines received and copies sent in all: what monitor
              \* swaps out of it now and then is module Monitor's

\* History: what became of every line, in the order of settlement, with the
\* number of times it was inserted and of attempts that failed.
VARIABLES
  hits,       \* attempts at the batch in hand that the storage executed
  settled

connVars   == <<conn, deltaChan>>
senderVars == <<buf, send, phase, retry, hits, settled>>
vars == <<conn, deltaChan, pipe, buf, send, tick, phase, retry, mon, hits, settled>>

ConnState == [pc : {"read", "send", "delta", "closed"}, num : 0..MaxLines,
              metric : Metrics, todo : Seq(Senders)]

Outcome == [line : Line, copies : 0..MaxRetry, fails : 0..MaxRetry]

\* The senders a line may be given to, one for each host.  Both singleSender
\* and getSender draw at random; the draw depends on nothing else, so that the
\* draws for all hosts of a line are made together.
Single == Cardinality({HostOf[s] : s \in Senders}) = 1

Targets(m) == IF Single THEN <<CHOOSE h \in Hosts : TRUE>> ELSE Replicas[m]

Draws(m) ==
  {q \in [DOMAIN Targets(m) -> Senders] :
     \A i \in DOMAIN q : HostOf[q[i]] = Targets(m)[i]}

CurrentLine(c) ==
  [conn |-> c, num |-> conn[c].num, metric |-> conn[c].metric]

Init ==
  /\ conn = [c \in Conns |-> [pc |-> "read", num |-> 0,
                              metric |-> CHOOSE m \in Metrics : TRUE,
                              todo |-> << >>]]
  /\ deltaChan = << >>
  /\ pipe  = [s \in Senders |-> << >>]
  /\ buf   = [s \in Senders |-> << >>]
  /\ send  = [s \in Senders |-> 0]
  /\ tick  = [s \in Senders |-> FALSE]
  /\ phase = [s \in Senders |-> "select"]
  /\ retry = [s \in Senders |-> 0]
  /\ mon   = [Rcv |-> 0, Send |-> 0]
  /\ hits  = [s \in Senders |-> 0]
  /\ settled = [s \in Senders |-> << >>]

-----------------------------------------------------------------------------
(* process_connection and parse *)

\* A well-formed line arrives.
Read(c, m) ==
  /\ conn[c].pc = "read"
  /\ conn[c].num < MaxLines
  /\ \E q \in Draws(m) :
       conn' = [conn EXCEPT ![c] = [pc |-> "send", num |-> @.num + 1,
                                    metric |-> m, todo |-> q]]
  /\ mon' = [mon EXCEPT !.Rcv = @ + 1]
  /\ UNCHANGED <<deltaChan, pipe, tick, senderVars>>

\* A line arrives that one of parse's checks turns away.
Reject(c) ==
  /\ conn[c].pc = "read"
  /\ conn[c].num < MaxLines
  /\ conn' = [conn EXCEPT ![c].num = @ + 1]
  /\ mon' = [mon EXCEPT !.Rcv = @ + 1]
  /\ UNCHANGED <<deltaChan, pipe, tick, senderVars>>

\* EOF, the 60 s read deadline or a socket error ends the scan loop.
Close(c) ==
  /\ conn[c].pc = "read"
  /\ conn' = [conn EXCEPT ![c].pc = "closed"]
  /\ UNCHANGED <<deltaChan, pipe, tick, mon, senderVars>>

\* Mutant: the loop over the replicas is left after the first one.
AfterFirstReplica(c) ==
  conn' = [conn EXCEPT ![c].todo = Tail(@), ![c].pc = "delta"]

\* On to the next replica, or to the announcement after the last one.
AfterReplica(c) ==
  conn' = [conn EXCEPT ![c].todo = Tail(@),
                       ![c].pc = IF Len(conn[c].todo) = 1 THEN "delta" ELSE "send"]

\* Mutant: the Pipe takes one line more than it was made for.
HasRoomForOneMore(w) == Len(pipe[w]) <= ChanLimit

HasRoom(w) == Len(pipe[w]) < ChanLimit

\* Mutant: data_buf is appended to while send_data is posting it.
ReceivingAlways(w) == TRUE

Receiving(w) == phase[w] = "select"

\* w.Pipe <- line, for the next sender drawn; blocks while the Pipe is full.
Enqueue(c) ==
  LET w == Head(conn[c].todo) IN
  /\ conn[c].pc = "send"
  /\ HasRoom(w)
  /\ pipe' = [pipe EXCEPT ![w] = Append(@, CurrentLine(c))]
  /\ AfterReplica(c)
  /\ UNCHANGED <<deltaChan, tick, mon, senderVars>>

\* The same on an unbuffered Pipe: the line passes when sender() is receiving.
HandOver(c) ==
  LET w == Head(conn[c].todo) IN
  /\ conn[c].pc = "send"
  /\ ChanLimit = 0
  /\ Receiving(w)
  /\ buf'  = [buf EXCEPT ![w] = Append(@, CurrentLine(c))]
  /\ send' = [send EXCEPT ![w] = @ + 1]
  /\ AfterReplica(c)
  /\ UNCHANGED <<deltaChan, pipe, tick, mon, phase, retry, hits, settled>>

\* boss.DeltaChan <- metric; the line stands for its metric.
Announce(c) ==
  /\ conn[c].pc = "delta"
  /\ Len(deltaChan) < DeltaLimit
  /\ deltaChan' = Append(deltaChan, CurrentLine(c))
  /\ conn' = [conn EXCEPT ![c].pc = "read"]
  /\ UNCHANGED <<pipe, tick, mon, senderVars>>

\* Mutant: with deltas disabled nobody is started on DeltaChan.
NoConsumer == FALSE /\ UNCHANGED vars

\* The consumer of DeltaChan takes one metric.
BogusDelta ==
  /\ deltaChan # << >>
  /\ deltaChan' = Tail(deltaChan)
  /\ UNCHANGED <<conn, pipe, tick, mon, senderVars>>

-----------------------------------------------------------------------------
(* sender and send_data *)

\* The 5 s ticker fires; a tick nobody has taken yet is not doubled.
Tick(s) ==
  /\ ~tick[s]
  /\ tick' = [tick EXCEPT ![s] = TRUE]
  /\ UNCHANGED <<connVars, pipe, mon, senderVars>>

Receive(s) ==
  /\ Receiving(s)
  /\ pipe[s] # << >>
  /\ buf'  = [buf EXCEPT ![s] = Append(@, Head(pipe[s]))]
  /\ pipe' = [pipe EXCEPT ![s] = Tail(@)]
  /\ send' = [send EXCEPT ![s] = @ + 1]
  /\ UNCHANGED <<connVars, tick, mon, phase, retry, hits, settled>>

\* Mutant: len(data_buf) > 1.
AtMostOneLine(s) == Len(buf[s]) <= 1

NothingToSend(s) == buf[s] = << >>

TakeTick(s) ==
  /\ Receiving(s)
  /\ tick[s]
  /\ tick' = [tick EXCEPT ![s] = FALSE]
  /\ phase' = [phase EXCEPT ![s] = IF NothingToSend(s) THEN "select" ELSE "post"]
  /\ UNCHANGED <<connVars, pipe, mon, buf, send, retry, hits, settled>>

\* The storage executed the INSERT and its answer, 200, was read in full.
PostOk(s) ==
  /\ phase[s] = "post"
  /\ hits' = [hits EXCEPT ![s] = @ + 1]
  /\ phase' = [phase EXCEPT ![s] = "done"]
  /\ UNCHANGED <<connVars, pipe, tick, mon, buf, send, retry, settled>>

\* No connection, a lost answer, a broken body or a status other than 200.  The
\* storage may have executed the INSERT all the same.
PostFail(s) ==
  /\ phase[s] = "post"
  /\ \E executed \in {0, 1} : hits' = [hits EXCEPT ![s] = @ + executed]
  /\ retry' = [retry EXCEPT ![s] = @ + 1]
  /\ phase' = [phase EXCEPT ![s] = "sleep"]
  /\ UNCHANGED <<connVars, pipe, tick, mon, buf, send, settled>>

\* Mutant: break where the code continues.
GiveUp(s) == "done"

AfterFailure(s) == IF retry[s] < MaxRetry THEN "post" ELSE "done"

\* The 1 s sleep after a failure ends and the for loop tests retry < 3.
Wake(s) ==
  /\ phase[s] = "sleep"
  /\ phase' = [phase EXCEPT ![s] = AfterFailure(s)]
  /\ UNCHANGED <<connVars, pipe, tick, mon, buf, send, retry, hits, settled>>

\* Mutant: data_buf is not reset.
KeepBuffer(s) ==
  /\ mon' = [mon EXCEPT !.Send = @ + send[s]]
  /\ send' = [send EXCEPT ![s] = 0]
  /\ UNCHANGED buf

\* Mutant: send is not reset.
KeepCount(s) ==
  /\ mon' = [mon EXCEPT !.Send = @ + send[s]]
  /\ buf' = [buf EXCEPT ![s] = << >>]
  /\ UNCHANGED send

CountAndReset(s) ==
  /\ mon' = [mon EXCEPT !.Send = @ + send[s]]
  /\ send' = [send EXCEPT ![s] = 0]
  /\ buf' = [buf EXCEPT ![s] = << >>]

\* send_data has returned, nothing tells sender() how it went.
Settle(s) ==
  /\ phase[s] = "done"
  /\ CountAndReset(s)
  /\ settled' = [settled EXCEPT ![s] = @ \o
       [i \in DOMAIN buf[s] |->
          [line |-> buf[s][i], copies |-> hits[s], fails |-> retry[s]]]]
  /\ retry' = [retry EXCEPT ![s] = 0]
  /\ hits' = [hits EXCEPT ![s] = 0]
  /\ phase' = [phase EXCEPT ![s] = "select"]
  /\ UNCHANGED <<connVars, pipe, tick>>

-----------------------------------------------------------------------------
ConnStep(c) ==
  \/ \E m \in Metrics : Read(c, m)
  \/ Reject(c)
  \/ Close(c)
  \/ Enqueue(c)
  \/ HandOver(c)
  \/ Announce(c)

SenderStep(s) ==
  \/ Tick(s)
  \/ Receive(s)
  \/ TakeTick(s)
  \/ PostOk(s)
  \/ PostFail(s)
  \/ Wake(s)
  \/ Settle(s)

Next ==
  \/ \E c \in Conns : ConnStep(c)
  \/ \E s \in Senders : SenderStep(s)
  \/ BogusDelta

Spec == Init /\ [][Next]_vars

\* A goroutine that can run does; a blocked channel operation is queued first
\* come, first served, so that a handler whose operation is enabled again and
\* again gets it through; the ticker fires; an HTTP attempt ends, for its
\* connection carries a 60 s deadline (mylib.DialTimeout).
Fairness ==
  /\ \A c \in Conns : SF_vars(Enqueue(c) \/ HandOver(c) \/ Announce(c))
  /\ \A s \in Senders :
       /\ WF_vars(Tick(s)) /\ WF_vars(Receive(s)) /\ WF_vars(TakeTick(s))
       /\ WF_vars(PostOk(s) \/ PostFail(s) \/ Wake(s) \/ Settle(s))
  /\ WF_vars(BogusDelta)

FairSpec == Spec /\ Fairness

-----------------------------------------------------------------------------
(* Properties *)

TypeOK ==
  /\ conn \in [Conns -> ConnState]
  /\ deltaChan \in Seq(Line) /\ Len(deltaChan) <= DeltaLimit
  /\ pipe \in [Senders -> Seq(Line)] /\ \A s \in Senders : Len(pipe[s]) <= ChanLimit
  /\ buf \in [Senders -> Seq(Line)]
  /\ send \in [Senders -> Nat]
  /\ tick \in [Senders -> BOOLEAN]
  /\ phase \in [Senders -> {"select", "post", "sleep", "done"}]
  /\ retry \in [Senders -> 0..MaxRetry]
  /\ mon \in [Rcv : Nat, Send : Nat]
  /\ hits \in [Senders -> 0..MaxRetry]
  /\ settled \in [Senders -> Seq(Outcome)]

\* Everything sender s was ever given, oldest first.
LinesOf(q) == [i \in DOMAIN q |-> q[i].line]

Taken(s) == LinesOf(settled[s]) \o buf[s] \o pipe[s]

Items(q) == {q[i] : i \in DOMAIN q}

\* Line l was given to exactly one sender of each host in hosts, once, and to
\* no sender of another host.
GivenTo(l, hosts) ==
  /\ {HostOf[s] : s \in {t \in Senders : l \in Items(Taken(t))}} = hosts
  /\ \A s, t \in Senders : \A i \in DOMAIN Taken(s), j \in DOMAIN Taken(t) :
       HostOf[s] = HostOf[t] /\ Taken(s)[i] = l /\ Taken(t)[j] = l => s = t /\ i = j

TargetHosts(m) == Items(Targets(m))
HostsToDo(c)   == {HostOf[s] : s \in Items(conn[c].todo)}

\* Fan-out, parse's loop over the ring's answer: however connections and full
\* pipes interleave, the line in hand has gone once to each replica already
\* served and to no other, and a metric is announced only when every replica
\* has its line.
FanOut ==
  /\ \A c \in Conns : conn[c].pc \in {"send", "delta"} =>
       GivenTo(CurrentLine(c), TargetHosts(conn[c].metric) \ HostsToDo(c))
  /\ \A i \in DOMAIN deltaChan :
       GivenTo(deltaChan[i], TargetHosts(deltaChan[i].metric))

\* The lines of one connection keep their order through a sender, across its
\* Pipe, its buffer and its batches, and none is taken twice.
PerConnectionOrder ==
  \A s \in Senders : \A i, j \in DOMAIN Taken(s) :
    i < j /\ Taken(s)[i].conn = Taken(s)[j].conn
      => Taken(s)[i].num < Taken(s)[j].num

\* send_data's retry loop: a line is lost only when three attempts failed, and
\* a storage holds it more often than once only when an attempt it executed
\* was taken for a failure.
OutcomeExplained ==
  \A s \in Senders : \A i \in DOMAIN settled[s] :
    LET o == settled[s][i] IN
    /\ o.copies = 0 => o.fails = MaxRetry
    /\ o.copies <= IF o.fails < MaxRetry THEN o.fails + 1 ELSE MaxRetry

\* Every line of every connection, and every entry of every sender's history.
LinesRead    == UNION {{c} \X (1..conn[c].num) : c \in Conns}
LinesSettled == UNION {{s} \X DOMAIN settled[s] : s \in Senders}

\* The monitor's counters: every line read is counted once; a line counts as
\* sent when it is settled, once, whether it was stored or lost.
CountersAgree ==
  /\ mon.Rcv = Cardinality(LinesRead)
  /\ mon.Send = Cardinality(LinesSettled)
  /\ \A s \in Senders : send[s] = Len(buf[s])

\* A batch does not change between its first post and the moment send_data
\* returns: no line joins it that was not posted.
BatchFrozen ==
  [][\A s \in Senders :
       phase[s] # "select" /\ phase'[s] # "select" => buf'[s] = buf[s]]_vars

\* The relay implements Delivery: what pipes and buffers hold is owed, what is
\* settled is stored or lost for good.
Debts(lines, h) == {[line |-> l, host |-> h] : l \in lines}
OwedBy(s)   == Debts(Items(buf[s]) \cup Items(pipe[s]), HostOf[s])
StoredBy(s) == Debts({o.line : o \in {x \in Items(settled[s]) : x.copies > 0}}, HostOf[s])
LostBy(s)   == Debts({o.line : o \in {x \in Items(settled[s]) : x.copies = 0}}, HostOf[s])

D == INSTANCE Delivery WITH
       Lines  <- Line,
       owed   <- UNION {OwedBy(s) : s \in Senders},
       stored <- UNION {StoredBy(s) : s \in Senders},
       lost   <- UNION {LostBy(s) : s \in Senders}

ImplementsDelivery == D!Spec

\* Where line l is on its way through sender s, in the words of Batching.
Watched(s, l) ==
  IF l \in Items(LinesOf(settled[s])) THEN "settled"
  ELSE IF l \in Items(buf[s]) \cup Items(pipe[s]) THEN "given"
  ELSE IF /\ conn[l.conn].pc = "send" /\ CurrentLine(l.conn) = l
          /\ s \in Items(conn[l.conn].todo)
       THEN "offered" ELSE "away"

Class(q, l) == [i \in DOMAIN q |-> IF q[i] = l THEN "mine" ELSE "other"]

Batch(s, l) == INSTANCE Batching WITH
  Limits <- {ChanLimit}, limit <- ChanLimit,
  mine <- Watched(s, l), pipe <- Class(pipe[s], l), buf <- Items(Class(buf[s], l)),
  tick <- tick[s], phase <- phase[s], retry <- retry[s]

\* Whichever line is watched, what a sender and the connections do with it is what
\* Batching, where nothing bounds the load, says they do: the sender's part, select
\* and retries included, is the same in both.
ImplementsBatching ==
  /\ \A s \in Senders, l \in Line : Batch(s, l)!Init
  /\ [][\A s \in Senders, l \in Line : Batch(s, l)!Turn]_vars

\* No storage outage, full pipe, full DeltaChan or other handler stops a
\* connection for good: parse returns, again and again.
ParseReturns == \A c \in Conns : []<>(conn[c].pc \notin {"send", "delta"})
=============================================================================
