---------------------------- MODULE RelayProofs ----------------------------
(***************************************************************************)
(* Theorems about the data path, for every number of connections, senders, *)
(* storages and lines and every capacity: type correctness, what a settled *)
(* line's outcome can be, that the counters and the lines agree, the order *)
(* of lines, their fan-out, and that the relay implements Delivery.        *)
(***************************************************************************)
EXTENDS Relay, TLAPS, SequenceTheorems, FunctionTheorems, FiniteSetTheorems

-----------------------------------------------------------------------------
(* The inductive invariant: what TypeOK and OutcomeExplained lean on. *)

\* parse is inside its loop only while a sender is still to be served, and
\* only for a line that was read.
ConnInv ==
  \A c \in Conns :
    /\ conn[c].pc = "send" => conn[c].todo # << >>
    /\ conn[c].pc \in {"send", "delta"} => conn[c].num \in 1..MaxLines

\* The retry loop: how many of the failed attempts were executed all the same.
RetryInv ==
  \A s \in Senders :
    /\ phase[s] = "select" => hits[s] = 0 /\ retry[s] = 0
    /\ phase[s] = "post"   => hits[s] <= retry[s] /\ retry[s] < MaxRetry
    /\ phase[s] = "sleep"  => hits[s] <= retry[s]
    /\ phase[s] = "done"   =>
         /\ hits[s] = 0 => retry[s] = MaxRetry
         /\ hits[s] <= IF retry[s] < MaxRetry THEN retry[s] + 1 ELSE MaxRetry

IInv == TypeOK /\ ConnInv /\ RetryInv /\ OutcomeExplained

-----------------------------------------------------------------------------
\* The two ends of a sequence that is not empty.
LEMMA SeqEnds ==
  ASSUME NEW S, NEW q \in Seq(S), q # << >>
  PROVE  /\ Head(q) \in S /\ Head(q) = q[1]
         /\ Tail(q) \in Seq(S) /\ Len(Tail(q)) = Len(q) - 1
         /\ Len(q) \in Nat \ {0}
         /\ Len(q) # 1 => Tail(q) # << >>
         /\ \A i \in 1..(Len(q) - 1) : Tail(q)[i] = q[i + 1]
<1>1. Len(q) \in Nat \ {0}  OBVIOUS
<1>2. Tail(q) \in Seq(S) /\ Len(Tail(q)) = Len(q) - 1  BY <1>1
<1>3. Head(q) = q[1] /\ q[1] \in S  BY <1>1
<1>4. \A i \in 1..(Len(q) - 1) : Tail(q)[i] = q[i + 1]  BY <1>1
<1>5. Len(q) # 1 => Tail(q) # << >>
  <2>1. Len(<< >>) = 0  OBVIOUS
  <2>2. Len(q) # 1 => Len(Tail(q)) # 0  BY <1>1, <1>2
  <2> QED  BY <2>1, <2>2
<1> QED  BY <1>1, <1>2, <1>3, <1>4, <1>5

\* A draw names one sender for every target, in the order of the targets.
LEMMA DrawsType ==
  ASSUME NEW m \in Metrics, NEW q \in Draws(m)
  PROVE  q \in Seq(Senders) /\ q # << >>
<1>1. Targets(m) \in Seq(Hosts) /\ Targets(m) # << >>
  <2>1. CASE Single
    <3>1. (CHOOSE h \in Hosts : TRUE) \in Hosts  BY HostsAssumption
    <3> QED  BY <2>1, <3>1 DEF Targets
  <2>2. CASE ~Single
    BY <2>2, ReplicasAssumption DEF Targets
  <2> QED  BY <2>1, <2>2
<1>2. DOMAIN Targets(m) = 1..Len(Targets(m)) /\ Len(Targets(m)) \in Nat \ {0}
  BY <1>1
<1>3. q \in [1..Len(Targets(m)) -> Senders]  BY <1>2 DEF Draws
<1> QED  BY <1>2, <1>3

LEMMA InitIInv == Init => IInv
<1> SUFFICES ASSUME Init PROVE IInv  OBVIOUS
<1> USE LimitsAssumption
<1>1. (CHOOSE m \in Metrics : TRUE) \in Metrics  BY ReplicasAssumption
<1>2. conn \in [Conns -> ConnState]
  <2>1. [pc |-> "read", num |-> 0, metric |-> CHOOSE m \in Metrics : TRUE,
         todo |-> << >>] \in ConnState
    BY <1>1 DEF ConnState
  <2> QED  BY <2>1 DEF Init
<1>3. TypeOK  BY <1>2 DEF Init, TypeOK
<1>4. ConnInv /\ RetryInv /\ OutcomeExplained
  BY DEF Init, ConnInv, RetryInv, OutcomeExplained
<1> QED  BY <1>3, <1>4 DEF IInv

LEMMA CurrentLineType ==
  ASSUME IInv, NEW c \in Conns, conn[c].pc \in {"send", "delta"}
  PROVE  CurrentLine(c) \in Line
<1>1. conn[c] \in ConnState /\ conn[c].num \in 1..MaxLines
  BY DEF IInv, TypeOK, ConnInv
<1> QED  BY <1>1 DEF ConnState, CurrentLine, Line

-----------------------------------------------------------------------------
(* The steps of a connection *)

\* A connection's own step: what it leaves of TypeOK when the rest is typed.
LEMMA ConnUpdate ==
  ASSUME TypeOK, ConnInv, NEW c \in Conns, NEW r \in ConnState,
         r.pc = "send" => r.todo # << >>,
         r.pc \in {"send", "delta"} => r.num \in 1..MaxLines,
         conn' = [conn EXCEPT ![c] = r]
  PROVE  conn' \in [Conns -> ConnState] /\ ConnInv'
<1>1. conn' \in [Conns -> ConnState]  BY DEF TypeOK
<1>2. ASSUME NEW d \in Conns
      PROVE  conn'[d] = IF d = c THEN r ELSE conn[d]
  BY DEF TypeOK
<1>3. ConnInv'  BY <1>2 DEF ConnInv
<1> QED  BY <1>1, <1>3

LEMMA ReadIInv ==
  ASSUME IInv, NEW c \in Conns, NEW m \in Metrics, Read(c, m)
  PROVE  IInv'
<1> USE LimitsAssumption DEF IInv
<1>1. PICK q \in Draws(m) :
        conn' = [conn EXCEPT ![c] = [pc |-> "send", num |-> @.num + 1,
                                     metric |-> m, todo |-> q]]
  BY DEF Read
<1> DEFINE r == [pc |-> "send", num |-> conn[c].num + 1, metric |-> m, todo |-> q]
<1>2. q \in Seq(Senders) /\ q # << >>  BY DrawsType
<1>3. conn[c] \in ConnState  BY DEF TypeOK
<1>4. conn[c].num + 1 \in 1..MaxLines  BY <1>3 DEF Read, ConnState
<1>5. r \in ConnState  BY <1>2, <1>4 DEF ConnState
<1>6. conn' \in [Conns -> ConnState] /\ ConnInv'
  BY <1>1, <1>2, <1>4, <1>5, ConnUpdate
<1>7. mon' \in [Rcv : Nat, Send : Nat]
  <2>1. mon \in [Rcv : Nat, Send : Nat]  BY DEF TypeOK
  <2>2. mon' = [mon EXCEPT !.Rcv = @ + 1]  BY DEF Read
  <2> QED  BY <2>1, <2>2
<1>8. TypeOK'  BY <1>6, <1>7 DEF Read, TypeOK, senderVars
<1>9. RetryInv' /\ OutcomeExplained'
  BY DEF Read, RetryInv, OutcomeExplained, senderVars
<1> QED  BY <1>6, <1>8, <1>9

LEMMA RejectIInv ==
  ASSUME IInv, NEW c \in Conns, Reject(c)
  PROVE  IInv'
<1> USE LimitsAssumption DEF IInv
<1> DEFINE r == [conn[c] EXCEPT !.num = @ + 1]
<1>1. conn[c] \in ConnState  BY DEF TypeOK
<1>2. r \in ConnState /\ r.pc = "read"  BY <1>1 DEF Reject, ConnState
<1>3. conn' = [conn EXCEPT ![c] = r]  BY DEF Reject
<1>4. conn' \in [Conns -> ConnState] /\ ConnInv'  BY <1>2, <1>3, ConnUpdate
<1>5. mon' \in [Rcv : Nat, Send : Nat]
  <2>1. mon \in [Rcv : Nat, Send : Nat]  BY DEF TypeOK
  <2>2. mon' = [mon EXCEPT !.Rcv = @ + 1]  BY DEF Reject
  <2> QED  BY <2>1, <2>2
<1>6. TypeOK'  BY <1>4, <1>5 DEF Reject, TypeOK, senderVars
<1>7. RetryInv' /\ OutcomeExplained'
  BY DEF Reject, RetryInv, OutcomeExplained, senderVars
<1> QED  BY <1>4, <1>6, <1>7

LEMMA CloseIInv ==
  ASSUME IInv, NEW c \in Conns, Close(c)
  PROVE  IInv'
<1> USE LimitsAssumption DEF IInv
<1> DEFINE r == [conn[c] EXCEPT !.pc = "closed"]
<1>1. conn[c] \in ConnState  BY DEF TypeOK
<1>2. r \in ConnState /\ r.pc = "closed"  BY <1>1 DEF ConnState
<1>3. conn' = [conn EXCEPT ![c] = r]  BY DEF Close
<1>4. conn' \in [Conns -> ConnState] /\ ConnInv'  BY <1>2, <1>3, ConnUpdate
<1>5. TypeOK'  BY <1>4 DEF Close, TypeOK, senderVars
<1>6. RetryInv' /\ OutcomeExplained'
  BY DEF Close, RetryInv, OutcomeExplained, senderVars
<1> QED  BY <1>4, <1>5, <1>6

\* The step on to the next replica.
LEMMA AfterReplicaConn ==
  ASSUME IInv, NEW c \in Conns, conn[c].pc = "send", AfterReplica(c)
  PROVE  /\ conn' \in [Conns -> ConnState] /\ ConnInv'
         /\ Head(conn[c].todo) \in Senders
<1> USE DEF IInv
<1> DEFINE t == conn[c].todo
           r == [conn[c] EXCEPT !.todo = Tail(t),
                                !.pc = IF Len(t) = 1 THEN "delta" ELSE "send"]
<1>1. conn[c] \in ConnState  BY DEF TypeOK
<1>2. t \in Seq(Senders) /\ t # << >>  BY <1>1 DEF ConnState, ConnInv
<1>3. Tail(t) \in Seq(Senders) /\ Head(t) \in Senders
      /\ (Len(t) # 1 => Tail(t) # << >>)
  BY <1>2, SeqEnds
<1>4. r \in ConnState  BY <1>1, <1>3 DEF ConnState
<1>5. r.num \in 1..MaxLines /\ (r.pc = "send" => r.todo # << >>)
  BY <1>1, <1>3 DEF ConnInv, ConnState
<1>6. conn' = [conn EXCEPT ![c] = r]  BY DEF AfterReplica
<1>7. conn' \in [Conns -> ConnState] /\ ConnInv'
  BY <1>4, <1>5, <1>6, ConnUpdate
<1> QED  BY <1>3, <1>7

LEMMA EnqueueIInv ==
  ASSUME IInv, NEW c \in Conns, Enqueue(c)
  PROVE  IInv'
<1> USE LimitsAssumption DEF IInv
<1> DEFINE w == Head(conn[c].todo)
<1>1. conn' \in [Conns -> ConnState] /\ ConnInv' /\ w \in Senders
  BY AfterReplicaConn DEF Enqueue
<1>2. CurrentLine(c) \in Line  BY CurrentLineType DEF Enqueue
<1>3. /\ pipe' \in [Senders -> Seq(Line)]
      /\ \A s \in Senders : Len(pipe'[s]) <= ChanLimit
  <2> HIDE DEF w
  <2>1. pipe' = [pipe EXCEPT ![w] = Append(@, CurrentLine(c))] /\ HasRoom(w)
    BY DEF Enqueue, w
  <2> QED  BY <1>1, <1>2, <2>1 DEF TypeOK, HasRoom
<1>4. TypeOK'  BY <1>1, <1>3 DEF Enqueue, TypeOK, senderVars
<1>5. RetryInv' /\ OutcomeExplained'
  BY DEF Enqueue, RetryInv, OutcomeExplained, senderVars
<1> QED  BY <1>1, <1>4, <1>5

LEMMA HandOverIInv ==
  ASSUME IInv, NEW c \in Conns, HandOver(c)
  PROVE  IInv'
<1> USE LimitsAssumption DEF IInv
<1> DEFINE w == Head(conn[c].todo)
<1>1. conn' \in [Conns -> ConnState] /\ ConnInv' /\ w \in Senders
  BY AfterReplicaConn DEF HandOver
<1>2. CurrentLine(c) \in Line  BY CurrentLineType DEF HandOver
<1>3. buf' \in [Senders -> Seq(Line)] /\ send' \in [Senders -> Nat]
  <2> HIDE DEF w
  <2>1. /\ buf'  = [buf EXCEPT ![w] = Append(@, CurrentLine(c))]
        /\ send' = [send EXCEPT ![w] = @ + 1]
    BY DEF HandOver, w
  <2> QED  BY <1>1, <1>2, <2>1, SMTT(20) DEF TypeOK
<1>4. TypeOK'  BY <1>1, <1>3 DEF HandOver, TypeOK
<1>5. RetryInv' /\ OutcomeExplained'
  BY DEF HandOver, RetryInv, OutcomeExplained
<1> QED  BY <1>1, <1>4, <1>5

LEMMA AnnounceIInv ==
  ASSUME IInv, NEW c \in Conns, Announce(c)
  PROVE  IInv'
<1> USE LimitsAssumption DEF IInv
<1> DEFINE r == [conn[c] EXCEPT !.pc = "read"]
<1>1. conn[c] \in ConnState  BY DEF TypeOK
<1>2. r \in ConnState /\ r.pc = "read"  BY <1>1 DEF ConnState
<1>3. conn' = [conn EXCEPT ![c] = r]  BY DEF Announce
<1>4. conn' \in [Conns -> ConnState] /\ ConnInv'  BY <1>2, <1>3, ConnUpdate
<1>5. CurrentLine(c) \in Line  BY CurrentLineType DEF Announce
<1>6. deltaChan' \in Seq(Line) /\ Len(deltaChan') <= DeltaLimit
  BY <1>5 DEF Announce, TypeOK
<1>7. TypeOK'  BY <1>4, <1>6 DEF Announce, TypeOK, senderVars
<1>8. RetryInv' /\ OutcomeExplained'
  BY DEF Announce, RetryInv, OutcomeExplained, senderVars
<1> QED  BY <1>4, <1>7, <1>8

LEMMA BogusDeltaIInv == IInv /\ BogusDelta => IInv'
<1> SUFFICES ASSUME IInv, BogusDelta PROVE IInv'  OBVIOUS
<1> USE LimitsAssumption DEF IInv
<1>1. deltaChan' \in Seq(Line) /\ Len(deltaChan') <= DeltaLimit
  BY DEF BogusDelta, TypeOK
<1>2. TypeOK'  BY <1>1 DEF BogusDelta, TypeOK, senderVars
<1>3. ConnInv' /\ RetryInv' /\ OutcomeExplained'
  BY DEF BogusDelta, ConnInv, RetryInv, OutcomeExplained, senderVars
<1> QED  BY <1>2, <1>3
-----------------------------------------------------------------------------
(* The steps of a sender: what a connection has is not theirs to change. *)

LEMMA TickIInv ==
  ASSUME IInv, NEW s \in Senders, Tick(s)
  PROVE  IInv'
<1> USE LimitsAssumption DEF IInv
<1>1. TypeOK'  BY DEF Tick, TypeOK, connVars, senderVars
<1>2. ConnInv' /\ RetryInv' /\ OutcomeExplained'
  BY DEF Tick, ConnInv, RetryInv, OutcomeExplained, connVars, senderVars
<1> QED  BY <1>1, <1>2

LEMMA ReceiveIInv ==
  ASSUME IInv, NEW s \in Senders, Receive(s)
  PROVE  IInv'
<1> USE LimitsAssumption DEF IInv
<1>1. pipe[s] \in Seq(Line) /\ pipe[s] # << >> /\ Len(pipe[s]) <= ChanLimit
  BY DEF Receive, TypeOK
<1>2. /\ Head(pipe[s]) \in Line
      /\ Tail(pipe[s]) \in Seq(Line)
      /\ Len(Tail(pipe[s])) <= ChanLimit
  BY <1>1, SeqEnds
<1>3. /\ buf' \in [Senders -> Seq(Line)]
      /\ send' \in [Senders -> Nat]
  <2>1. Append(buf[s], Head(pipe[s])) \in Seq(Line) /\ send[s] + 1 \in Nat
    BY <1>2 DEF TypeOK
  <2> QED  BY <2>1 DEF Receive, TypeOK
<1>4. /\ pipe' \in [Senders -> Seq(Line)]
      /\ \A r \in Senders : Len(pipe'[r]) <= ChanLimit
  BY <1>2 DEF Receive, TypeOK
<1>5. TypeOK'  BY <1>3, <1>4 DEF Receive, TypeOK, connVars
<1>6. ConnInv' /\ RetryInv' /\ OutcomeExplained'
  BY DEF Receive, ConnInv, RetryInv, OutcomeExplained, connVars
<1> QED  BY <1>5, <1>6

LEMMA TakeTickIInv ==
  ASSUME IInv, NEW s \in Senders, TakeTick(s)
  PROVE  IInv'
<1> USE LimitsAssumption DEF IInv
<1>1. TypeOK'  BY DEF TakeTick, TypeOK, connVars
<1>2. RetryInv'
  BY SMTT(20) DEF TakeTick, Receiving, RetryInv, TypeOK
<1>3. ConnInv' /\ OutcomeExplained'
  BY DEF TakeTick, ConnInv, OutcomeExplained, connVars
<1> QED  BY <1>1, <1>2, <1>3

LEMMA PostOkIInv ==
  ASSUME IInv, NEW s \in Senders, PostOk(s)
  PROVE  IInv'
<1> USE LimitsAssumption DEF IInv
<1>1. hits[s] + 1 \in 0..MaxRetry /\ hits[s] \in Nat
  BY DEF PostOk, TypeOK, RetryInv
<1>2. TypeOK'  BY <1>1 DEF PostOk, TypeOK, connVars
<1>3. RetryInv'
  BY <1>1, SMTT(20) DEF PostOk, RetryInv, TypeOK
<1>4. ConnInv' /\ OutcomeExplained'
  BY DEF PostOk, ConnInv, OutcomeExplained, connVars
<1> QED  BY <1>2, <1>3, <1>4

LEMMA PostFailIInv ==
  ASSUME IInv, NEW s \in Senders, PostFail(s)
  PROVE  IInv'
<1> USE LimitsAssumption DEF IInv
<1>1. PICK e \in {0, 1} : hits' = [hits EXCEPT ![s] = @ + e]
  BY DEF PostFail
<1>2. /\ hits[s] + e \in 0..MaxRetry /\ retry[s] + 1 \in 0..MaxRetry
      /\ hits[s] + e <= retry[s] + 1
  <2>1. hits[s] \in Nat /\ retry[s] \in Nat /\ e \in {0, 1}  BY DEF TypeOK
  <2>2. hits[s] <= retry[s] /\ retry[s] < MaxRetry  BY DEF PostFail, RetryInv
  <2> QED  BY <2>1, <2>2
<1>3. TypeOK'  BY <1>1, <1>2 DEF PostFail, TypeOK, connVars
<1>4. RetryInv'
  BY <1>1, <1>2 DEF PostFail, RetryInv, TypeOK
<1>5. ConnInv' /\ OutcomeExplained'
  BY DEF PostFail, ConnInv, OutcomeExplained, connVars
<1> QED  BY <1>3, <1>4, <1>5

LEMMA WakeIInv ==
  ASSUME IInv, NEW s \in Senders, Wake(s)
  PROVE  IInv'
<1> USE LimitsAssumption DEF IInv
<1>1. AfterFailure(s) \in {"post", "done"}  BY DEF AfterFailure
<1>2. TypeOK'  BY <1>1 DEF Wake, TypeOK, connVars
<1>3. RetryInv'
  BY SMTT(20) DEF Wake, AfterFailure, RetryInv, TypeOK
<1>4. ConnInv' /\ OutcomeExplained'
  BY DEF Wake, ConnInv, OutcomeExplained, connVars
<1> QED  BY <1>2, <1>3, <1>4

\* The entries Settle adds to the history of a sender.
LEMMA SettleOutcomes ==
  ASSUME IInv, NEW s \in Senders, phase[s] = "done",
         NEW new, new = [i \in DOMAIN buf[s] |->
                   [line |-> buf[s][i], copies |-> hits[s], fails |-> retry[s]]]
  PROVE  /\ new \in Seq(Outcome) /\ Len(new) = Len(buf[s])
         /\ \A i \in 1..Len(new) :
              /\ new[i].line = buf[s][i]
              /\ new[i].copies = hits[s]
              /\ new[i].fails = retry[s]
<1>1. buf[s] \in Seq(Line) /\ hits[s] \in 0..MaxRetry /\ retry[s] \in 0..MaxRetry
  BY DEF IInv, TypeOK
<1>2. DOMAIN buf[s] = 1..Len(buf[s]) /\ Len(buf[s]) \in Nat
      /\ \A i \in 1..Len(buf[s]) : buf[s][i] \in Line
  BY <1>1
<1>3. \A i \in 1..Len(buf[s]) :
        [line |-> buf[s][i], copies |-> hits[s], fails |-> retry[s]] \in Outcome
  BY <1>1, <1>2 DEF Outcome
<1> QED  BY <1>2, <1>3

LEMMA SettleIInv ==
  ASSUME IInv, NEW s \in Senders, Settle(s)
  PROVE  IInv'
<1> USE LimitsAssumption DEF IInv
<1> DEFINE new == [i \in DOMAIN buf[s] |->
                    [line |-> buf[s][i], copies |-> hits[s], fails |-> retry[s]]]
<1>1. /\ new \in Seq(Outcome)
      /\ \A i \in 1..Len(new) : new[i].copies = hits[s] /\ new[i].fails = retry[s]
  BY SettleOutcomes DEF Settle
<1>2. settled' = [settled EXCEPT ![s] = @ \o new]
  BY DEF Settle
<1>3. settled[s] \in Seq(Outcome)  BY DEF TypeOK
<1>4. hits[s] \in Nat /\ retry[s] \in 0..MaxRetry
      /\ (hits[s] = 0 => retry[s] = MaxRetry)
      /\ hits[s] <= IF retry[s] < MaxRetry THEN retry[s] + 1 ELSE MaxRetry
  BY DEF Settle, TypeOK, RetryInv
<1> HIDE DEF new
<1>5. settled' \in [Senders -> Seq(Outcome)]
  BY <1>1, <1>2, <1>3 DEF TypeOK
<1>6. /\ buf' \in [Senders -> Seq(Line)] /\ send' \in [Senders -> Nat]
      /\ mon' \in [Rcv : Nat, Send : Nat]
  <2>1. mon \in [Rcv : Nat, Send : Nat] /\ send[s] \in Nat  BY DEF TypeOK
  <2>2. /\ mon' = [mon EXCEPT !.Send = @ + send[s]]
        /\ send' = [send EXCEPT ![s] = 0]
        /\ buf' = [buf EXCEPT ![s] = << >>]
    BY DEF Settle, CountAndReset
  <2>3. mon' \in [Rcv : Nat, Send : Nat]  BY <2>1, <2>2
  <2> QED  BY <2>2, <2>3, SMTT(20) DEF TypeOK
<1>7. TypeOK'
  <2>1. /\ phase' = [phase EXCEPT ![s] = "select"]
        /\ retry' = [retry EXCEPT ![s] = 0]
        /\ hits' = [hits EXCEPT ![s] = 0]
        /\ UNCHANGED <<conn, deltaChan, pipe, tick>>
    BY DEF Settle, connVars
  <2>2. /\ phase' \in [Senders -> {"select", "post", "sleep", "done"}]
        /\ retry' \in [Senders -> 0..MaxRetry]
        /\ hits' \in [Senders -> 0..MaxRetry]
    BY <2>1 DEF TypeOK
  <2>3. /\ conn' \in [Conns -> ConnState] /\ tick' \in [Senders -> BOOLEAN]
        /\ deltaChan' \in Seq(Line) /\ Len(deltaChan') <= DeltaLimit
        /\ pipe' \in [Senders -> Seq(Line)]
        /\ \A r \in Senders : Len(pipe'[r]) <= ChanLimit
    BY <2>1 DEF TypeOK
  <2> QED  BY <1>5, <1>6, <2>2, <2>3 DEF TypeOK
<1>8. ConnInv' /\ RetryInv'
  BY DEF Settle, ConnInv, RetryInv, TypeOK, connVars
<1>9. OutcomeExplained'
  <2> SUFFICES ASSUME NEW r \in Senders, NEW i \in DOMAIN settled'[r]
               PROVE  LET o == settled'[r][i] IN
                      /\ o.copies = 0 => o.fails = MaxRetry
                      /\ o.copies <= IF o.fails < MaxRetry THEN o.fails + 1
                                                           ELSE MaxRetry
    BY DEF OutcomeExplained
  <2>1. CASE r # s
    BY <2>1, <1>2 DEF TypeOK, OutcomeExplained
  <2>2. CASE r = s
    <3>1. settled'[s] = settled[s] \o new  BY <1>2 DEF TypeOK
    <3>2. CASE i \in DOMAIN settled[s]
      <4>1. settled'[s][i] = settled[s][i]  BY <1>1, <1>3, <3>1, <3>2
      <4> QED  BY <2>2, <3>2, <4>1 DEF OutcomeExplained
    <3>3. CASE i \notin DOMAIN settled[s]
      <4>1. PICK k \in 1..Len(new) : settled'[s][i] = new[k]
        <5>1. i \in 1..(Len(settled[s]) + Len(new)) /\ i > Len(settled[s])
          BY <1>1, <1>3, <2>2, <3>1, <3>3
        <5>2. i - Len(settled[s]) \in 1..Len(new)  BY <1>1, <1>3, <5>1
        <5>3. settled'[s][i] = new[i - Len(settled[s])]
          BY <1>1, <1>3, <3>1, <5>1
        <5> QED  BY <5>2, <5>3
      <4> QED  BY <1>1, <1>4, <2>2, <4>1
    <3> QED  BY <3>2, <3>3
  <2> QED  BY <2>1, <2>2
<1> QED  BY <1>7, <1>8, <1>9

-----------------------------------------------------------------------------
LEMMA StepIInv == IInv /\ [Next]_vars => IInv'
<1> SUFFICES ASSUME IInv, [Next]_vars PROVE IInv'  OBVIOUS
<1>1. CASE UNCHANGED vars
  BY <1>1 DEF vars, IInv, TypeOK, ConnInv, RetryInv, OutcomeExplained
<1>2. ASSUME NEW c \in Conns, ConnStep(c) PROVE IInv'
  BY <1>2, ReadIInv, RejectIInv, CloseIInv, EnqueueIInv, HandOverIInv,
     AnnounceIInv DEF ConnStep
<1>3. ASSUME NEW s \in Senders, SenderStep(s) PROVE IInv'
  BY <1>3, TickIInv, ReceiveIInv, TakeTickIInv, PostOkIInv, PostFailIInv,
     WakeIInv, SettleIInv DEF SenderStep
<1>4. CASE BogusDelta  BY <1>4, BogusDeltaIInv
<1> QED  BY <1>1, <1>2, <1>3, <1>4 DEF Next

LEMMA Invariance == Spec => []IInv
<1> QED  BY InitIInv, StepIInv, PTL DEF Spec

\* Every variable keeps its type; in particular no Pipe holds more than its
\* capacity and no batch is attempted more than MaxRetry times.
THEOREM TypeCorrect == Spec => []TypeOK
<1>1. IInv => TypeOK  BY DEF IInv
<1> QED  BY <1>1, Invariance, PTL

\* The outcome of every settled line is one that send_data's retry loop can
\* explain, for any number of attempts.
THEOREM OutcomesExplained == Spec => []OutcomeExplained
<1>1. IInv => OutcomeExplained  BY DEF IInv
<1> QED  BY <1>1, Invariance, PTL
-----------------------------------------------------------------------------
(* The counters *)

\* What they count is finite, however many connections there may be.
CountInv ==
  /\ IsFiniteSet(LinesRead) /\ IsFiniteSet(LinesSettled)
  /\ CountersAgree

LEMMA InitCountInv == Init => CountInv
<1> SUFFICES ASSUME Init PROVE CountInv  OBVIOUS
<1>1. LinesRead = {}
  <2>1. \A c \in Conns : conn[c].num = 0  BY DEF Init
  <2> QED  BY <2>1 DEF LinesRead
<1>2. LinesSettled = {}
  <2>1. \A s \in Senders : settled[s] = << >>  BY DEF Init
  <2>2. DOMAIN << >> = {}  OBVIOUS
  <2> QED  BY <2>1, <2>2 DEF LinesSettled
<1>3. mon.Rcv = 0 /\ mon.Send = 0 /\ \A s \in Senders : send[s] = Len(buf[s])
  BY DEF Init
<1> QED  BY <1>1, <1>2, <1>3, FS_EmptySet DEF CountInv, CountersAgree

\* One line more of a connection.
LEMMA LineRead ==
  ASSUME IInv, CountInv, NEW c \in Conns, NEW r, r.num = conn[c].num + 1,
         conn' = [conn EXCEPT ![c] = r], mon' = [mon EXCEPT !.Rcv = @ + 1],
         UNCHANGED senderVars
  PROVE  CountInv'
<1> DEFINE n == conn[c].num
<1>1. n \in Nat /\ conn' \in [Conns -> ConnState \cup {r}]
      /\ conn'[c] = r /\ \A d \in Conns \ {c} : conn'[d] = conn[d]
  BY DEF IInv, TypeOK, ConnState
<1>2. conn'[c].num = n + 1  BY <1>1
<1>3. LinesRead' = LinesRead \cup {<<c, n + 1>>}
  <2> HIDE DEF n
  <2>1. \A d \in Conns, i \in Nat :
          i \in 1..conn'[d].num <=> i \in 1..conn[d].num \/ (d = c /\ i = n + 1)
    BY <1>1, <1>2 DEF n
  <2>2. n + 1 \in Nat /\ n + 1 \in 1..conn'[c].num  BY <1>1, <1>2
  <2>3. LinesRead' \subseteq LinesRead \cup {<<c, n + 1>>}
    BY <2>1 DEF LinesRead
  <2>4. LinesRead \subseteq LinesRead'  BY <2>1 DEF LinesRead
  <2>5. <<c, n + 1>> \in LinesRead'  BY <2>2 DEF LinesRead
  <2> QED  BY <2>3, <2>4, <2>5
<1>4. <<c, n + 1>> \notin LinesRead
  <2> SUFFICES ASSUME <<c, n + 1>> \in LinesRead PROVE FALSE  OBVIOUS
  <2>1. PICK d \in Conns : <<c, n + 1>> \in {d} \X (1..conn[d].num)  BY DEF LinesRead
  <2>2. n + 1 \in 1..n  BY <2>1
  <2> QED  BY <1>1, <2>2
<1>5. IsFiniteSet(LinesRead') /\ Cardinality(LinesRead') = Cardinality(LinesRead) + 1
  BY <1>3, <1>4, FS_AddElement DEF CountInv
<1>6. mon'.Rcv = mon.Rcv + 1 /\ mon'.Send = mon.Send
  BY DEF IInv, TypeOK
<1>7. UNCHANGED LinesSettled /\ \A s \in Senders : send'[s] = Len(buf'[s])
  BY DEF LinesSettled, senderVars, CountInv, CountersAgree
<1> QED  BY <1>5, <1>6, <1>7 DEF CountInv, CountersAgree

\* Steps that read no line and settle none.
LEMMA NothingCounted ==
  ASSUME CountInv, UNCHANGED <<mon, settled>>,
         \A c \in Conns : conn'[c].num = conn[c].num,
         \A s \in Senders : send'[s] = Len(buf'[s])
  PROVE  CountInv'
<1>1. LinesRead' = LinesRead /\ LinesSettled' = LinesSettled
  BY DEF LinesRead, LinesSettled
<1> QED  BY <1>1 DEF CountInv, CountersAgree

\* A sender takes one line into its buffer.
LEMMA LineTaken ==
  ASSUME IInv, CountInv, NEW w \in Senders, NEW l \in Line,
         buf' = [buf EXCEPT ![w] = Append(@, l)], send' = [send EXCEPT ![w] = @ + 1]
  PROVE  \A s \in Senders : send'[s] = Len(buf'[s])
<1>1. buf[w] \in Seq(Line) /\ send[w] = Len(buf[w])
  BY DEF IInv, TypeOK, CountInv, CountersAgree
<1>2. Len(Append(buf[w], l)) = Len(buf[w]) + 1  BY <1>1
<1>3. buf'[w] = Append(buf[w], l) /\ send'[w] = send[w] + 1
  BY DEF IInv, TypeOK
<1>4. \A s \in Senders \ {w} : buf'[s] = buf[s] /\ send'[s] = send[s]
  BY DEF IInv, TypeOK
<1> QED  BY <1>1, <1>2, <1>3, <1>4 DEF CountInv, CountersAgree

\* A batch is settled: its lines join the history, and send is what they are.
LEMMA DomainConcat ==
  ASSUME NEW S, NEW p \in Seq(S), NEW q \in Seq(S)
  PROVE  DOMAIN p = 1..Len(p) /\ DOMAIN (p \o q) = 1..(Len(p) + Len(q))
BY ConcatProperties

\* The entries of sender s grow from n to n + k.
LEMMA HistoryGrows ==
  ASSUME NEW s \in Senders, NEW n \in Nat, NEW k \in Nat,
         DOMAIN settled[s] = 1..n, DOMAIN settled'[s] = 1..(n + k),
         \A r \in Senders \ {s} : settled'[r] = settled[r],
         IsFiniteSet(LinesSettled)
  PROVE  /\ IsFiniteSet(LinesSettled')
         /\ Cardinality(LinesSettled') = Cardinality(LinesSettled) + k
<1> DEFINE more == {s} \X ((n + 1)..(n + k))
<1>1. \A i : /\ i \in 1..(n + k) <=> i \in 1..n \/ i \in (n + 1)..(n + k)
           /\ ~(i \in 1..n /\ i \in (n + 1)..(n + k))
  OBVIOUS
<1>2. LinesSettled' \subseteq LinesSettled \cup more
  <2> SUFFICES ASSUME NEW r \in Senders, NEW i \in DOMAIN settled'[r]
               PROVE  <<r, i>> \in LinesSettled \cup more
    BY DEF LinesSettled
  <2>1. r = s \/ i \in DOMAIN settled[r]  OBVIOUS
  <2>2. i \in DOMAIN settled[r] => <<r, i>> \in LinesSettled  BY DEF LinesSettled
  <2> QED  BY <1>1, <2>1, <2>2
<1>3. LinesSettled \subseteq LinesSettled'
  <2> SUFFICES ASSUME NEW r \in Senders, NEW i \in DOMAIN settled[r]
               PROVE  <<r, i>> \in LinesSettled'
    BY DEF LinesSettled
  <2>1. i \in DOMAIN settled'[r]  BY <1>1
  <2> QED  BY <2>1 DEF LinesSettled
<1>4. more \subseteq LinesSettled'
  <2> SUFFICES ASSUME NEW i \in (n + 1)..(n + k) PROVE <<s, i>> \in LinesSettled'
    OBVIOUS
  <2>1. i \in DOMAIN settled'[s]  BY <1>1
  <2> QED  BY <2>1 DEF LinesSettled
<1>5. LinesSettled \cap more = {}
  <2> SUFFICES ASSUME NEW i \in (n + 1)..(n + k), <<s, i>> \in LinesSettled
               PROVE  FALSE
    OBVIOUS
  <2>1. i \in DOMAIN settled[s]  BY DEF LinesSettled
  <2> QED  BY <1>1, <2>1
<1>6. LinesSettled' = LinesSettled \cup more  BY <1>2, <1>3, <1>4
<1>7. IsFiniteSet(more) /\ Cardinality(more) = k
  <2>1. n + 1 \in Int /\ n + k \in Int  OBVIOUS
  <2>2. /\ IsFiniteSet((n + 1)..(n + k))
        /\ Cardinality((n + 1)..(n + k)) = IF n + 1 > n + k THEN 0 ELSE n + k - (n + 1) + 1
    BY <2>1, FS_Interval
  <2>3. Cardinality((n + 1)..(n + k)) = k  BY <2>2
  <2>4. IsFiniteSet({s}) /\ Cardinality({s}) = 1  BY FS_Singleton
  <2>5. IsFiniteSet(more) /\ Cardinality(more) = 1 * k
    BY <2>2, <2>3, <2>4, FS_Product
  <2> QED  BY <2>5
<1> HIDE DEF more
<1>8. Cardinality(LinesSettled) \in Nat  BY FS_CardinalityType
<1>9. Cardinality({}) = 0  BY FS_EmptySet
<1>10. /\ IsFiniteSet(LinesSettled \cup more)
       /\ Cardinality(LinesSettled \cup more) = Cardinality(LinesSettled) + k - 0
  BY <1>5, <1>7, <1>9, FS_Union
<1> QED  BY <1>6, <1>8, <1>10

LEMMA SettleCountInv ==
  ASSUME IInv, CountInv, NEW s \in Senders, Settle(s)
  PROVE  CountInv'
<1> DEFINE new == [i \in DOMAIN buf[s] |->
                    [line |-> buf[s][i], copies |-> hits[s], fails |-> retry[s]]]
           n == Len(settled[s])
           k == Len(buf[s])
<1>1. new \in Seq(Outcome) /\ Len(new) = Len(buf[s])  BY SettleOutcomes DEF Settle
<1>2. settled' = [settled EXCEPT ![s] = @ \o new]  BY DEF Settle
<1>3. settled[s] \in Seq(Outcome) /\ buf[s] \in Seq(Line) /\ n \in Nat /\ k \in Nat
  BY DEF IInv, TypeOK
<1> HIDE DEF new
<1>4. settled'[s] = settled[s] \o new /\ \A r \in Senders \ {s} : settled'[r] = settled[r]
  BY <1>2 DEF IInv, TypeOK
<1>5. DOMAIN settled[s] = 1..n /\ DOMAIN settled'[s] = 1..(n + k)
  <2>1. /\ DOMAIN settled[s] = 1..Len(settled[s])
        /\ DOMAIN (settled[s] \o new) = 1..(Len(settled[s]) + Len(new))
    BY <1>1, <1>3, DomainConcat, ZenonT(40)
  <2> QED  BY <2>1, <1>1, <1>4
<1> HIDE DEF n, k
<1>8. IsFiniteSet(LinesSettled')
      /\ Cardinality(LinesSettled') = Cardinality(LinesSettled) + k
  BY <1>3, <1>4, <1>5, HistoryGrows DEF CountInv
<1>9. mon'.Rcv = mon.Rcv /\ mon'.Send = mon.Send + k
  <2>1. mon \in [Rcv : Nat, Send : Nat]  BY DEF IInv, TypeOK
  <2>2. send[s] = k  BY DEF k, CountInv, CountersAgree
  <2>3. mon' = [mon EXCEPT !.Send = @ + send[s]]  BY DEF Settle, CountAndReset
  <2> QED  BY <2>1, <2>2, <2>3
<1>10. \A r \in Senders : send'[r] = Len(buf'[r])
  <2>1. send' = [send EXCEPT ![s] = 0] /\ buf' = [buf EXCEPT ![s] = << >>]
    BY DEF Settle, CountAndReset
  <2>2. Len(<< >>) = 0  OBVIOUS
  <2> QED  BY <2>1, <2>2 DEF IInv, TypeOK, CountInv, CountersAgree
<1>11. LinesRead' = LinesRead  BY DEF Settle, connVars, LinesRead
<1> QED  BY <1>8, <1>9, <1>10, <1>11 DEF CountInv, CountersAgree

LEMMA ConnCountInv ==
  ASSUME IInv, CountInv, NEW c \in Conns, ConnStep(c)
  PROVE  CountInv'
<1>1. conn[c] \in ConnState  BY DEF IInv, TypeOK
<1>2. \A s \in Senders : send[s] = Len(buf[s])  BY DEF CountInv, CountersAgree
<1>3. ASSUME NEW m \in Metrics, Read(c, m) PROVE CountInv'
  <2>1. PICK q \in Draws(m) :
          conn' = [conn EXCEPT ![c] = [pc |-> "send", num |-> @.num + 1,
                                       metric |-> m, todo |-> q]]
    BY <1>3 DEF Read
  <2> DEFINE r == [pc |-> "send", num |-> conn[c].num + 1, metric |-> m, todo |-> q]
  <2>2. r.num = conn[c].num + 1 /\ conn' = [conn EXCEPT ![c] = r]  BY <2>1
  <2> QED  BY <1>3, <2>2, LineRead DEF Read
<1>4. CASE Reject(c)
  <2> DEFINE r == [conn[c] EXCEPT !.num = @ + 1]
  <2>1. r.num = conn[c].num + 1  BY <1>1 DEF ConnState
  <2>2. conn' = [conn EXCEPT ![c] = r]  BY <1>4 DEF Reject
  <2> QED  BY <1>4, <2>1, <2>2, LineRead DEF Reject
<1>5. CASE Close(c)
  <2>1. \A d \in Conns : conn'[d].num = conn[d].num
    BY <1>5 DEF Close, IInv, TypeOK, ConnState
  <2> QED  BY <1>2, <1>5, <2>1, NothingCounted DEF Close, senderVars
<1>6. ASSUME AfterReplica(c) PROVE \A d \in Conns : conn'[d].num = conn[d].num
  BY <1>6, ZenonT(40) DEF AfterReplica, IInv, TypeOK, ConnState
<1>7. CASE Enqueue(c)
  BY <1>2, <1>6, <1>7, NothingCounted DEF Enqueue, senderVars
<1>8. CASE HandOver(c)
  <2>1. CurrentLine(c) \in Line /\ Head(conn[c].todo) \in Senders
    BY <1>8, CurrentLineType, AfterReplicaConn DEF HandOver
  <2>2. \A s \in Senders : send'[s] = Len(buf'[s])
    BY <1>8, <2>1, LineTaken DEF HandOver
  <2> QED  BY <1>6, <1>8, <2>2, NothingCounted DEF HandOver
<1>9. CASE Announce(c)
  <2>1. \A d \in Conns : conn'[d].num = conn[d].num
    BY <1>9 DEF Announce, IInv, TypeOK, ConnState
  <2> QED  BY <1>2, <1>9, <2>1, NothingCounted DEF Announce, senderVars
<1> QED  BY <1>3, <1>4, <1>5, <1>7, <1>8, <1>9 DEF ConnStep

LEMMA SenderCountInv ==
  ASSUME IInv, CountInv, NEW s \in Senders, SenderStep(s)
  PROVE  CountInv'
<1>1. \A r \in Senders : send[r] = Len(buf[r])  BY DEF CountInv, CountersAgree
<1>2. CASE Receive(s)
  <2>1. pipe[s] \in Seq(Line) /\ pipe[s] # << >>  BY <1>2 DEF Receive, IInv, TypeOK
  <2>2. Head(pipe[s]) \in Line  BY <2>1, SeqEnds
  <2>3. \A r \in Senders : send'[r] = Len(buf'[r])
    BY <1>2, <2>2, LineTaken DEF Receive
  <2> QED  BY <1>2, <2>3, NothingCounted DEF Receive, connVars
<1>3. CASE Settle(s)  BY <1>3, SettleCountInv
<1>4. CASE Tick(s) \/ TakeTick(s) \/ PostOk(s) \/ PostFail(s) \/ Wake(s)
  <2>1. UNCHANGED <<conn, buf, send, mon, settled>>
    BY <1>4 DEF Tick, TakeTick, PostOk, PostFail, Wake, connVars, senderVars
  <2> QED  BY <1>1, <2>1, NothingCounted
<1> QED  BY <1>2, <1>3, <1>4 DEF SenderStep

LEMMA StepCountInv == IInv /\ CountInv /\ [Next]_vars => CountInv'
<1> SUFFICES ASSUME IInv, CountInv, [Next]_vars PROVE CountInv'  OBVIOUS
<1>1. CASE UNCHANGED vars \/ BogusDelta
  <2>1. UNCHANGED <<conn, buf, send, mon, settled>>
    BY <1>1 DEF vars, BogusDelta, senderVars
  <2> QED  BY <2>1, NothingCounted DEF CountInv, CountersAgree
<1> QED  BY <1>1, ConnCountInv, SenderCountInv DEF Next

\* The counters and the lines never drift apart, for any number of connections,
\* senders and lines: each line read is counted once, each copy settled once.
THEOREM CountersRight == Spec => []CountersAgree
<1>1. CountInv => CountersAgree  BY DEF CountInv
<1> QED  BY <1>1, Invariance, InitCountInv, StepCountInv, PTL DEF Spec

-----------------------------------------------------------------------------
(* What becomes of lines. What a sender was ever given, settled lines,     *)
(* buffer and Pipe in a row, is changed by nothing but the connections     *)
(* that append to it; and a connection appends a line to it at most once,  *)
(* after its earlier lines. Hence the hosts that have a line are those of  *)
(* the senders served, each once; and the relay implements Delivery. A     *)
(* batch is what it was when it was posted.                                *)

\* No sender is still to be served twice for the line in hand.
TodoDistinct ==
  \A c \in Conns : \A i, j \in DOMAIN conn[c].todo :
    conn[c].todo[i] = conn[c].todo[j] => i = j

\* A sender has no line its connection has not read, and has the line in hand
\* only once it was served.
NotAhead ==
  \A s \in Senders : \A i \in DOMAIN Taken(s) :
    LET l == Taken(s)[i] IN
    /\ l.num <= conn[l.conn].num
    /\ \A k \in DOMAIN conn[l.conn].todo :
         conn[l.conn].todo[k] = s => l.num < conn[l.conn].num

OrderInv == TodoDistinct /\ NotAhead /\ PerConnectionOrder

-----------------------------------------------------------------------------
(* What becomes of Taken *)

LEMMA LinesOfType ==
  ASSUME NEW q \in Seq(Outcome)
  PROVE  /\ LinesOf(q) \in Seq(Line) /\ Len(LinesOf(q)) = Len(q)
         /\ \A i \in 1..Len(q) : LinesOf(q)[i] = q[i].line
<1>1. DOMAIN q = 1..Len(q) /\ Len(q) \in Nat  OBVIOUS
<1>2. ASSUME NEW i \in 1..Len(q) PROVE q[i].line \in Line
  <2>1. q[i] \in Outcome  BY <1>1
  <2> QED  BY <2>1 DEF Outcome
<1> QED  BY <1>1, <1>2 DEF LinesOf

LEMMA TakenType ==
  ASSUME TypeOK, NEW s \in Senders
  PROVE  /\ LinesOf(settled[s]) \in Seq(Line)
         /\ buf[s] \in Seq(Line) /\ pipe[s] \in Seq(Line)
         /\ Taken(s) \in Seq(Line)
<1>1. buf[s] \in Seq(Line) /\ pipe[s] \in Seq(Line) /\ settled[s] \in Seq(Outcome)
  BY DEF TypeOK
<1>2. LinesOf(settled[s]) \in Seq(Line)  BY <1>1, LinesOfType
<1> QED  BY <1>1, <1>2, ConcatProperties DEF Taken

\* A line that moves from the Pipe to the buffer stays where it was in Taken.
LEMMA MoveHead ==
  \A a, b, p \in Seq(Line) :
    p # << >> => (a \o Append(b, Head(p))) \o Tail(p) = (a \o b) \o p
<1> DEFINE S == Line
<1> SUFFICES ASSUME NEW a \in Seq(S), NEW b \in Seq(S), NEW p \in Seq(S), p # << >>
             PROVE  (a \o Append(b, Head(p))) \o Tail(p) = (a \o b) \o p
  OBVIOUS
<1> HIDE DEF S
<1>1. Head(p) \in S /\ Tail(p) \in Seq(S) /\ <<Head(p)>> \in Seq(S)
  BY SeqEnds
<1>2. p = <<Head(p)>> \o Tail(p)
  <2> DEFINE hd == <<Head(p)>>
             q == hd \o Tail(p)
  <2>1. Len(p) \in Nat \ {0} /\ Len(Tail(p)) = Len(p) - 1 /\ Head(p) = p[1]
        /\ \A i \in 1..(Len(p) - 1) : Tail(p)[i] = p[i + 1]
    BY SeqEnds
  <2>2. Len(hd) = 1 /\ hd[1] = Head(p) /\ hd \in Seq(S)  BY <1>1
  <2> HIDE DEF hd
  <2>3. /\ q \in Seq(S) /\ Len(q) = Len(hd) + Len(Tail(p))
        /\ \A i \in 1..Len(hd) + Len(Tail(p)) :
             q[i] = IF i <= Len(hd) THEN hd[i] ELSE Tail(p)[i - Len(hd)]
    BY <1>1, <2>2, ConcatProperties
  <2> HIDE DEF q
  <2>4. Len(q) = Len(p)  BY <2>1, <2>2, <2>3
  <2>5. ASSUME NEW i \in 1..Len(q) PROVE q[i] = p[i]
    <3>1. CASE i = 1  BY <3>1, <2>1, <2>2, <2>3
    <3>2. CASE i # 1
      <4>1. i - 1 \in 1..(Len(p) - 1)  BY <3>2, <2>1, <2>4
      <4>2. q[i] = Tail(p)[i - 1]  BY <3>2, <4>1, <2>1, <2>2, <2>3, <2>4
      <4>3. Tail(p)[i - 1] = p[(i - 1) + 1]  BY <4>1, <2>1
      <4>4. (i - 1) + 1 = i  OBVIOUS
      <4> QED  BY <4>2, <4>3, <4>4
    <3> QED  BY <3>1, <3>2
  <2>6. q = p  BY <2>3, <2>4, <2>5, SeqEqual
  <2> QED  BY <2>6 DEF q, hd
<1> DEFINE h == <<Head(p)>>
           t == Tail(p)
<1>3. Append(b, Head(p)) = b \o h  BY <1>1, AppendIsConcat
<1>4. a \o b \in Seq(S) /\ b \o h \in Seq(S)  BY <1>1, ConcatProperties
<1>5. a \o (b \o h) = (a \o b) \o h  BY <1>1, ConcatAssociative
<1>6. ((a \o b) \o h) \o t = (a \o b) \o (h \o t)
  BY <1>1, <1>4, ConcatAssociative
<1> QED  BY <1>2, <1>3, <1>5, <1>6

\* A batch that is settled stays where it was in Taken.
LEMMA MoveBatch ==
  ASSUME NEW q \in Seq(Outcome), NEW new \in Seq(Outcome), NEW b \in Seq(Line),
         Len(new) = Len(b), \A i \in 1..Len(new) : new[i].line = b[i]
  PROVE  LinesOf(q \o new) = LinesOf(q) \o b
<1>1. q \o new \in Seq(Outcome) /\ Len(q \o new) = Len(q) + Len(new)
      /\ \A i \in 1..Len(q) + Len(new) :
           (q \o new)[i] = IF i <= Len(q) THEN q[i] ELSE new[i - Len(q)]
  BY ConcatProperties, ZenonT(40)
<1> DEFINE qn == q \o new
<1> HIDE DEF qn
<1>2. LinesOf(qn) \in Seq(Line) /\ Len(LinesOf(qn)) = Len(qn)
      /\ \A i \in 1..Len(qn) : LinesOf(qn)[i] = qn[i].line
  BY <1>1, LinesOfType DEF qn
<1> DEFINE lq == LinesOf(q)
<1>3. lq \in Seq(Line) /\ Len(lq) = Len(q)
      /\ \A i \in 1..Len(q) : lq[i] = q[i].line
  BY LinesOfType
<1> HIDE DEF lq
<1> DEFINE r == lq \o b
<1>4. r \in Seq(Line) /\ Len(r) = Len(lq) + Len(b)
      /\ \A i \in 1..Len(lq) + Len(b) :
           r[i] = IF i <= Len(lq) THEN lq[i] ELSE b[i - Len(lq)]
  BY <1>3, ConcatProperties
<1> HIDE DEF r
<1>5. Len(q) \in Nat /\ Len(b) \in Nat  OBVIOUS
<1>6. Len(LinesOf(qn)) = Len(r)  BY <1>1, <1>2, <1>3, <1>4 DEF qn
<1>7. ASSUME NEW i \in 1..Len(r) PROVE LinesOf(qn)[i] = r[i]
  <2>1. i \in 1..Len(q) + Len(new) /\ i \in 1..Len(qn)
    BY <1>1, <1>3, <1>4, <1>5 DEF qn
  <2>2. CASE i <= Len(q)
    <3>1. LinesOf(qn)[i] = q[i].line  BY <1>1, <1>2, <2>1, <2>2 DEF qn
    <3>2. i \in 1..Len(q) /\ i \in 1..Len(lq) + Len(b) /\ i <= Len(lq)
      BY <1>3, <1>5, <2>1, <2>2
    <3>3. r[i] = lq[i]  BY <1>4, <3>2
    <3>4. lq[i] = q[i].line  BY <1>3, <3>2
    <3> QED  BY <3>1, <3>3, <3>4
  <2>3. CASE ~(i <= Len(q))
    <3>1. i - Len(q) \in 1..Len(new)  BY <1>5, <2>1, <2>3
    <3>2. LinesOf(qn)[i] = new[i - Len(q)].line  BY <1>1, <1>2, <2>1, <2>3 DEF qn
    <3>3. r[i] = b[i - Len(q)]
      <4>1. i \in 1..Len(lq) + Len(b) /\ ~(i <= Len(lq)) /\ Len(lq) = Len(q)
        BY <1>3, <1>5, <2>1, <2>3
      <4> QED  BY <1>4, <4>1
    <3> QED  BY <3>1, <3>2, <3>3
  <2> QED  BY <2>2, <2>3
<1>8. LinesOf(qn) = r  BY <1>2, <1>4, <1>6, <1>7, SeqEqual
<1> QED  BY <1>8 DEF qn, r, lq

\* A line put on the Pipe comes last in Taken.
LEMMA AppendAcross ==
  \A a, b \in Seq(Line), e \in Line : a \o Append(b, e) = Append(a \o b, e)
<1> SUFFICES ASSUME NEW a \in Seq(Line), NEW b \in Seq(Line), NEW e \in Line
             PROVE  a \o Append(b, e) = Append(a \o b, e)
  OBVIOUS
<1> DEFINE u == <<e>>
<1>1. u \in Seq(Line) /\ a \o b \in Seq(Line)  BY ConcatProperties
<1>2. Append(b, e) = b \o u  BY AppendIsConcat
<1>3. Append(a \o b, e) = (a \o b) \o u  BY <1>1, AppendIsConcat
<1> HIDE DEF u
<1>4. a \o (b \o u) = (a \o b) \o u  BY <1>1, ConcatAssociative, SMTT(20)
<1> QED  BY <1>2, <1>3, <1>4

LEMMA TakenPrime ==
  ASSUME NEW s \in Senders
  PROVE  Taken(s)' = (LinesOf(settled'[s]) \o buf'[s]) \o pipe'[s]
BY DEF Taken, LinesOf

\* No step of a sender changes what it has been given so far.
LEMMA ReceiveKeepsTaken ==
  ASSUME IInv, NEW s \in Senders, Receive(s)
  PROVE  \A r \in Senders : Taken(r)' = Taken(r)
<1>1. TypeOK  BY DEF IInv
<1>2. /\ LinesOf(settled[s]) \in Seq(Line) /\ buf[s] \in Seq(Line)
      /\ pipe[s] \in Seq(Line) /\ pipe[s] # << >>
  BY <1>1, TakenType DEF Receive
<1>3. /\ buf' = [buf EXCEPT ![s] = Append(@, Head(pipe[s]))]
      /\ pipe' = [pipe EXCEPT ![s] = Tail(@)]
      /\ settled' = settled
  BY DEF Receive
<1>4. ASSUME NEW r \in Senders PROVE Taken(r)' = Taken(r)
  <2>1. CASE r = s
    <3>1. buf'[s] = Append(buf[s], Head(pipe[s])) /\ pipe'[s] = Tail(pipe[s])
      BY <1>1, <1>3 DEF TypeOK
    <3>2. Taken(s)' = (LinesOf(settled[s]) \o Append(buf[s], Head(pipe[s])))
                         \o Tail(pipe[s])
      BY <1>3, <3>1, TakenPrime
    <3>3. Taken(s) = (LinesOf(settled[s]) \o buf[s]) \o pipe[s]  BY DEF Taken
    <3>4. (LinesOf(settled[s]) \o Append(buf[s], Head(pipe[s]))) \o Tail(pipe[s])
            = (LinesOf(settled[s]) \o buf[s]) \o pipe[s]
      BY <1>2, MoveHead, Zenon
    <3> QED  BY <2>1, <3>2, <3>3, <3>4
  <2>2. CASE r # s
    <3>1. buf'[r] = buf[r] /\ pipe'[r] = pipe[r]
      BY <1>1, <1>3, <2>2 DEF TypeOK
    <3> QED  BY <1>3, <3>1, TakenPrime DEF Taken
  <2> QED  BY <2>1, <2>2
<1> QED  BY <1>4

LEMMA SettleKeepsTaken ==
  ASSUME IInv, NEW s \in Senders, Settle(s)
  PROVE  \A r \in Senders : Taken(r)' = Taken(r)
<1> DEFINE new == [i \in DOMAIN buf[s] |->
                    [line |-> buf[s][i], copies |-> hits[s], fails |-> retry[s]]]
<1>1. TypeOK  BY DEF IInv
<1>2. /\ settled' = [settled EXCEPT ![s] = @ \o new]
      /\ buf' = [buf EXCEPT ![s] = << >>] /\ pipe' = pipe
  BY DEF Settle, CountAndReset
<1>3. new \in Seq(Outcome) /\ Len(new) = Len(buf[s])
      /\ \A i \in 1..Len(new) : new[i].line = buf[s][i]
  BY SettleOutcomes DEF Settle
<1>4. settled[s] \in Seq(Outcome) /\ buf[s] \in Seq(Line)  BY <1>1 DEF TypeOK
<1> HIDE DEF new
<1>5. ASSUME NEW r \in Senders PROVE Taken(r)' = Taken(r)
  <2>1. CASE r = s
    <3>1. settled'[s] = settled[s] \o new /\ buf'[s] = << >>
      BY <1>1, <1>2 DEF TypeOK
    <3>2. LinesOf(settled'[s]) = LinesOf(settled[s]) \o buf[s]
      BY <1>3, <1>4, <3>1, MoveBatch
    <3>3. LinesOf(settled[s]) \o buf[s] \in Seq(Line)
      BY <1>4, LinesOfType, ConcatProperties
    <3>4. LinesOf(settled'[s]) \o buf'[s] = LinesOf(settled[s]) \o buf[s]
      BY <3>1, <3>2, <3>3, ConcatEmptySeq
    <3>5. LinesOf(settled[s])' = LinesOf(settled'[s])  BY DEF LinesOf
    <3> QED  BY <1>2, <2>1, <3>4, <3>5 DEF Taken
  <2>2. CASE r # s
    <3>1. settled'[r] = settled[r] /\ buf'[r] = buf[r]
      BY <1>1, <1>2, <2>2 DEF TypeOK
    <3> QED  BY <1>2, <3>1, TakenPrime DEF Taken
  <2> QED  BY <2>1, <2>2
<1> QED  BY <1>5

LEMMA SenderKeepsTaken ==
  ASSUME IInv, NEW s \in Senders, SenderStep(s)
  PROVE  \A r \in Senders : Taken(r)' = Taken(r)
<1>1. CASE UNCHANGED <<settled, buf, pipe>>  BY <1>1 DEF Taken, LinesOf
<1>2. Tick(s) => UNCHANGED <<settled, buf, pipe>>  BY DEF Tick, senderVars
<1>3. TakeTick(s) => UNCHANGED <<settled, buf, pipe>>  BY DEF TakeTick
<1>4. PostOk(s) => UNCHANGED <<settled, buf, pipe>>  BY DEF PostOk
<1>5. PostFail(s) => UNCHANGED <<settled, buf, pipe>>  BY DEF PostFail
<1>6. Wake(s) => UNCHANGED <<settled, buf, pipe>>  BY DEF Wake
<1> QED  BY <1>1, <1>2, <1>3, <1>4, <1>5, <1>6, ReceiveKeepsTaken,
            SettleKeepsTaken DEF SenderStep

\* Serving a sender, buffered or not, appends the line in hand to Taken.
LEMMA EnqueueAppends ==
  ASSUME IInv, NEW c \in Conns, Enqueue(c),
         NEW w \in Senders, w = Head(conn[c].todo),
         NEW l \in Line, l = CurrentLine(c)
  PROVE  /\ Taken(w)' = Append(Taken(w), l)
         /\ \A r \in Senders \ {w} : Taken(r)' = Taken(r)
<1>1. TypeOK  BY DEF IInv
<1>4. pipe' = [pipe EXCEPT ![w] = Append(@, l)] /\ buf' = buf /\ settled' = settled
  BY DEF Enqueue, senderVars
<1>5. Taken(w)' = Append(Taken(w), l)
  <2> DEFINE a == LinesOf(settled[w]) \o buf[w]
  <2>1. a \in Seq(Line) /\ pipe[w] \in Seq(Line)
    BY <1>1, TakenType, ConcatProperties
  <2>2. pipe'[w] = Append(pipe[w], l)  BY <1>1, <1>4 DEF TypeOK
  <2>3. Taken(w)' = a \o Append(pipe[w], l)
    BY <1>4, <2>2, TakenPrime
  <2>4. Taken(w) = a \o pipe[w]  BY DEF Taken
  <2> HIDE DEF a
  <2>5. a \o Append(pipe[w], l) = Append(a \o pipe[w], l)
    BY <2>1, AppendAcross, Zenon
  <2> QED  BY <2>3, <2>4, <2>5
<1>6. ASSUME NEW r \in Senders \ {w} PROVE Taken(r)' = Taken(r)
  <2>1. pipe'[r] = pipe[r]  BY <1>1, <1>4 DEF TypeOK
  <2> QED  BY <1>4, <2>1 DEF Taken, LinesOf
<1> QED  BY <1>5, <1>6

LEMMA HandOverAppends ==
  ASSUME IInv, NEW c \in Conns, HandOver(c),
         NEW w \in Senders, w = Head(conn[c].todo),
         NEW l \in Line, l = CurrentLine(c)
  PROVE  /\ Taken(w)' = Append(Taken(w), l)
         /\ \A r \in Senders \ {w} : Taken(r)' = Taken(r)
<1>1. TypeOK  BY DEF IInv
<1>4. /\ buf' = [buf EXCEPT ![w] = Append(@, l)] /\ pipe' = pipe
      /\ settled' = settled /\ ChanLimit = 0
  BY DEF HandOver
<1>5. Taken(w)' = Append(Taken(w), l)
  <2> DEFINE a == LinesOf(settled[w])
  <2>1. a \in Seq(Line) /\ buf[w] \in Seq(Line) /\ pipe[w] \in Seq(Line)
    BY <1>1, TakenType
  <2>2. pipe[w] = << >>
    <3>1. Len(pipe[w]) <= 0  BY <1>1, <1>4 DEF TypeOK
    <3>2. Len(pipe[w]) = 0  BY <2>1, <3>1
    <3> QED  BY <2>1, <3>2
  <2>3. buf'[w] = Append(buf[w], l)  BY <1>1, <1>4 DEF TypeOK
  <2>4. Taken(w)' = (a \o Append(buf[w], l)) \o pipe[w]
    BY <1>4, <2>3, TakenPrime
  <2>5. Taken(w) = (a \o buf[w]) \o pipe[w]  BY DEF Taken
  <2> HIDE DEF a
  <2>6. /\ a \o buf[w] \in Seq(Line)
        /\ a \o Append(buf[w], l) \in Seq(Line)
    BY <2>1, ConcatProperties, AppendProperties
  <2>7. Taken(w) = a \o buf[w]  BY <2>2, <2>5, <2>6, ConcatEmptySeq
  <2>8. Taken(w)' = a \o Append(buf[w], l)  BY <2>2, <2>4, <2>6, ConcatEmptySeq
  <2>9. a \o Append(buf[w], l) = Append(a \o buf[w], l)
    BY <2>1, AppendAcross, Zenon
  <2> QED  BY <2>7, <2>8, <2>9
<1>6. ASSUME NEW r \in Senders \ {w} PROVE Taken(r)' = Taken(r)
  <2>1. buf'[r] = buf[r]  BY <1>1, <1>4 DEF TypeOK
  <2> QED  BY <1>4, <2>1 DEF Taken, LinesOf
<1> QED  BY <1>5, <1>6
-----------------------------------------------------------------------------
(* The order *)

\* A draw names no sender twice: its targets are different hosts.
LEMMA DrawsDistinct ==
  ASSUME NEW m \in Metrics, NEW q \in Draws(m), NEW i \in DOMAIN q,
         NEW j \in DOMAIN q, q[i] = q[j]
  PROVE  i = j
<1>1. DOMAIN q = DOMAIN Targets(m) /\ Targets(m)[i] = Targets(m)[j]
  BY DEF Draws
<1>2. CASE Single
  <2>1. DOMAIN Targets(m) = {1}  BY <1>2 DEF Targets
  <2> QED  BY <1>1, <2>1
<1>3. CASE ~Single
  BY <1>1, <1>3, ReplicasAssumption DEF Targets
<1> QED  BY <1>2, <1>3

LEMMA InitOrder == Init => OrderInv
<1> SUFFICES ASSUME Init PROVE OrderInv  OBVIOUS
<1>1. \A c \in Conns : conn[c].todo = << >>  BY DEF Init
<1>2. ASSUME NEW s \in Senders PROVE Taken(s) = << >>
  <2>1. settled[s] = << >> /\ buf[s] = << >> /\ pipe[s] = << >>  BY DEF Init
  <2>2. LinesOf(<< >>) = << >>  BY DEF LinesOf
  <2> QED  BY <2>1, <2>2 DEF Taken
<1> QED  BY <1>1, <1>2 DEF OrderInv, TodoDistinct, NotAhead, PerConnectionOrder

\* Steps that leave Taken alone: the connection may only read on, and take a
\* line in hand whose number is new.
LEMMA KeptOrder ==
  ASSUME IInv, IInv', OrderInv,
         \A r \in Senders : Taken(r)' = Taken(r),
         \A d \in Conns : /\ conn[d].num <= conn'[d].num
                          /\ conn'[d].todo = conn[d].todo
                               \/ conn[d].num < conn'[d].num,
         TodoDistinct'
  PROVE  OrderInv'
<1>1. ASSUME NEW s \in Senders, NEW i \in DOMAIN Taken(s)
      PROVE  /\ Taken(s)[i] \in Line /\ Taken(s)[i].conn \in Conns
             /\ Taken(s)[i].num \in Nat
  <2>1. Taken(s) \in Seq(Line)  BY TakenType DEF IInv
  <2>2. Taken(s)[i] \in Line  BY <2>1
  <2> QED  BY <2>2 DEF Line
<1>2. \A d \in Conns : conn[d].num \in Nat /\ conn'[d].num \in Nat
  BY DEF IInv, TypeOK, ConnState
<1>3. NotAhead'
  <2> SUFFICES ASSUME NEW s \in Senders, NEW i \in DOMAIN Taken(s)
               PROVE  LET l == Taken(s)[i] IN
                      /\ l.num <= conn'[l.conn].num
                      /\ \A k \in DOMAIN conn'[l.conn].todo :
                           conn'[l.conn].todo[k] = s => l.num < conn'[l.conn].num
    BY DEF NotAhead
  <2> DEFINE l == Taken(s)[i]
  <2>1. l.conn \in Conns /\ l.num \in Nat  BY <1>1
  <2>2. /\ l.num <= conn[l.conn].num
        /\ \A k \in DOMAIN conn[l.conn].todo :
             conn[l.conn].todo[k] = s => l.num < conn[l.conn].num
    BY DEF OrderInv, NotAhead
  <2> HIDE DEF l
  <2>3. conn[l.conn].num \in Nat /\ conn'[l.conn].num \in Nat
        /\ conn[l.conn].num <= conn'[l.conn].num
    BY <1>2, <2>1
  <2>4. CASE conn'[l.conn].todo = conn[l.conn].todo
    BY <2>1, <2>2, <2>3, <2>4 DEF l
  <2>5. CASE conn[l.conn].num < conn'[l.conn].num
    BY <2>1, <2>2, <2>3, <2>5 DEF l
  <2> QED  BY <2>1, <2>4, <2>5
<1>4. PerConnectionOrder'  BY DEF OrderInv, PerConnectionOrder
<1> QED  BY <1>3, <1>4 DEF OrderInv
\* Serving the next sender: it has had every earlier line of the connection
\* and not yet this one, and it will not be served again.
LEMMA ServeOrder ==
  ASSUME IInv, IInv', OrderInv, NEW c \in Conns, conn[c].pc = "send", AfterReplica(c),
         NEW w \in Senders, w = Head(conn[c].todo),
         NEW l \in Line, l = CurrentLine(c),
         Taken(w)' = Append(Taken(w), l),
         \A r \in Senders \ {w} : Taken(r)' = Taken(r)
  PROVE  OrderInv'
<1> DEFINE t == conn[c].todo
<1>1. conn[c] \in ConnState /\ conn \in [Conns -> ConnState]  BY DEF IInv, TypeOK
<1>2. /\ t \in Seq(Senders) /\ t # << >> /\ w = t[1] /\ 1 \in DOMAIN t
      /\ Tail(t) \in Seq(Senders) /\ DOMAIN Tail(t) = 1..(Len(t) - 1)
      /\ \A k \in DOMAIN Tail(t) : k + 1 \in DOMAIN t /\ Tail(t)[k] = t[k + 1]
  <2>1. t \in Seq(Senders) /\ t # << >>  BY <1>1 DEF IInv, ConnInv, ConnState
  <2>2. DOMAIN t = 1..Len(t) /\ Len(t) \in Nat \ {0} /\ DOMAIN Tail(t) = 1..(Len(t) - 1)
        /\ Tail(t) \in Seq(Senders) /\ Head(t) = t[1]
        /\ \A i \in 1..(Len(t) - 1) : Tail(t)[i] = t[i + 1]
    BY <2>1, SeqEnds
  <2> QED  BY <2>1, <2>2
<1>3. \A d \in Conns : /\ conn'[d].num = conn[d].num
                       /\ conn'[d].todo = IF d = c THEN Tail(t) ELSE conn[d].todo
  BY <1>1 DEF AfterReplica, ConnState
<1>4. l.conn = c /\ l.num = conn[c].num /\ l.num \in Nat  BY DEF CurrentLine, Line
<1>5. \A i, j \in DOMAIN t : t[i] = t[j] => i = j  BY DEF OrderInv, TodoDistinct
<1> HIDE DEF t
<1>6. \A k \in DOMAIN Tail(t) : Tail(t)[k] # w
  <2> SUFFICES ASSUME NEW k \in DOMAIN Tail(t), Tail(t)[k] = w PROVE FALSE
    OBVIOUS
  <2>1. k + 1 = 1  BY <1>2, <1>5
  <2>2. k \in 1..(Len(t) - 1)  BY <1>2
  <2> QED  BY <2>1, <2>2
<1>7. TodoDistinct'
  <2> SUFFICES ASSUME NEW d \in Conns, NEW i \in DOMAIN conn'[d].todo,
                      NEW j \in DOMAIN conn'[d].todo,
                      conn'[d].todo[i] = conn'[d].todo[j]
               PROVE  i = j
    BY DEF TodoDistinct
  <2>1. CASE d = c
    <3>1. i \in DOMAIN Tail(t) /\ j \in DOMAIN Tail(t) /\ Tail(t)[i] = Tail(t)[j]
      BY <1>3, <2>1
    <3>2. i + 1 = j + 1  BY <1>2, <1>5, <3>1
    <3>3. i \in 1..(Len(t) - 1) /\ j \in 1..(Len(t) - 1)  BY <1>2, <3>1
    <3> QED  BY <3>2, <3>3
  <2>2. CASE d # c  BY <1>3, <2>2 DEF OrderInv, TodoDistinct
  <2> QED  BY <2>1, <2>2
\* What holds of a line that a sender had before the step.
<1>8. ASSUME NEW s \in Senders, NEW i \in DOMAIN Taken(s), NEW x, x = Taken(s)[i]
      PROVE  /\ x.conn \in Conns /\ x.num \in Nat
             /\ x.num <= conn'[x.conn].num
             /\ \A k \in DOMAIN conn'[x.conn].todo :
                  conn'[x.conn].todo[k] = s => x.num < conn'[x.conn].num
             /\ s = w /\ x.conn = c => x.num < l.num
  <2>1. Taken(s) \in Seq(Line)  BY TakenType DEF IInv
  <2>2. x \in Line  BY <1>8, <2>1
  <2>3. x.conn \in Conns /\ x.num \in Nat  BY <2>2 DEF Line
  <2>4. /\ x.num <= conn[x.conn].num
        /\ \A k \in DOMAIN conn[x.conn].todo :
             conn[x.conn].todo[k] = s => x.num < conn[x.conn].num
    BY <1>8 DEF OrderInv, NotAhead
  <2>5. CASE x.conn = c
    <3>1. s = w => x.num < l.num  BY <1>2, <1>4, <2>4, <2>5 DEF t
    <3>2. \A k \in DOMAIN Tail(t) : Tail(t)[k] = s => x.num < conn[c].num
      BY <1>2, <2>4, <2>5 DEF t
    <3> QED  BY <1>3, <2>3, <2>4, <2>5, <3>1, <3>2
  <2>6. CASE x.conn # c  BY <1>3, <2>3, <2>4, <2>6
  <2> QED  BY <2>5, <2>6
<1>9. /\ Taken(w) \in Seq(Line) /\ Len(Taken(w)) \in Nat
      /\ DOMAIN Taken(w) = 1..Len(Taken(w))
      /\ DOMAIN Taken(w)' = 1..(Len(Taken(w)) + 1)
      /\ \A i \in DOMAIN Taken(w) : Taken(w)'[i] = Taken(w)[i]
      /\ Taken(w)'[Len(Taken(w)) + 1] = l
  <2>1. Taken(w) \in Seq(Line)  BY TakenType DEF IInv
  <2> QED  BY <2>1, AppendProperties
<1>10. NotAhead'
  <2> SUFFICES ASSUME NEW s \in Senders, NEW i \in DOMAIN Taken(s)'
               PROVE  LET x == Taken(s)'[i] IN
                      /\ x.num <= conn'[x.conn].num
                      /\ \A k \in DOMAIN conn'[x.conn].todo :
                           conn'[x.conn].todo[k] = s => x.num < conn'[x.conn].num
    BY DEF NotAhead
  <2>1. CASE i \in DOMAIN Taken(s) /\ Taken(s)'[i] = Taken(s)[i]
    <3>1. PICK x : x = Taken(s)[i]  OBVIOUS
    <3>2. /\ x.num <= conn'[x.conn].num
          /\ \A k \in DOMAIN conn'[x.conn].todo :
               conn'[x.conn].todo[k] = s => x.num < conn'[x.conn].num
      BY <1>8, <2>1, <3>1
    <3> QED  BY <2>1, <3>1, <3>2
  <2>2. CASE s = w /\ i = Len(Taken(w)) + 1
    <3>1. Taken(s)'[i] = l  BY <1>9, <2>2
    <3>2. conn'[c].todo = Tail(t) /\ conn'[c].num = l.num  BY <1>3, <1>4
    <3>3. \A k \in DOMAIN conn'[c].todo : conn'[c].todo[k] # s
      BY <1>6, <2>2, <3>2
    <3>4. /\ l.num <= conn'[l.conn].num
          /\ \A k \in DOMAIN conn'[l.conn].todo :
               conn'[l.conn].todo[k] = s => l.num < conn'[l.conn].num
      BY <1>4, <3>2, <3>3
    <3> QED  BY <3>1, <3>4, Zenon
  <2>3. s # w => Taken(s)' = Taken(s)  OBVIOUS
  <2>4. s = w => i \in DOMAIN Taken(w) \/ i = Len(Taken(w)) + 1  BY <1>9
  <2> QED  BY <1>9, <2>1, <2>2, <2>3, <2>4
<1>11. PerConnectionOrder'
  <2> SUFFICES ASSUME NEW s \in Senders, NEW i \in DOMAIN Taken(s)',
                      NEW j \in DOMAIN Taken(s)', i < j,
                      Taken(s)'[i].conn = Taken(s)'[j].conn
               PROVE  Taken(s)'[i].num < Taken(s)'[j].num
    BY DEF PerConnectionOrder
  <2>1. CASE s # w
    BY <2>1 DEF OrderInv, PerConnectionOrder
  <2>2. CASE s = w /\ j \in DOMAIN Taken(w)
    <3>1. i \in DOMAIN Taken(w)  BY <1>9, <2>2
    <3> QED  BY <1>9, <2>2, <3>1 DEF OrderInv, PerConnectionOrder
  <2>3. CASE s = w /\ j = Len(Taken(w)) + 1
    <3>1. i \in DOMAIN Taken(w)  BY <1>9, <2>3
    <3> QED  BY <1>4, <1>8, <1>9, <2>3, <3>1
  <2> QED  BY <1>9, <2>1, <2>2, <2>3
<1> QED  BY <1>7, <1>10, <1>11 DEF OrderInv
LEMMA ConnOrder ==
  ASSUME IInv, IInv', OrderInv, NEW c \in Conns, ConnStep(c)
  PROVE  OrderInv'
<1>1. conn \in [Conns -> ConnState]  BY DEF IInv, TypeOK
<1>2. \A d \in Conns : conn[d].num \in Nat  BY <1>1 DEF ConnState
<1>3. ASSUME NEW m \in Metrics, Read(c, m) PROVE OrderInv'
  <2>1. PICK q \in Draws(m) :
          conn' = [conn EXCEPT ![c] = [pc |-> "send", num |-> @.num + 1,
                                       metric |-> m, todo |-> q]]
    BY <1>3 DEF Read
  <2>2. UNCHANGED <<settled, buf, pipe>>  BY <1>3 DEF Read, senderVars
  <2>3. \A r \in Senders : Taken(r)' = Taken(r)  BY <2>2 DEF Taken, LinesOf
  <2>4. \A d \in Conns : IF d = c THEN conn'[d].num = conn[d].num + 1
                                       /\ conn'[d].todo = q
                                  ELSE conn'[d] = conn[d]
    BY <1>1, <2>1
  <2>5. TodoDistinct'
    BY <2>4, DrawsDistinct DEF OrderInv, TodoDistinct
  <2>6. \A d \in Conns : /\ conn[d].num <= conn'[d].num
                         /\ conn'[d].todo = conn[d].todo
                              \/ conn[d].num < conn'[d].num
    BY <1>2, <2>4
  <2> QED  BY <2>3, <2>5, <2>6, KeptOrder
<1>4. ASSUME Reject(c) \/ Close(c) \/ Announce(c) PROVE OrderInv'
  <2>1. UNCHANGED <<settled, buf, pipe>>
    BY <1>4 DEF Reject, Close, Announce, senderVars
  <2>2. \A r \in Senders : Taken(r)' = Taken(r)  BY <2>1 DEF Taken, LinesOf
  <2>3. \A d \in Conns : /\ conn[d].num <= conn'[d].num
                         /\ conn'[d].todo = conn[d].todo
    <3>1. CASE Reject(c)  BY <1>1, <1>2, <3>1 DEF Reject, ConnState
    <3>2. CASE Close(c)  BY <1>1, <1>2, <3>2 DEF Close, ConnState
    <3>3. CASE Announce(c)  BY <1>1, <1>2, <3>3 DEF Announce, ConnState
    <3> QED  BY <1>4, <3>1, <3>2, <3>3
  <2>4. TodoDistinct'  BY <2>3 DEF OrderInv, TodoDistinct
  <2> QED  BY <2>2, <2>3, <2>4, KeptOrder
<1>5. ASSUME Enqueue(c) \/ HandOver(c) PROVE OrderInv'
  <2>1. conn[c].pc = "send" /\ AfterReplica(c)  BY <1>5 DEF Enqueue, HandOver
  <2>2. PICK w \in Senders : w = Head(conn[c].todo)  BY <2>1, AfterReplicaConn
  <2>3. PICK l \in Line : l = CurrentLine(c)  BY <2>1, CurrentLineType
  <2>4. /\ Taken(w)' = Append(Taken(w), l)
        /\ \A r \in Senders \ {w} : Taken(r)' = Taken(r)
    BY <1>5, <2>2, <2>3, EnqueueAppends, HandOverAppends
  <2> QED  BY <2>1, <2>2, <2>3, <2>4, ServeOrder
<1> QED  BY <1>3, <1>4, <1>5 DEF ConnStep

LEMMA StillOrder ==
  ASSUME IInv, IInv', OrderInv, conn' = conn,
         \A r \in Senders : Taken(r)' = Taken(r)
  PROVE  OrderInv'
<1>1. \A d \in Conns : conn[d].num \in Nat  BY DEF IInv, TypeOK, ConnState
<1>2. TodoDistinct'  BY DEF OrderInv, TodoDistinct
<1> QED  BY <1>1, <1>2, KeptOrder

LEMMA StepOrder == IInv /\ OrderInv /\ [Next]_vars => OrderInv'
<1> SUFFICES ASSUME IInv, OrderInv, [Next]_vars PROVE OrderInv'  OBVIOUS
<1>1. IInv'  BY StepIInv
<1>2. CASE UNCHANGED vars
  BY <1>1, <1>2, StillOrder DEF vars, Taken, LinesOf
<1>3. ASSUME NEW c \in Conns, ConnStep(c) PROVE OrderInv'
  BY <1>1, <1>3, ConnOrder
<1>4. ASSUME NEW s \in Senders, SenderStep(s) PROVE OrderInv'
  <2>1. conn' = conn
    BY <1>4 DEF SenderStep, Tick, Receive, TakeTick, PostOk, PostFail, Wake,
                Settle, connVars
  <2>2. \A r \in Senders : Taken(r)' = Taken(r)  BY <1>4, SenderKeepsTaken
  <2> QED  BY <1>1, <2>1, <2>2, StillOrder
<1>5. CASE BogusDelta
  BY <1>1, <1>5, StillOrder DEF BogusDelta, senderVars, Taken, LinesOf
<1> QED  BY <1>2, <1>3, <1>4, <1>5 DEF Next

\* Whatever the number of connections, senders and lines and the capacity of
\* a Pipe, the lines of one connection reach the storage's batches of a sender
\* in the order in which the connection delivered them, each at most once.
THEOREM OrderKept == Spec => []PerConnectionOrder
<1>1. IInv /\ OrderInv /\ [Next]_vars => OrderInv'  BY StepOrder
<1>2. OrderInv => PerConnectionOrder  BY DEF OrderInv
<1> QED  BY InitOrder, Invariance, <1>1, <1>2, PTL DEF Spec

-----------------------------------------------------------------------------
(* Fan-out: which hosts have a line *)

HostsWith(l) == {HostOf[s] : s \in {t \in Senders : l \in Items(Taken(t))}}

\* A sender is drawn for each target, and for no other host.
TodoHosts ==
  \A c \in Conns :
    /\ \A i, j \in DOMAIN conn[c].todo :
         HostOf[conn[c].todo[i]] = HostOf[conn[c].todo[j]] => i = j
    /\ HostsToDo(c) \subseteq TargetHosts(conn[c].metric)
    /\ conn[c].pc = "delta" => conn[c].todo = << >>

\* No two senders of a host have the same line.
OncePerHost ==
  \A s, t \in Senders : \A l \in Items(Taken(s)) \cap Items(Taken(t)) :
    HostOf[s] = HostOf[t] => s = t

\* A line announced is behind its connection.
Announced ==
  \A i \in DOMAIN deltaChan :
    LET l == deltaChan[i] IN
    /\ l.num <= conn[l.conn].num
    /\ conn[l.conn].pc \in {"send", "delta"} => l.num < conn[l.conn].num

HandServed ==
  \A c \in Conns : conn[c].pc \in {"send", "delta"} =>
    HostsWith(CurrentLine(c)) = TargetHosts(conn[c].metric) \ HostsToDo(c)

AnnouncedServed ==
  \A i \in DOMAIN deltaChan :
    HostsWith(deltaChan[i]) = TargetHosts(deltaChan[i].metric)

FanInv == TodoHosts /\ OncePerHost /\ Announced /\ HandServed /\ AnnouncedServed

LEMMA ItemsConcat ==
  ASSUME NEW S, NEW a \in Seq(S), NEW b \in Seq(S)
  PROVE  Items(a \o b) = Items(a) \cup Items(b)
<1>1. /\ Len(a) \in Nat /\ Len(b) \in Nat /\ DOMAIN a = 1..Len(a) /\ DOMAIN b = 1..Len(b)
      /\ DOMAIN (a \o b) = 1..(Len(a) + Len(b))
      /\ \A i \in 1..Len(a) : (a \o b)[i] = a[i]
      /\ \A i \in 1..Len(b) : (a \o b)[Len(a) + i] = b[i]
  OBVIOUS
<1> DEFINE q == a \o b  m == Len(a)  n == Len(b)
<1> HIDE DEF q, m, n
<1>2. /\ m \in Nat /\ n \in Nat /\ DOMAIN a = 1..m /\ DOMAIN b = 1..n
      /\ DOMAIN q = 1..(m + n)
      /\ \A i \in 1..m : q[i] = a[i] /\ i \in 1..(m + n)
      /\ \A i \in 1..n : q[m + i] = b[i] /\ m + i \in 1..(m + n)
  BY <1>1 DEF q, m, n
<1>3. \A i \in 1..(m + n) : i \in 1..m \/ \E k \in 1..n : i = m + k
  <2> TAKE i \in 1..(m + n)
  <2>1. i \notin 1..m => i - m \in 1..n /\ i = m + (i - m)
    BY <1>2
  <2> QED  BY <2>1
<1>4. Items(a) = {a[i] : i \in 1..m} /\ Items(b) = {b[i] : i \in 1..n}
      /\ Items(q) = {q[i] : i \in 1..(m + n)}
  BY <1>2 DEF Items
<1>5. Items(q) \subseteq Items(a) \cup Items(b)
  <2> SUFFICES ASSUME NEW i \in 1..(m + n) PROVE q[i] \in Items(a) \cup Items(b)
    BY <1>4
  <2>1. CASE i \in 1..m
    BY <1>2, <1>4, <2>1
  <2>2. CASE \E k \in 1..n : i = m + k
    BY <1>2, <1>4, <2>2
  <2> QED  BY <1>3, <2>1, <2>2
<1>6. Items(a) \subseteq Items(q) /\ Items(b) \subseteq Items(q)
  BY <1>2, <1>4
<1> QED  BY <1>5, <1>6 DEF q

LEMMA ItemsAppend ==
  ASSUME NEW S, NEW q \in Seq(S), NEW e \in S
  PROVE  Items(Append(q, e)) = Items(q) \cup {e}
<1>1. /\ Len(q) \in Nat /\ DOMAIN q = 1..Len(q) /\ DOMAIN Append(q, e) = 1..(Len(q) + 1)
      /\ \A i \in 1..Len(q) : Append(q, e)[i] = q[i]
      /\ Append(q, e)[Len(q) + 1] = e
  OBVIOUS
<1>2. 1..(Len(q) + 1) = 1..Len(q) \cup {Len(q) + 1}
  BY <1>1
<1> QED  BY <1>1, <1>2 DEF Items

LEMMA ItemsHeadTail ==
  ASSUME NEW S, NEW q \in Seq(S), q # << >>
  PROVE  Items(q) = {Head(q)} \cup Items(Tail(q))
<1>1. /\ Len(q) \in Nat \ {0} /\ DOMAIN q = 1..Len(q) /\ Head(q) = q[1]
      /\ DOMAIN Tail(q) = 1..(Len(q) - 1)
      /\ \A i \in 1..(Len(q) - 1) : Tail(q)[i] = q[i + 1] /\ i + 1 \in 1..Len(q)
  BY SeqEnds
<1>2. \A i \in 1..Len(q) : i = 1 \/ \E k \in 1..(Len(q) - 1) : i = k + 1
  <2> TAKE i \in 1..Len(q)
  <2>1. i # 1 => i - 1 \in 1..(Len(q) - 1) /\ i = (i - 1) + 1
    BY <1>1
  <2> QED  BY <2>1
<1>3. Items(q) = {q[i] : i \in 1..Len(q)}
      /\ Items(Tail(q)) = {Tail(q)[i] : i \in 1..(Len(q) - 1)}
  BY <1>1 DEF Items
<1>4. Items(q) \subseteq {Head(q)} \cup Items(Tail(q))
  <2> SUFFICES ASSUME NEW i \in 1..Len(q) PROVE q[i] \in {Head(q)} \cup Items(Tail(q))
    BY <1>3
  <2>1. CASE i = 1
    BY <1>1, <2>1
  <2>2. CASE \E k \in 1..(Len(q) - 1) : i = k + 1
    BY <1>1, <1>3, <2>2
  <2> QED  BY <1>2, <2>1, <2>2
<1>5. Items(Tail(q)) \subseteq Items(q)
  BY <1>1, <1>3
<1>6. Head(q) \in Items(q)
  <2>1. 1 \in 1..Len(q)
    BY <1>1
  <2> QED  BY <1>1, <1>3, <2>1
<1> QED  BY <1>4, <1>5, <1>6

\* What a sender has is a line its connection has read.
LEMMA TakenRead ==
  ASSUME IInv, OrderInv, NEW s \in Senders, NEW l \in Items(Taken(s))
  PROVE  l \in Line /\ l.conn \in Conns /\ l.num \in Nat /\ l.num <= conn[l.conn].num
<1>1. PICK i \in DOMAIN Taken(s) : Taken(s)[i] = l
  BY DEF Items
<1>2. Taken(s) \in Seq(Line)
  BY TakenType DEF IInv
<1>3. l \in Line
  BY <1>1, <1>2
<1>4. l.num <= conn[l.conn].num
  BY <1>1 DEF OrderInv, NotAhead
<1> QED  BY <1>3, <1>4 DEF Line

LEMMA InitFan == Init => FanInv
<1> SUFFICES ASSUME Init PROVE FanInv
  OBVIOUS
<1>1. \A c \in Conns : conn[c].todo = << >> /\ conn[c].pc = "read"
  BY DEF Init
<1>2. \A s \in Senders : Items(Taken(s)) = {}
  <2> TAKE s \in Senders
  <2>1. Taken(s) = << >>
    <3>1. settled[s] = << >> /\ buf[s] = << >> /\ pipe[s] = << >>
      BY DEF Init
    <3>2. LinesOf(<< >>) = << >>
      BY DEF LinesOf
    <3> QED  BY <3>1, <3>2 DEF Taken
  <2> QED  BY <2>1 DEF Items
<1>3. deltaChan = << >>
  BY DEF Init
<1> QED  BY <1>1, <1>2, <1>3
         DEF FanInv, TodoHosts, OncePerHost, Announced, HandServed, AnnouncedServed,
             HostsToDo, Items

LEMMA SameHosts ==
  ASSUME \A s \in Senders : Taken(s)' = Taken(s)
  PROVE  \A l : HostsWith(l)' = HostsWith(l)
BY DEF HostsWith, Items

\* Steps that give no sender a line and do not read one.
LEMMA KeptFan ==
  ASSUME IInv, IInv', FanInv, \A s \in Senders : Taken(s)' = Taken(s),
         \A d \in Conns : /\ conn'[d].todo = conn[d].todo /\ conn'[d].metric = conn[d].metric
                          /\ conn[d].num <= conn'[d].num
                          /\ conn'[d].pc \in {"send", "delta"} => conn'[d] = conn[d],
         \A i \in DOMAIN deltaChan' : \E k \in DOMAIN deltaChan : deltaChan'[i] = deltaChan[k]
  PROVE  FanInv'
<1>1. TodoHosts'
  <2>1. \A d \in Conns : conn'[d].pc = "delta" => conn'[d].todo = << >>
    BY DEF FanInv, TodoHosts
  <2>2. \A d \in Conns : HostsToDo(d)' = HostsToDo(d)
    BY DEF HostsToDo, Items
  <2>3. \A d \in Conns : HostsToDo(d)' \subseteq TargetHosts(conn'[d].metric)
    BY <2>2 DEF FanInv, TodoHosts
  <2> QED  BY <2>1, <2>3 DEF FanInv, TodoHosts, TargetHosts, Targets, Items
<1>2. OncePerHost'
  BY DEF FanInv, OncePerHost, Items
<1>3. Announced'
  <2> SUFFICES ASSUME NEW i \in DOMAIN deltaChan'
               PROVE  LET l == deltaChan'[i] IN
                      /\ l.num <= conn'[l.conn].num
                      /\ conn'[l.conn].pc \in {"send", "delta"} => l.num < conn'[l.conn].num
    BY DEF Announced
  <2>1. PICK k \in DOMAIN deltaChan : deltaChan'[i] = deltaChan[k]
    OBVIOUS
  <2> DEFINE l == deltaChan[k]
  <2>2. l \in Line
    BY DEF IInv, TypeOK
  <2>3. l.conn \in Conns /\ l.num \in Nat
    BY <2>2 DEF Line
  <2>4. /\ l.num <= conn[l.conn].num
        /\ conn[l.conn].pc \in {"send", "delta"} => l.num < conn[l.conn].num
    BY DEF FanInv, Announced
  <2> HIDE DEF l
  <2>5. conn[l.conn].num \in Nat /\ conn'[l.conn].num \in Nat
    BY <2>3 DEF IInv, TypeOK, ConnState
  <2>6. /\ l.num <= conn'[l.conn].num
        /\ conn'[l.conn].pc \in {"send", "delta"} => l.num < conn'[l.conn].num
    BY <2>3, <2>4, <2>5
  <2> QED  BY <2>1, <2>6 DEF l
<1>4. HandServed'
  <2> SUFFICES ASSUME NEW d \in Conns, conn'[d].pc \in {"send", "delta"}
               PROVE  HostsWith(CurrentLine(d))' =
                        TargetHosts(conn'[d].metric) \ HostsToDo(d)'
    BY DEF HandServed, TargetHosts, Targets, Single, Items
  <2>1. conn'[d] = conn[d]
    OBVIOUS
  <2>2. CurrentLine(d)' = CurrentLine(d) /\ HostsToDo(d)' = HostsToDo(d)
    BY <2>1 DEF CurrentLine, HostsToDo, Items
  <2>3. HostsWith(CurrentLine(d)) = TargetHosts(conn[d].metric) \ HostsToDo(d)
    BY <2>1 DEF FanInv, HandServed
  <2> QED  BY <2>1, <2>2, <2>3, SameHosts
<1>5. AnnouncedServed'
  <2> SUFFICES ASSUME NEW i \in DOMAIN deltaChan'
               PROVE  HostsWith(deltaChan[i])' = TargetHosts(deltaChan'[i].metric)
    BY DEF AnnouncedServed, TargetHosts, Targets, Single, Items
  <2>1. PICK k \in DOMAIN deltaChan : deltaChan'[i] = deltaChan[k]
    OBVIOUS
  <2> QED  BY <2>1, SameHosts DEF FanInv, AnnouncedServed
<1> QED  BY <1>1, <1>2, <1>3, <1>4, <1>5 DEF FanInv

\* Nobody has a line that was not read yet.
LEMMA ReadFan ==
  ASSUME IInv, IInv', OrderInv, FanInv, NEW c \in Conns, NEW m \in Metrics, Read(c, m)
  PROVE  FanInv'
<1>1. PICK q \in Draws(m) :
        conn' = [conn EXCEPT ![c] = [pc |-> "send", num |-> @.num + 1,
                                     metric |-> m, todo |-> q]]
  BY DEF Read
<1>2. /\ conn \in [Conns -> ConnState] /\ conn[c].pc = "read"
      /\ \A d \in Conns : conn[d].num \in Nat
  BY DEF IInv, TypeOK, ConnState, Read
<1>3. /\ conn'[c].pc = "send" /\ conn'[c].num = conn[c].num + 1
      /\ conn'[c].metric = m /\ conn'[c].todo = q
      /\ \A d \in Conns : d # c => conn'[d] = conn[d]
  BY <1>1, <1>2
<1>4. UNCHANGED <<settled, buf, pipe, deltaChan>>
  BY DEF Read, senderVars
<1>5. \A s \in Senders : Taken(s)' = Taken(s)
  BY <1>4 DEF Taken, LinesOf
<1>6. /\ HostsToDo(c)' = TargetHosts(m)
      /\ \A d \in Conns : d # c => HostsToDo(d)' = HostsToDo(d)
  <2>1. DOMAIN q = DOMAIN Targets(m) /\ \A i \in DOMAIN q : HostOf[q[i]] = Targets(m)[i]
    BY DEF Draws
  <2>2. HostsToDo(c)' = {HostOf[q[i]] : i \in DOMAIN q}
    BY <1>3 DEF HostsToDo, Items
  <2>3. TargetHosts(m) = {HostOf[q[i]] : i \in DOMAIN q}
    BY <2>1 DEF TargetHosts, Items
  <2> QED  BY <1>3, <2>2, <2>3 DEF HostsToDo, Items
<1>7. TodoHosts'
  <2>1. ASSUME NEW i \in DOMAIN q, NEW j \in DOMAIN q, HostOf[q[i]] = HostOf[q[j]]
        PROVE  i = j
    <3>1. i \in DOMAIN Targets(m) /\ j \in DOMAIN Targets(m) /\ Targets(m)[i] = Targets(m)[j]
      BY <2>1 DEF Draws
    <3>2. CASE Single
      <4>1. DOMAIN Targets(m) = {1}  BY <3>2 DEF Targets
      <4> QED  BY <3>1, <4>1
    <3>3. CASE ~Single
      BY <3>1, <3>3, ReplicasAssumption DEF Targets
    <3> QED  BY <3>2, <3>3
  <2> SUFFICES ASSUME NEW d \in Conns
               PROVE  /\ \A i, j \in DOMAIN conn'[d].todo :
                           HostOf[conn'[d].todo[i]] = HostOf[conn'[d].todo[j]] => i = j
                      /\ HostsToDo(d)' \subseteq TargetHosts(conn'[d].metric)
                      /\ conn'[d].pc = "delta" => conn'[d].todo = << >>
    BY DEF TodoHosts, TargetHosts, Targets, Single, Items
  <2>2. CASE d = c
    BY <1>3, <1>6, <2>1, <2>2
  <2>3. CASE d # c
    BY <1>3, <1>6, <2>3 DEF FanInv, TodoHosts
  <2> QED  BY <2>2, <2>3
<1>8. OncePerHost'
  BY <1>5 DEF FanInv, OncePerHost, Items
<1>9. Announced'
  <2> SUFFICES ASSUME NEW i \in DOMAIN deltaChan
               PROVE  LET l == deltaChan[i] IN
                      /\ l.num <= conn'[l.conn].num
                      /\ conn'[l.conn].pc \in {"send", "delta"} => l.num < conn'[l.conn].num
    BY <1>4 DEF Announced
  <2> DEFINE l == deltaChan[i]
  <2>1. l \in Line
    BY DEF IInv, TypeOK
  <2>2. l.conn \in Conns /\ l.num \in Nat
    BY <2>1 DEF Line
  <2>3. /\ l.num <= conn[l.conn].num
        /\ conn[l.conn].pc \in {"send", "delta"} => l.num < conn[l.conn].num
    BY DEF FanInv, Announced
  <2> HIDE DEF l
  <2>4. /\ l.num <= conn'[l.conn].num
        /\ conn'[l.conn].pc \in {"send", "delta"} => l.num < conn'[l.conn].num
    <3>1. CASE l.conn = c
      BY <1>2, <1>3, <2>2, <2>3, <3>1
    <3>2. CASE l.conn # c
      BY <1>3, <2>2, <2>3, <3>2
    <3> QED  BY <3>1, <3>2
  <2> QED  BY <2>4 DEF l
<1>10. HandServed'
  <2> SUFFICES ASSUME NEW d \in Conns, conn'[d].pc \in {"send", "delta"}
               PROVE  HostsWith(CurrentLine(d))' =
                        TargetHosts(conn'[d].metric) \ HostsToDo(d)'
    BY DEF HandServed, TargetHosts, Targets, Single, Items
  <2>1. CASE d = c
    <3>0. PICK l : l = [conn |-> c, num |-> conn[c].num + 1, metric |-> m]
      OBVIOUS
    <3>1. CurrentLine(d)' = l
      BY <1>3, <2>1, <3>0 DEF CurrentLine
    <3>2. ASSUME NEW s \in Senders PROVE l \notin Items(Taken(s))
      <4>1. ~(conn[c].num + 1 <= conn[c].num)
        BY <1>2
      <4> QED  BY <3>0, <4>1, TakenRead
    <3>3. HostsWith(l) = {}
      BY <3>2 DEF HostsWith
    <3>4. HostsWith(l)' = {}
      BY <1>5, <3>3, SameHosts
    <3> QED  BY <1>3, <1>6, <2>1, <3>1, <3>4
  <2>2. CASE d # c
    <3>1. CurrentLine(d)' = CurrentLine(d) /\ HostsToDo(d)' = HostsToDo(d)
      BY <1>3, <1>6, <2>2 DEF CurrentLine
    <3>2. HostsWith(CurrentLine(d)) = TargetHosts(conn[d].metric) \ HostsToDo(d)
      BY <1>3, <2>2 DEF FanInv, HandServed
    <3> QED  BY <1>3, <1>5, <2>2, <3>1, <3>2, SameHosts
  <2> QED  BY <2>1, <2>2
<1>11. AnnouncedServed'
  <2> SUFFICES ASSUME NEW i \in DOMAIN deltaChan'
               PROVE  HostsWith(deltaChan[i])' = TargetHosts(deltaChan'[i].metric)
    BY DEF AnnouncedServed, TargetHosts, Targets, Single, Items
  <2> QED  BY <1>4, <1>5, SameHosts DEF FanInv, AnnouncedServed
<1> QED  BY <1>7, <1>8, <1>9, <1>10, <1>11 DEF FanInv

\* When a line is announced all its targets have it.
LEMMA AnnounceFan ==
  ASSUME IInv, IInv', FanInv, NEW c \in Conns, Announce(c)
  PROVE  FanInv'
<1> DEFINE l == CurrentLine(c)
<1>1. /\ conn \in [Conns -> ConnState] /\ conn[c].pc = "delta"
      /\ conn' = [conn EXCEPT ![c].pc = "read"] /\ deltaChan' = Append(deltaChan, l)
      /\ UNCHANGED <<settled, buf, pipe>>
  BY DEF Announce, IInv, TypeOK, senderVars
<1>2. /\ \A d \in Conns : /\ conn'[d].todo = conn[d].todo /\ conn'[d].metric = conn[d].metric
                          /\ conn'[d].num = conn[d].num
                          /\ conn'[d].pc = IF d = c THEN "read" ELSE conn[d].pc
                          /\ d # c => conn'[d] = conn[d]
      /\ \A d \in Conns : conn[d].num \in Nat
  BY <1>1 DEF ConnState
<1>3. l \in Line /\ l.conn = c /\ l.num = conn[c].num /\ l.metric = conn[c].metric
  BY <1>1, CurrentLineType DEF CurrentLine
<1>4. \A s \in Senders : Taken(s)' = Taken(s)
  BY <1>1 DEF Taken, LinesOf
<1>5. HostsWith(l) = TargetHosts(l.metric)
  <2>1. HostsWith(l) = TargetHosts(conn[c].metric) \ HostsToDo(c)
    BY <1>1 DEF FanInv, HandServed
  <2>2. HostsToDo(c) = {}
    BY <1>1 DEF FanInv, TodoHosts, HostsToDo, Items
  <2> QED  BY <1>3, <2>1, <2>2
<1> HIDE DEF l
<1>6. \A i \in DOMAIN deltaChan' :
        deltaChan'[i] = l \/ \E k \in DOMAIN deltaChan : deltaChan'[i] = deltaChan[k]
  <2>1. deltaChan \in Seq(Line)
    BY DEF IInv, TypeOK
  <2>2. /\ Len(deltaChan) \in Nat /\ DOMAIN deltaChan = 1..Len(deltaChan)
        /\ DOMAIN deltaChan' = 1..(Len(deltaChan) + 1)
        /\ \A i \in 1..Len(deltaChan) : deltaChan'[i] = deltaChan[i]
        /\ deltaChan'[Len(deltaChan) + 1] = l
    BY <1>1, <1>3, <2>1
  <2>3. 1..(Len(deltaChan) + 1) = 1..Len(deltaChan) \cup {Len(deltaChan) + 1}
    BY <2>2
  <2> QED  BY <2>2, <2>3
<1>7. TodoHosts' /\ OncePerHost'
  <2>1. \A d \in Conns : HostsToDo(d)' = HostsToDo(d)
    BY <1>2 DEF HostsToDo, Items
  <2>2. TodoHosts'
    BY <1>2, <2>1 DEF FanInv, TodoHosts, TargetHosts, Targets, Items
  <2> QED  BY <1>4, <2>2 DEF FanInv, OncePerHost, Items
<1>8. Announced'
  <2> SUFFICES ASSUME NEW i \in DOMAIN deltaChan', NEW x, x = deltaChan'[i]
               PROVE  /\ x.num <= conn'[x.conn].num
                      /\ conn'[x.conn].pc \in {"send", "delta"} => x.num < conn'[x.conn].num
    BY DEF Announced
  <2>1. CASE x = l
    BY <1>2, <1>3, <2>1
  <2>2. CASE \E k \in DOMAIN deltaChan : x = deltaChan[k]
    <3>1. PICK k \in DOMAIN deltaChan : x = deltaChan[k]
      BY <2>2
    <3>2. x \in Line
      BY <3>1 DEF IInv, TypeOK
    <3>3. x.conn \in Conns
      BY <3>2 DEF Line
    <3>4. /\ x.num <= conn[x.conn].num
          /\ conn[x.conn].pc \in {"send", "delta"} => x.num < conn[x.conn].num
      BY <3>1 DEF FanInv, Announced
    <3> QED  BY <1>2, <3>3, <3>4
  <2> QED  BY <1>6, <2>1, <2>2
<1>9. HandServed'
  <2> SUFFICES ASSUME NEW d \in Conns, conn'[d].pc \in {"send", "delta"}
               PROVE  HostsWith(CurrentLine(d))' =
                        TargetHosts(conn'[d].metric) \ HostsToDo(d)'
    BY DEF HandServed, TargetHosts, Targets, Single, Items
  <2>1. conn'[d] = conn[d]
    BY <1>2
  <2>2. CurrentLine(d)' = CurrentLine(d) /\ HostsToDo(d)' = HostsToDo(d)
    BY <2>1 DEF CurrentLine, HostsToDo, Items
  <2>3. HostsWith(CurrentLine(d)) = TargetHosts(conn[d].metric) \ HostsToDo(d)
    BY <2>1 DEF FanInv, HandServed
  <2> QED  BY <1>4, <2>1, <2>2, <2>3, SameHosts
<1>10. AnnouncedServed'
  <2> SUFFICES ASSUME NEW i \in DOMAIN deltaChan'
               PROVE  HostsWith(deltaChan[i])' = TargetHosts(deltaChan'[i].metric)
    BY DEF AnnouncedServed, TargetHosts, Targets, Single, Items
  <2> QED  BY <1>4, <1>5, <1>6, SameHosts DEF FanInv, AnnouncedServed
<1> QED  BY <1>7, <1>8, <1>9, <1>10 DEF FanInv

\* What serving the sender w does to the connection.
LEMMA ServedConn ==
  ASSUME IInv, FanInv, NEW c \in Conns, conn[c].pc = "send", AfterReplica(c),
         NEW w \in Senders, w = Head(conn[c].todo)
  PROVE  /\ \A d \in Conns : /\ conn'[d].num = conn[d].num
                             /\ conn'[d].metric = conn[d].metric
                             /\ d # c => conn'[d] = conn[d]
         /\ conn'[c].todo = Tail(conn[c].todo)
         /\ conn'[c].pc \in {"send", "delta"}
         /\ conn'[c].pc = "delta" => conn'[c].todo = << >>
         /\ HostOf[w] \in HostsToDo(c)
         /\ HostsToDo(c)' = HostsToDo(c) \ {HostOf[w]}
         /\ \A d \in Conns : d # c => HostsToDo(d)' = HostsToDo(d)
         /\ \A i, j \in DOMAIN conn'[c].todo :
              HostOf[conn'[c].todo[i]] = HostOf[conn'[c].todo[j]] => i = j
<1>1. conn \in [Conns -> ConnState]
  BY DEF IInv, TypeOK
<1>2. PICK t : t = conn[c].todo
  OBVIOUS
<1>3. /\ t \in Seq(Senders) /\ t # << >>
      /\ \A i, j \in DOMAIN t : HostOf[t[i]] = HostOf[t[j]] => i = j
  BY <1>1, <1>2 DEF IInv, ConnInv, ConnState, FanInv, TodoHosts
<1>4. /\ Len(t) \in Nat \ {0} /\ DOMAIN t = 1..Len(t) /\ w = t[1]
      /\ DOMAIN Tail(t) = 1..(Len(t) - 1) /\ Tail(t) \in Seq(Senders)
      /\ Len(Tail(t)) = Len(t) - 1
      /\ \A i \in 1..(Len(t) - 1) : Tail(t)[i] = t[i + 1] /\ i + 1 \in 1..Len(t)
  BY <1>2, <1>3, SeqEnds
<1>5. /\ \A d \in Conns : /\ conn'[d].num = conn[d].num /\ conn'[d].metric = conn[d].metric
                          /\ d # c => conn'[d] = conn[d]
      /\ conn'[c].todo = Tail(t)
      /\ conn'[c].pc = IF Len(t) = 1 THEN "delta" ELSE "send"
  BY <1>1, <1>2 DEF AfterReplica, ConnState
<1>6. Len(t) = 1 => Tail(t) = << >>
  BY <1>4
<1>7. ASSUME NEW i \in DOMAIN Tail(t), NEW j \in DOMAIN Tail(t),
             HostOf[Tail(t)[i]] = HostOf[Tail(t)[j]]
      PROVE  i = j
  <2>1. i \in 1..(Len(t) - 1) /\ j \in 1..(Len(t) - 1)
    BY <1>4
  <2>2. i + 1 = j + 1
    BY <1>3, <1>4, <1>7, <2>1
  <2> QED  BY <2>1, <2>2
<1>8. ASSUME NEW i \in DOMAIN Tail(t) PROVE HostOf[Tail(t)[i]] # HostOf[w]
  <2> SUFFICES ASSUME HostOf[Tail(t)[i]] = HostOf[w] PROVE FALSE
    OBVIOUS
  <2>1. i \in 1..(Len(t) - 1)
    BY <1>4
  <2>2. i + 1 = 1
    BY <1>3, <1>4, <2>1
  <2> QED  BY <2>1, <2>2
<1>9. Items(t) = {w} \cup Items(Tail(t))
  BY <1>2, <1>3, ItemsHeadTail
<1>10. HostsToDo(c) = {HostOf[s] : s \in Items(t)}
  BY <1>2 DEF HostsToDo
<1>11. HostsToDo(c)' = {HostOf[s] : s \in Items(Tail(t))}
  BY <1>5 DEF HostsToDo, Items
<1>12. \A s \in Items(Tail(t)) : HostOf[s] # HostOf[w]
  BY <1>8 DEF Items
<1>13. HostsToDo(c)' = HostsToDo(c) \ {HostOf[w]} /\ HostOf[w] \in HostsToDo(c)
  BY <1>9, <1>10, <1>11, <1>12
<1>14. \A d \in Conns : d # c => HostsToDo(d)' = HostsToDo(d)
  BY <1>5 DEF HostsToDo, Items
<1> QED  BY <1>2, <1>5, <1>6, <1>7, <1>13, <1>14

\* What serving the sender w does to the hosts that have a line.
LEMMA ServedHosts ==
  ASSUME IInv, NEW w \in Senders, NEW l \in Line,
         Taken(w)' = Append(Taken(w), l),
         \A r \in Senders \ {w} : Taken(r)' = Taken(r)
  PROVE  /\ Items(Taken(w))' = Items(Taken(w)) \cup {l}
         /\ \A r \in Senders \ {w} : Items(Taken(r))' = Items(Taken(r))
         /\ HostsWith(l)' = HostsWith(l) \cup {HostOf[w]}
         /\ \A x : x # l => HostsWith(x)' = HostsWith(x)
<1>1. Taken(w) \in Seq(Line)
  BY TakenType DEF IInv
<1>2. Items(Append(Taken(w), l)) = Items(Taken(w)) \cup {l}
  BY <1>1, ItemsAppend
<1>3. Items(Taken(w))' = Items(Taken(w)) \cup {l}
  BY <1>2 DEF Items
<1>4. \A r \in Senders \ {w} : Items(Taken(r))' = Items(Taken(r))
  BY DEF Items
<1>5. \A x : HostsWith(x)' = {HostOf[s] : s \in {t \in Senders : x \in Items(Taken(t))'}}
  BY DEF HostsWith
<1>6. HostsWith(l)' = HostsWith(l) \cup {HostOf[w]}
  <2>1. {t \in Senders : l \in Items(Taken(t))'}
          = {t \in Senders : l \in Items(Taken(t))} \cup {w}
    BY <1>3, <1>4
  <2> QED  BY <1>5, <2>1 DEF HostsWith
<1>7. ASSUME NEW x, x # l PROVE HostsWith(x)' = HostsWith(x)
  <2>1. {t \in Senders : x \in Items(Taken(t))'} = {t \in Senders : x \in Items(Taken(t))}
    BY <1>3, <1>4, <1>7
  <2> QED  BY <1>5, <2>1 DEF HostsWith
<1> QED  BY <1>3, <1>4, <1>6, <1>7

\* The sender served is of a host that has not got the line yet.
LEMMA ServeFan ==
  ASSUME IInv, IInv', OrderInv, FanInv, NEW c \in Conns, conn[c].pc = "send",
         AfterReplica(c), UNCHANGED deltaChan,
         NEW w \in Senders, w = Head(conn[c].todo),
         NEW l \in Line, l = CurrentLine(c),
         Taken(w)' = Append(Taken(w), l),
         \A r \in Senders \ {w} : Taken(r)' = Taken(r)
  PROVE  FanInv'
<1>1. /\ \A d \in Conns : /\ conn'[d].num = conn[d].num
                          /\ conn'[d].metric = conn[d].metric
                          /\ d # c => conn'[d] = conn[d]
      /\ conn'[c].pc \in {"send", "delta"}
      /\ conn'[c].pc = "delta" => conn'[c].todo = << >>
      /\ HostOf[w] \in HostsToDo(c)
      /\ HostsToDo(c)' = HostsToDo(c) \ {HostOf[w]}
      /\ \A d \in Conns : d # c => HostsToDo(d)' = HostsToDo(d)
      /\ \A i, j \in DOMAIN conn'[c].todo :
           HostOf[conn'[c].todo[i]] = HostOf[conn'[c].todo[j]] => i = j
  BY ServedConn
<1>2. /\ Items(Taken(w))' = Items(Taken(w)) \cup {l}
      /\ \A r \in Senders \ {w} : Items(Taken(r))' = Items(Taken(r))
      /\ HostsWith(l)' = HostsWith(l) \cup {HostOf[w]}
      /\ \A x : x # l => HostsWith(x)' = HostsWith(x)
  BY ServedHosts
<1>3. l.conn = c /\ l.num = conn[c].num /\ l.metric = conn[c].metric /\ l.num \in Nat
  BY DEF CurrentLine, Line
<1>4. HostsWith(l) = TargetHosts(l.metric) \ HostsToDo(c)
      /\ HostsToDo(c) \subseteq TargetHosts(l.metric)
  BY <1>3 DEF FanInv, HandServed, TodoHosts
<1>5. HostOf[w] \notin HostsWith(l)
  BY <1>1, <1>4
<1>6. TodoHosts'
  <2> SUFFICES ASSUME NEW d \in Conns
               PROVE  /\ \A i, j \in DOMAIN conn'[d].todo :
                           HostOf[conn'[d].todo[i]] = HostOf[conn'[d].todo[j]] => i = j
                      /\ HostsToDo(d)' \subseteq TargetHosts(conn'[d].metric)
                      /\ conn'[d].pc = "delta" => conn'[d].todo = << >>
    BY DEF TodoHosts, TargetHosts, Targets, Single, Items
  <2>1. CASE d = c
    BY <1>1, <1>3, <1>4, <2>1
  <2>2. CASE d # c
    BY <1>1, <2>2 DEF FanInv, TodoHosts
  <2> QED  BY <2>1, <2>2
<1>7. OncePerHost'
  <2> SUFFICES ASSUME NEW s \in Senders, NEW t \in Senders,
                      NEW x \in Items(Taken(s))', x \in Items(Taken(t))',
                      HostOf[s] = HostOf[t]
               PROVE  s = t
    BY DEF OncePerHost
  <2>1. CASE x # l
    BY <1>2, <2>1 DEF FanInv, OncePerHost
  <2>2. CASE x = l
    <3>1. \A r \in Senders : l \in Items(Taken(r)) => HostOf[r] # HostOf[w]
      BY <1>5 DEF HostsWith
    <3>2. CASE s = w \/ t = w
      BY <1>2, <2>2, <3>1, <3>2
    <3>3. CASE s # w /\ t # w
      BY <1>2, <2>2, <3>3 DEF FanInv, OncePerHost
    <3> QED  BY <3>2, <3>3
  <2> QED  BY <2>1, <2>2
<1>8. ASSUME NEW i \in DOMAIN deltaChan, NEW x, x = deltaChan[i]
      PROVE  /\ x # l /\ x.num <= conn'[x.conn].num
             /\ conn'[x.conn].pc \in {"send", "delta"} => x.num < conn'[x.conn].num
  <2>1. x \in Line
    BY <1>8 DEF IInv, TypeOK
  <2>2. x.conn \in Conns /\ x.num \in Nat
    BY <2>1 DEF Line
  <2>3. /\ x.num <= conn[x.conn].num
        /\ conn[x.conn].pc \in {"send", "delta"} => x.num < conn[x.conn].num
    BY <1>8 DEF FanInv, Announced
  <2>4. CASE x.conn = c
    BY <1>1, <1>3, <2>2, <2>3, <2>4
  <2>5. CASE x.conn # c
    BY <1>1, <1>3, <2>2, <2>3, <2>5
  <2> QED  BY <2>4, <2>5
<1>9. Announced'
  BY <1>8 DEF Announced
<1>10. HandServed'
  <2> SUFFICES ASSUME NEW d \in Conns, conn'[d].pc \in {"send", "delta"}
               PROVE  HostsWith(CurrentLine(d))' =
                        TargetHosts(conn'[d].metric) \ HostsToDo(d)'
    BY DEF HandServed, TargetHosts, Targets, Single, Items
  <2>1. CASE d = c
    <3>1. CurrentLine(d)' = l
      BY <1>1, <2>1 DEF CurrentLine
    <3>2. HostsWith(CurrentLine(d))' = HostsWith(l)'
      BY <3>1 DEF HostsWith
    <3>3. conn'[d].metric = l.metric
      BY <1>1, <1>3, <2>1
    <3> QED  BY <1>1, <1>2, <1>4, <2>1, <3>2, <3>3
  <2>2. CASE d # c
    <3>1. PICK x : x = CurrentLine(d)
      OBVIOUS
    <3>2. x # l /\ CurrentLine(d)' = x /\ HostsToDo(d)' = HostsToDo(d)
      BY <1>1, <1>3, <2>2, <3>1 DEF CurrentLine
    <3>3. HostsWith(x) = TargetHosts(conn[d].metric) \ HostsToDo(d)
      BY <1>1, <2>2, <3>1 DEF FanInv, HandServed
    <3>4. HostsWith(CurrentLine(d))' = HostsWith(x)'
      BY <3>2 DEF HostsWith
    <3> QED  BY <1>1, <1>2, <2>2, <3>2, <3>3, <3>4
  <2> QED  BY <2>1, <2>2
<1>11. AnnouncedServed'
  <2> SUFFICES ASSUME NEW i \in DOMAIN deltaChan
               PROVE  HostsWith(deltaChan[i])' = TargetHosts(deltaChan'[i].metric)
    BY DEF AnnouncedServed, TargetHosts, Targets, Single, Items
  <2>1. PICK x : x = deltaChan[i]
    OBVIOUS
  <2>2. x # l
    BY <1>8, <2>1
  <2>3. HostsWith(deltaChan[i])' = HostsWith(x)'
    BY <2>1 DEF HostsWith
  <2> QED  BY <1>2, <2>1, <2>2, <2>3 DEF FanInv, AnnouncedServed
<1> QED  BY <1>6, <1>7, <1>9, <1>10, <1>11 DEF FanInv

LEMMA ConnFan ==
  ASSUME IInv, IInv', OrderInv, FanInv, NEW c \in Conns, ConnStep(c)
  PROVE  FanInv'
<1>1. conn \in [Conns -> ConnState] /\ \A d \in Conns : conn[d].num \in Nat
  BY DEF IInv, TypeOK, ConnState
<1>2. ASSUME NEW m \in Metrics, Read(c, m) PROVE FanInv'
  BY <1>2, ReadFan
<1>3. ASSUME Reject(c) \/ Close(c) PROVE FanInv'
  <2>1. UNCHANGED <<settled, buf, pipe, deltaChan>>
    BY <1>3 DEF Reject, Close, senderVars
  <2>2. \A r \in Senders : Taken(r)' = Taken(r)
    BY <2>1 DEF Taken, LinesOf
  <2>3. \A d \in Conns : /\ conn'[d].todo = conn[d].todo /\ conn'[d].metric = conn[d].metric
                         /\ conn[d].num <= conn'[d].num
                         /\ conn'[d].pc \in {"send", "delta"} => conn'[d] = conn[d]
    <3>1. CASE Reject(c)  BY <1>1, <3>1 DEF Reject, ConnState
    <3>2. CASE Close(c)   BY <1>1, <3>2 DEF Close, ConnState
    <3> QED  BY <1>3, <3>1, <3>2
  <2> QED  BY <2>1, <2>2, <2>3, KeptFan
<1>4. ASSUME Enqueue(c) \/ HandOver(c) PROVE FanInv'
  <2>1. conn[c].pc = "send" /\ AfterReplica(c) /\ UNCHANGED deltaChan
    BY <1>4 DEF Enqueue, HandOver
  <2>2. PICK w \in Senders : w = Head(conn[c].todo)
    BY <2>1, AfterReplicaConn
  <2>3. PICK l \in Line : l = CurrentLine(c)
    BY <2>1, CurrentLineType
  <2>4. /\ Taken(w)' = Append(Taken(w), l)
        /\ \A r \in Senders \ {w} : Taken(r)' = Taken(r)
    BY <1>4, <2>2, <2>3, EnqueueAppends, HandOverAppends
  <2> QED  BY <2>1, <2>2, <2>3, <2>4, ServeFan
<1>5. ASSUME Announce(c) PROVE FanInv'
  BY <1>5, AnnounceFan
<1> QED  BY <1>2, <1>3, <1>4, <1>5 DEF ConnStep

LEMMA StillFan ==
  ASSUME IInv, IInv', FanInv, UNCHANGED conn, \A r \in Senders : Taken(r)' = Taken(r),
         \A i \in DOMAIN deltaChan' : \E k \in DOMAIN deltaChan : deltaChan'[i] = deltaChan[k]
  PROVE  FanInv'
<1>1. \A d \in Conns : conn[d].num \in Nat
  BY DEF IInv, TypeOK, ConnState
<1> QED  BY <1>1, KeptFan

LEMMA StepFan == IInv /\ OrderInv /\ FanInv /\ [Next]_vars => FanInv'
<1> SUFFICES ASSUME IInv, OrderInv, FanInv, [Next]_vars PROVE FanInv'
  OBVIOUS
<1>1. IInv'
  BY StepIInv
<1>2. CASE UNCHANGED vars
  BY <1>1, <1>2, StillFan DEF vars, Taken, LinesOf
<1>3. ASSUME NEW c \in Conns, ConnStep(c) PROVE FanInv'
  BY <1>1, <1>3, ConnFan
<1>4. ASSUME NEW s \in Senders, SenderStep(s) PROVE FanInv'
  <2>1. conn' = conn /\ deltaChan' = deltaChan
    BY <1>4 DEF SenderStep, Tick, Receive, TakeTick, PostOk, PostFail, Wake,
                Settle, connVars
  <2>2. \A r \in Senders : Taken(r)' = Taken(r)
    BY <1>4, SenderKeepsTaken
  <2> QED  BY <1>1, <2>1, <2>2, StillFan
<1>5. CASE BogusDelta
  <2>1. UNCHANGED conn /\ \A r \in Senders : Taken(r)' = Taken(r)
    BY <1>5 DEF BogusDelta, senderVars, Taken, LinesOf
  <2>2. deltaChan \in Seq(Line) /\ deltaChan # << >> /\ deltaChan' = Tail(deltaChan)
    BY <1>5 DEF BogusDelta, IInv, TypeOK
  <2>3. ASSUME NEW i \in DOMAIN Tail(deltaChan)
        PROVE  \E k \in DOMAIN deltaChan : Tail(deltaChan)[i] = deltaChan[k]
    <3>1. /\ i \in 1..(Len(deltaChan) - 1) /\ Len(deltaChan) \in Nat
          /\ DOMAIN deltaChan = 1..Len(deltaChan)
      BY <2>2
    <3>2. Tail(deltaChan)[i] = deltaChan[i + 1]
      BY <2>2, <3>1, SeqEnds
    <3>3. i + 1 \in DOMAIN deltaChan
      BY <3>1
    <3> QED  BY <3>2, <3>3
  <2> QED  BY <1>1, <2>1, <2>2, <2>3, StillFan
<1> QED  BY <1>2, <1>3, <1>4, <1>5 DEF Next

\* A line that two senders of a host have is one line of one sender.
LEMMA GivenOnce ==
  ASSUME IInv, OrderInv, FanInv,
         NEW s \in Senders, NEW t \in Senders, HostOf[s] = HostOf[t],
         NEW i \in DOMAIN Taken(s), NEW j \in DOMAIN Taken(t), Taken(s)[i] = Taken(t)[j]
  PROVE  s = t /\ i = j
<1> DEFINE l == Taken(s)[i]
<1>1. l \in Items(Taken(s)) /\ l \in Items(Taken(t))
  BY DEF Items
<1>2. s = t
  BY <1>1 DEF FanInv, OncePerHost
<1>3. l.num \in Nat
  BY <1>1, TakenRead
<1>4. ~(l.num < l.num)
  BY <1>3
<1>5. ~(i < j) /\ ~(j < i)
  BY <1>2, <1>4 DEF OrderInv, PerConnectionOrder
<1>6. i \in Nat /\ j \in Nat
  <2>1. Taken(s) \in Seq(Line) /\ Taken(t) \in Seq(Line)
    BY TakenType DEF IInv
  <2> QED  BY <2>1
<1> QED  BY <1>2, <1>5, <1>6

LEMMA GivenToHosts ==
  ASSUME IInv, OrderInv, FanInv, NEW l, NEW hosts, HostsWith(l) = hosts
  PROVE  GivenTo(l, hosts)
BY GivenOnce DEF GivenTo, HostsWith

LEMMA FanInvariance == Spec => [](IInv /\ OrderInv /\ FanInv)
<1>1. OrderInv /\ IInv /\ [Next]_vars => OrderInv'
  BY StepOrder
<1> QED  BY InitOrder, InitFan, Invariance, StepFan, <1>1, PTL DEF Spec

\* However many connections race for the Pipes and however slowly those drain,
\* a line goes once to every replica of its metric and to nothing else, and its
\* metric is not announced before.
THEOREM FanOutKept == Spec => []FanOut
<1>1. IInv /\ OrderInv /\ FanInv => FanOut
  <2> SUFFICES ASSUME IInv, OrderInv, FanInv PROVE FanOut
    OBVIOUS
  <2>1. ASSUME NEW c \in Conns, conn[c].pc \in {"send", "delta"}
        PROVE  GivenTo(CurrentLine(c), TargetHosts(conn[c].metric) \ HostsToDo(c))
    BY <2>1, GivenToHosts DEF FanInv, HandServed
  <2>2. ASSUME NEW i \in DOMAIN deltaChan
        PROVE  GivenTo(deltaChan[i], TargetHosts(deltaChan[i].metric))
    BY GivenToHosts DEF FanInv, AnnouncedServed
  <2> QED  BY <2>1, <2>2 DEF FanOut
<1> QED  BY FanInvariance, <1>1, PTL

-----------------------------------------------------------------------------
(* Batches *)

\* No line joins a batch that is being posted, whatever arrives on the Pipe.
THEOREM BatchesFrozen == Spec => BatchFrozen
<1> DEFINE A == \A s \in Senders :
                  phase[s] # "select" /\ phase'[s] # "select" => buf'[s] = buf[s]
<1>1. IInv /\ [Next]_vars => [A]_vars
  <2> SUFFICES ASSUME IInv, Next, NEW s \in Senders, phase[s] # "select",
                      phase'[s] # "select"
               PROVE  buf'[s] = buf[s]
    OBVIOUS
  <2>1. buf \in [Senders -> Seq(Line)] /\ phase \in [Senders -> {"select", "post", "sleep", "done"}]
    BY DEF IInv, TypeOK
  <2>2. ASSUME NEW c \in Conns, ConnStep(c) PROVE buf'[s] = buf[s]
    <3>1. CASE HandOver(c)
      <4>1. PICK w : w = Head(conn[c].todo)  OBVIOUS
      <4>2. phase[w] = "select"  BY <3>1, <4>1 DEF HandOver, Receiving
      <4>3. w # s  BY <4>2
      <4> QED  BY <2>1, <3>1, <4>1, <4>3 DEF HandOver
    <3>2. CASE buf' = buf
      BY <3>2
    <3> QED  BY <2>2, <3>1, <3>2 DEF ConnStep, Read, Reject, Close, Enqueue, Announce, senderVars
  <2>3. ASSUME NEW r \in Senders, SenderStep(r) PROVE buf'[s] = buf[s]
    <3>1. CASE Receive(r)
      BY <2>1, <3>1 DEF Receive, Receiving
    <3>2. CASE Settle(r)
      BY <2>1, <3>2 DEF Settle, CountAndReset
    <3>3. CASE buf' = buf
      BY <3>3
    <3> QED  BY <2>3, <3>1, <3>2, <3>3
             DEF SenderStep, Tick, TakeTick, PostOk, PostFail, Wake, senderVars
  <2>4. CASE BogusDelta
    BY <2>4 DEF BogusDelta, senderVars
  <2> QED  BY <2>2, <2>3, <2>4 DEF Next
<1> QED  BY Invariance, <1>1, PTL DEF Spec, BatchFrozen

-----------------------------------------------------------------------------
(* The relay implements Delivery *)

Owed   == UNION {OwedBy(s) : s \in Senders}
Stored == UNION {StoredBy(s) : s \in Senders}
Lost   == UNION {LostBy(s) : s \in Senders}

\* What a sender has is owed or settled.
LEMMA ItemsTaken ==
  ASSUME TypeOK, NEW s \in Senders
  PROVE  Items(Taken(s)) =
           {o.line : o \in Items(settled[s])} \cup Items(buf[s]) \cup Items(pipe[s])
<1> DEFINE ls == LinesOf(settled[s])
<1>1. ls \in Seq(Line) /\ buf[s] \in Seq(Line) /\ pipe[s] \in Seq(Line)
  BY TakenType
<1>2. ls \o buf[s] \in Seq(Line)
  BY <1>1, ConcatProperties
<1>3. Items(ls) = {o.line : o \in Items(settled[s])}
  BY DEF Items, LinesOf
<1> HIDE DEF ls
<1>4. Items(ls \o buf[s]) = Items(ls) \cup Items(buf[s])
  BY <1>1, ItemsConcat
<1>5. Items((ls \o buf[s]) \o pipe[s]) = Items(ls \o buf[s]) \cup Items(pipe[s])
  BY <1>1, <1>2, ItemsConcat, ZenonT(40)
<1> QED  BY <1>3, <1>4, <1>5 DEF Taken, ls

\* No line is in the batch and on the Pipe of a sender.
LEMMA BatchApart ==
  ASSUME IInv, OrderInv, FanInv, NEW s \in Senders
  PROVE  Items(buf[s]) \cap Items(pipe[s]) = {}
<1> SUFFICES ASSUME NEW i \in DOMAIN buf[s], NEW j \in DOMAIN pipe[s], buf[s][i] = pipe[s][j]
             PROVE  FALSE
  BY DEF Items
<1> DEFINE ls == LinesOf(settled[s])
           a  == ls \o buf[s]
<1>1. ls \in Seq(Line) /\ buf[s] \in Seq(Line) /\ pipe[s] \in Seq(Line)
  BY TakenType DEF IInv
<1>2. Taken(s) = a \o pipe[s]
  BY DEF Taken
<1> HIDE DEF ls
<1>3. /\ a \in Seq(Line) /\ Len(ls) \in Nat /\ Len(buf[s]) \in Nat /\ Len(pipe[s]) \in Nat
      /\ Len(a) = Len(ls) + Len(buf[s])
      /\ \A k \in 1..Len(buf[s]) : a[Len(ls) + k] = buf[s][k]
  BY <1>1
<1> HIDE DEF a
<1>4. /\ i \in 1..Len(buf[s]) /\ j \in 1..Len(pipe[s])
      /\ Len(ls) + i \in 1..Len(a) /\ Len(a) \in Nat
  BY <1>1, <1>3, SMTT(20)
<1>5. /\ Taken(s)[Len(ls) + i] = a[Len(ls) + i] /\ Len(ls) + i \in DOMAIN Taken(s)
      /\ Taken(s)[Len(a) + j] = pipe[s][j] /\ Len(a) + j \in DOMAIN Taken(s)
  <2> PICK p \in Seq(Line) : p = pipe[s]
    BY <1>1
  <2> PICK b \in Seq(Line) : b = a
    BY <1>3
  <2> DEFINE q == b \o p
  <2>1. /\ q \in Seq(Line) /\ Len(q) = Len(b) + Len(p)
        /\ \A k \in 1..Len(b) + Len(p) : q[k] = IF k <= Len(b) THEN b[k] ELSE p[k - Len(b)]
    BY ConcatProperties
  <2> HIDE DEF q
  <2>2. DOMAIN q = 1..(Len(b) + Len(p))
    BY <2>1
  <2> DEFINE m == Len(b)  n == Len(p)  x == Len(ls) + i
  <2>3. m \in Nat /\ n \in Nat /\ x \in 1..m /\ j \in 1..n
    BY <1>3, <1>4
  <2> HIDE DEF m, n, x
  <2>4. x \in 1..(m + n) /\ x <= m /\ m + j \in 1..(m + n) /\ ~(m + j <= m) /\ (m + j) - m = j
    BY <2>3
  <2> QED  BY <1>2, <2>1, <2>2, <2>4 DEF q, m, n, x
<1>6. Len(ls) + i = Len(a) + j
  BY <1>3, <1>4, <1>5, GivenOnce
<1> QED  BY <1>3, <1>4, <1>6

LEMMA InitDelivery == Init => D!Init
<1> SUFFICES ASSUME Init PROVE D!Init
  OBVIOUS
<1>1. \A s \in Senders : Items(buf[s]) = {} /\ Items(pipe[s]) = {} /\ Items(settled[s]) = {}
  BY DEF Init, Items
<1>2. \A s \in Senders : OwedBy(s) = {} /\ StoredBy(s) = {} /\ LostBy(s) = {}
  BY <1>1 DEF OwedBy, StoredBy, LostBy, Debts
<1>3. Owed = {} /\ Stored = {} /\ Lost = {}
  BY <1>2 DEF Owed, Stored, Lost
<1> QED  BY <1>3 DEF D!Init, Owed, Stored, Lost

\* A step that settles nothing and leaves what a sender owes is a stutter.
LEMMA Stutter ==
  ASSUME UNCHANGED settled,
         \A s \in Senders : Items(buf[s])' \cup Items(pipe[s])' = Items(buf[s]) \cup Items(pipe[s])
  PROVE  UNCHANGED D!vars
<1>1. \A s \in Senders : /\ OwedBy(s)' = OwedBy(s)
                         /\ StoredBy(s)' = StoredBy(s) /\ LostBy(s)' = LostBy(s)
  BY DEF OwedBy, StoredBy, LostBy, Debts, Items
<1>2. UNCHANGED <<Owed, Stored, Lost>>
  BY <1>1 DEF Owed, Stored, Lost
<1> QED  BY <1>2 DEF D!vars, Owed, Stored, Lost

\* To give a sender the line in hand is to accept it for the sender's host.
LEMMA ServeAccepts ==
  ASSUME IInv, OrderInv, FanInv, NEW c \in Conns, conn[c].pc = "send",
         NEW w \in Senders, w = Head(conn[c].todo), NEW l \in Line, l = CurrentLine(c),
         UNCHANGED settled,
         Items(buf[w])' \cup Items(pipe[w])' = Items(buf[w]) \cup Items(pipe[w]) \cup {l},
         \A r \in Senders \ {w} : buf'[r] = buf[r] /\ pipe'[r] = pipe[r]
  PROVE  D!Next
<1> DEFINE h == HostOf[w]
           d == [line |-> l, host |-> h]
<1>1. h \notin HostsWith(l)
  <2>1. conn[c].todo \in Seq(Senders) /\ conn[c].todo # << >>
    BY DEF IInv, TypeOK, ConnInv, ConnState
  <2>2. w \in Items(conn[c].todo)
    BY <2>1, ItemsHeadTail
  <2>3. h \in HostsToDo(c)
    BY <2>2 DEF HostsToDo
  <2> QED  BY <2>3 DEF FanInv, HandServed
<1>2. \A s \in Senders : l \in Items(Taken(s)) => HostOf[s] # h
  BY <1>1 DEF HostsWith
<1>3. d \in D!Debt
  BY HostsAssumption DEF D!Debt
<1>4. ASSUME NEW s \in Senders
      PROVE  d \notin OwedBy(s) /\ d \notin StoredBy(s) /\ d \notin LostBy(s)
  <2>1. /\ Items(buf[s]) \cup Items(pipe[s]) \subseteq Items(Taken(s))
        /\ \A o \in Items(settled[s]) : o.line \in Items(Taken(s))
    BY ItemsTaken DEF IInv
  <2>2. \A ls : d \in Debts(ls, HostOf[s]) => l \in ls /\ HostOf[s] = h
    BY DEF Debts
  <2> HIDE DEF d, h
  <2>3. \A ls : ls \subseteq Items(Taken(s)) => d \notin Debts(ls, HostOf[s])
    BY <1>2, <2>2
  <2>4. /\ {o.line : o \in {x \in Items(settled[s]) : x.copies > 0}} \subseteq Items(Taken(s))
        /\ {o.line : o \in {x \in Items(settled[s]) : x.copies = 0}} \subseteq Items(Taken(s))
    BY <2>1
  <2> QED  BY <2>1, <2>3, <2>4 DEF OwedBy, StoredBy, LostBy
<1>5. d \notin Owed \cup Stored \cup Lost
  BY <1>4 DEF Owed, Stored, Lost
<1>6. OwedBy(w)' = OwedBy(w) \cup {d}
  <2>1. OwedBy(w)' = Debts(Items(buf[w])' \cup Items(pipe[w])', h)
    BY DEF OwedBy, Debts
  <2>2. Debts(Items(buf[w]) \cup Items(pipe[w]) \cup {l}, h)
          = Debts(Items(buf[w]) \cup Items(pipe[w]), h) \cup {d}
    BY DEF Debts
  <2> QED  BY <2>1, <2>2 DEF OwedBy
<1>7. \A r \in Senders \ {w} : OwedBy(r)' = OwedBy(r)
  BY DEF OwedBy, Debts, Items
<1>8. \A s \in Senders : StoredBy(s)' = StoredBy(s) /\ LostBy(s)' = LostBy(s)
  BY DEF StoredBy, LostBy, Debts, Items
<1> HIDE DEF d, h
<1>9. Owed' = Owed \cup {d} /\ UNCHANGED <<Stored, Lost>>
  BY <1>6, <1>7, <1>8 DEF Owed, Stored, Lost
<1>10. D!Accept(d)
  BY <1>5, <1>9 DEF D!Accept, Owed, Stored, Lost
<1> QED  BY <1>3, <1>10 DEF D!Next

\* To settle a batch is to settle what the sender's host is owed of it, all as
\* stored or all as lost.
LEMMA SettleSettles ==
  ASSUME IInv, OrderInv, FanInv, NEW s \in Senders, Settle(s)
  PROVE  D!Next
<1> DEFINE h     == HostOf[s]
           lines == Items(buf[s])
           batch == Debts(lines, h)
           new   == [i \in DOMAIN buf[s] |->
                      [line |-> buf[s][i], copies |-> hits[s], fails |-> retry[s]]]
<1>1. /\ settled' = [settled EXCEPT ![s] = @ \o new]
      /\ buf' = [buf EXCEPT ![s] = << >>] /\ pipe' = pipe /\ phase[s] = "done"
  BY DEF Settle, CountAndReset
<1>2. /\ settled \in [Senders -> Seq(Outcome)] /\ buf \in [Senders -> Seq(Line)]
      /\ hits[s] \in Nat
  BY DEF IInv, TypeOK
<1>3. /\ new \in Seq(Outcome) /\ Len(new) = Len(buf[s])
      /\ \A i \in 1..Len(new) : new[i].line = buf[s][i] /\ new[i].copies = hits[s]
  BY <1>1, SettleOutcomes
<1> HIDE DEF new
<1>4. /\ \A o \in Items(new) : o.copies = hits[s] /\ o.line \in lines
      /\ \A l \in lines : \E o \in Items(new) : o.line = l
  <2>1. DOMAIN new = 1..Len(new) /\ DOMAIN buf[s] = 1..Len(new)
    BY <1>2, <1>3
  <2> QED  BY <1>3, <2>1 DEF Items
<1>5. Items(settled[s])' = Items(settled[s]) \cup Items(new)
  <2>1. settled'[s] = settled[s] \o new /\ settled[s] \in Seq(Outcome)
    BY <1>1, <1>2
  <2>2. Items(settled[s] \o new) = Items(settled[s]) \cup Items(new)
    BY <1>3, <2>1, ItemsConcat
  <2> QED  BY <2>1, <2>2 DEF Items
<1>6. \A t \in Senders \ {s} : UNCHANGED <<OwedBy(t), StoredBy(t), LostBy(t)>>
  <2>1. \A t \in Senders \ {s} : settled'[t] = settled[t] /\ buf'[t] = buf[t]
    BY <1>1, <1>2
  <2> QED  BY <1>1, <2>1 DEF OwedBy, StoredBy, LostBy, Debts, Items
<1>7. OwedBy(s) = batch \cup Debts(Items(pipe[s]), h) /\ OwedBy(s)' = Debts(Items(pipe[s]), h)
  <2>1. Items(buf[s])' = {} /\ Items(pipe[s])' = Items(pipe[s])
    BY <1>1, <1>2 DEF Items
  <2> QED  BY <2>1 DEF OwedBy, Debts
<1>8. batch \cap Debts(Items(pipe[s]), h) = {}
  BY BatchApart DEF Debts
<1>9. \A t \in Senders \ {s} : batch \cap OwedBy(t) = {}
  <2> SUFFICES ASSUME NEW t \in Senders \ {s}, NEW l \in lines,
                      NEW x \in Items(buf[t]) \cup Items(pipe[t]),
                      l = x, h = HostOf[t]
               PROVE  FALSE
    BY DEF OwedBy, Debts
  <2>1. l \in Items(Taken(s)) /\ l \in Items(Taken(t))
    BY ItemsTaken DEF IInv
  <2> QED  BY <2>1 DEF FanInv, OncePerHost
<1>10. \A d, e \in batch : d.host = e.host
  BY DEF Debts
<1>11. StoredBy(s)' = Debts({o.line : o \in {x \in Items(settled[s])' : x.copies > 0}}, h)
       /\ LostBy(s)' = Debts({o.line : o \in {x \in Items(settled[s])' : x.copies = 0}}, h)
  BY DEF StoredBy, LostBy, Debts, Items
<1>12. \A a, b : Debts(a \cup b, h) = Debts(a, h) \cup Debts(b, h)
  BY DEF Debts
<1> HIDE DEF batch
<1>13. Owed' = Owed \ batch /\ batch \in SUBSET Owed
  BY <1>6, <1>7, <1>8, <1>9 DEF Owed
<1>14. CASE hits[s] > 0
  <2>1. /\ {o.line : o \in {x \in Items(settled[s])' : x.copies > 0}}
            = {o.line : o \in {x \in Items(settled[s]) : x.copies > 0}} \cup lines
        /\ {o.line : o \in {x \in Items(settled[s])' : x.copies = 0}}
            = {o.line : o \in {x \in Items(settled[s]) : x.copies = 0}}
    <3>1. /\ {x \in Items(settled[s])' : x.copies > 0}
               = {x \in Items(settled[s]) : x.copies > 0} \cup Items(new)
          /\ {x \in Items(settled[s])' : x.copies = 0}
               = {x \in Items(settled[s]) : x.copies = 0}
      BY <1>2, <1>4, <1>5, <1>14
    <3>2. {o.line : o \in Items(new)} = lines
      BY <1>4
    <3> QED  BY <3>1, <3>2
  <2>2. StoredBy(s)' = StoredBy(s) \cup batch /\ LostBy(s)' = LostBy(s)
    BY <1>11, <1>12, <2>1 DEF StoredBy, LostBy, batch
  <2>3. Stored' = Stored \cup batch /\ Lost' = Lost
    BY <1>6, <2>2 DEF Stored, Lost
  <2> QED  BY <1>10, <1>13, <2>3 DEF D!Next, D!Settle, Owed, Stored, Lost
<1>15. CASE hits[s] = 0
  <2>1. /\ {o.line : o \in {x \in Items(settled[s])' : x.copies = 0}}
            = {o.line : o \in {x \in Items(settled[s]) : x.copies = 0}} \cup lines
        /\ {o.line : o \in {x \in Items(settled[s])' : x.copies > 0}}
            = {o.line : o \in {x \in Items(settled[s]) : x.copies > 0}}
    <3>1. /\ {x \in Items(settled[s])' : x.copies = 0}
               = {x \in Items(settled[s]) : x.copies = 0} \cup Items(new)
          /\ {x \in Items(settled[s])' : x.copies > 0}
               = {x \in Items(settled[s]) : x.copies > 0}
      BY <1>2, <1>4, <1>5, <1>15
    <3>2. {o.line : o \in Items(new)} = lines
      BY <1>4
    <3> QED  BY <3>1, <3>2
  <2>2. LostBy(s)' = LostBy(s) \cup batch /\ StoredBy(s)' = StoredBy(s)
    BY <1>11, <1>12, <2>1 DEF StoredBy, LostBy, batch
  <2>3. Lost' = Lost \cup batch /\ Stored' = Stored
    BY <1>6, <2>2 DEF Stored, Lost
  <2> QED  BY <1>10, <1>13, <2>3 DEF D!Next, D!Settle, Owed, Stored, Lost
<1> QED  BY <1>2, <1>14, <1>15

LEMMA StepDelivery ==
  IInv /\ OrderInv /\ FanInv /\ [Next]_vars => [D!Next]_(D!vars)
<1> SUFFICES ASSUME IInv, OrderInv, FanInv, [Next]_vars
             PROVE  D!Next \/ UNCHANGED D!vars
  OBVIOUS
<1>1. \A s \in Senders : buf[s] \in Seq(Line) /\ pipe[s] \in Seq(Line)
  BY DEF IInv, TypeOK
<1>2. CASE UNCHANGED <<settled, buf, pipe>>
  BY <1>2, Stutter DEF Items
<1>3. CASE UNCHANGED vars
  BY <1>2, <1>3 DEF vars
<1>4. ASSUME NEW c \in Conns, ConnStep(c) PROVE D!Next \/ UNCHANGED D!vars
  <2>1. CASE UNCHANGED <<settled, buf, pipe>>
    BY <1>2, <2>1
  <2>2. ASSUME Enqueue(c) \/ HandOver(c) PROVE D!Next
    <3>1. conn[c].pc = "send" /\ AfterReplica(c) /\ UNCHANGED settled
      BY <2>2 DEF Enqueue, HandOver, senderVars
    <3>2. PICK w \in Senders : w = Head(conn[c].todo)
      BY <3>1, AfterReplicaConn
    <3>3. PICK l \in Line : l = CurrentLine(c)
      BY <3>1, CurrentLineType
    <3>4. pipe \in [Senders -> Seq(Line)] /\ buf \in [Senders -> Seq(Line)]
      BY DEF IInv, TypeOK
    <3>5. CASE Enqueue(c)
      <4>1. pipe'[w] = Append(pipe[w], l) /\ buf' = buf
            /\ \A r \in Senders \ {w} : pipe'[r] = pipe[r]
        BY <3>2, <3>3, <3>4, <3>5 DEF Enqueue, senderVars
      <4>2. Items(Append(pipe[w], l)) = Items(pipe[w]) \cup {l}
        BY <1>1, ItemsAppend
      <4>3. Items(pipe[w])' = Items(pipe[w]) \cup {l} /\ Items(buf[w])' = Items(buf[w])
        BY <4>1, <4>2 DEF Items
      <4>4. Items(buf[w])' \cup Items(pipe[w])' = Items(buf[w]) \cup Items(pipe[w]) \cup {l}
        BY <4>3
      <4>5. \A r \in Senders \ {w} : buf'[r] = buf[r] /\ pipe'[r] = pipe[r]
        BY <4>1
      <4> QED  BY <3>1, <3>2, <3>3, <4>4, <4>5, ServeAccepts
    <3>6. CASE HandOver(c)
      <4>1. buf'[w] = Append(buf[w], l) /\ pipe' = pipe
            /\ \A r \in Senders \ {w} : buf'[r] = buf[r]
        BY <3>2, <3>3, <3>4, <3>6 DEF HandOver
      <4>2. Items(Append(buf[w], l)) = Items(buf[w]) \cup {l}
        BY <1>1, ItemsAppend
      <4>3. Items(buf[w])' = Items(buf[w]) \cup {l} /\ Items(pipe[w])' = Items(pipe[w])
        BY <4>1, <4>2 DEF Items
      <4>4. Items(buf[w])' \cup Items(pipe[w])' = Items(buf[w]) \cup Items(pipe[w]) \cup {l}
        BY <4>3
      <4>5. \A r \in Senders \ {w} : buf'[r] = buf[r] /\ pipe'[r] = pipe[r]
        BY <4>1
      <4> QED  BY <3>1, <3>2, <3>3, <4>4, <4>5, ServeAccepts
    <3> QED  BY <2>2, <3>5, <3>6
  <2> QED  BY <1>4, <2>1, <2>2 DEF ConnStep, Read, Reject, Close, Announce, senderVars
<1>5. ASSUME NEW s \in Senders, SenderStep(s) PROVE D!Next \/ UNCHANGED D!vars
  <2>1. CASE UNCHANGED <<settled, buf, pipe>>
    BY <1>2, <2>1
  <2>2. ASSUME Receive(s) PROVE UNCHANGED D!vars
    <3>1. /\ buf \in [Senders -> Seq(Line)] /\ pipe \in [Senders -> Seq(Line)]
          /\ buf'  = [buf EXCEPT ![s] = Append(@, Head(pipe[s]))]
          /\ pipe' = [pipe EXCEPT ![s] = Tail(@)]
          /\ UNCHANGED settled /\ pipe[s] # << >>
      BY <2>2 DEF Receive, IInv, TypeOK
    <3>2. /\ Items(pipe[s]) = {Head(pipe[s])} \cup Items(Tail(pipe[s]))
          /\ Items(Append(buf[s], Head(pipe[s]))) = Items(buf[s]) \cup {Head(pipe[s])}
      <4>1. Head(pipe[s]) \in Line
        BY <1>1, <3>1, SeqEnds
      <4> QED  BY <1>1, <3>1, <4>1, ItemsHeadTail, ItemsAppend
    <3>3. /\ Items(buf[s])' = Items(Append(buf[s], Head(pipe[s])))
          /\ Items(pipe[s])' = Items(Tail(pipe[s]))
      BY <3>1 DEF Items
    <3>4. \A r \in Senders \ {s} : Items(buf[r])' = Items(buf[r]) /\ Items(pipe[r])' = Items(pipe[r])
      BY <3>1 DEF Items
    <3>5. \A r \in Senders :
            Items(buf[r])' \cup Items(pipe[r])' = Items(buf[r]) \cup Items(pipe[r])
      BY <3>2, <3>3, <3>4
    <3> QED  BY <3>1, <3>5, Stutter
  <2>3. ASSUME Settle(s) PROVE D!Next
    BY <2>3, SettleSettles
  <2> QED  BY <1>5, <2>1, <2>2, <2>3
           DEF SenderStep, Tick, TakeTick, PostOk, PostFail, Wake, senderVars
<1>6. CASE BogusDelta
  BY <1>2, <1>6 DEF BogusDelta, senderVars
<1> QED  BY <1>3, <1>4, <1>5, <1>6 DEF Next

\* The relay keeps what Delivery promises: it owes a storage each line it
\* accepted until it settles it, once, and it never accepts one twice.
THEOREM DeliveryImplemented == Spec => ImplementsDelivery
<1> QED  BY FanInvariance, InitDelivery, StepDelivery, PTL
         DEF Spec, ImplementsDelivery, D!Spec
=============================================================================
