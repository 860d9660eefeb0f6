------------------------------ MODULE Batching ------------------------------
(***************************************************************************)
(* One sender() of src/src/cacher/cacher.go under an endless load: what    *)
(* becomes of one line among all the lines that connections go on to give  *)
(* to the same sender.                                                     *)
(*                                                                         *)
(* It is the sender of module Relay with other data. A line is "mine", the *)
(* one that is watched, or "other", and data_buf is the set of what it     *)
(* holds, so that the load needs no bound: there is always another "other" *)
(* line, and when mine is settled the next line is watched.                *)
(***************************************************************************)
EXTENDS Naturals, Sequences

CONSTANTS
  Limits,     \* capacities a Pipe may have: ChanLimit, 0 for a rendezvous
  MaxRetry    \* attempts at a batch (3 in the code)

ASSUME LimitsAssumption == Limits \subseteq Nat /\ MaxRetry \in Nat \ {0}

VARIABLES
  limit,   \* the capacity of the Pipe, given when it is made
  mine,    \* where the line that is watched is
  pipe, buf, tick, phase, retry

vars == <<limit, mine, pipe, buf, tick, phase, retry>>

Init ==
  /\ limit \in Limits
  /\ mine = "away"
  /\ pipe = << >> /\ buf = {}
  /\ tick = FALSE
  /\ phase = "select"
  /\ retry = 0

-----------------------------------------------------------------------------
(* The connections *)

\* A handler has read mine and drawn this sender for it.
Offer ==
  /\ mine \in {"away", "settled"}
  /\ mine' = "offered"
  /\ UNCHANGED <<limit, pipe, buf, tick, phase, retry>>

\* A handler has the line in hand; of the other lines some handler always has.
Offered(line) == line = "mine" => mine = "offered"

\* w.Pipe <- line, which blocks while the Pipe is full.
Enqueue(line) ==
  /\ Offered(line)
  /\ Len(pipe) < limit
  /\ pipe' = Append(pipe, line)
  /\ mine' = IF line = "mine" THEN "given" ELSE mine
  /\ UNCHANGED <<limit, buf, tick, phase, retry>>

\* The same on an unbuffered Pipe: the line passes when sender() is receiving.
HandOver(line) ==
  /\ Offered(line)
  /\ limit = 0 /\ phase = "select"
  /\ buf' = buf \cup {line}
  /\ mine' = IF line = "mine" THEN "given" ELSE mine
  /\ UNCHANGED <<limit, pipe, tick, phase, retry>>

-----------------------------------------------------------------------------
(* sender and send_data *)

Tick ==
  /\ ~tick
  /\ tick' = TRUE
  /\ UNCHANGED <<limit, mine, pipe, buf, phase, retry>>

Receive ==
  /\ phase = "select" /\ pipe # << >>
  /\ buf' = buf \cup {Head(pipe)}
  /\ pipe' = Tail(pipe)
  /\ UNCHANGED <<limit, mine, tick, phase, retry>>

\* Mutant: the Pipe is emptied first, the ticker is looked at when nothing is left.
WhenPipeIsEmpty == tick /\ pipe = << >>

\* The case of the ticker can proceed.
TickerReady == tick

TakeTick ==
  /\ phase = "select" /\ TickerReady
  /\ tick' = FALSE
  /\ phase' = IF buf = {} THEN "select" ELSE "post"
  /\ UNCHANGED <<limit, mine, pipe, buf, retry>>

PostOk ==
  /\ phase = "post"
  /\ phase' = "done"
  /\ UNCHANGED <<limit, mine, pipe, buf, tick, retry>>

PostFail ==
  /\ phase = "post"
  /\ retry' = retry + 1
  /\ phase' = "sleep"
  /\ UNCHANGED <<limit, mine, pipe, buf, tick>>

Wake ==
  /\ phase = "sleep"
  /\ phase' = IF retry < MaxRetry THEN "post" ELSE "done"
  /\ UNCHANGED <<limit, mine, pipe, buf, tick, retry>>

\* send_data has returned, and data_buf is made anew.
Settle ==
  /\ phase = "done"
  /\ mine' = IF "mine" \in buf THEN "settled" ELSE mine
  /\ buf' = {} /\ retry' = 0 /\ phase' = "select"
  /\ UNCHANGED <<limit, pipe, tick>>

-----------------------------------------------------------------------------
Next ==
  \/ Offer
  \/ \E line \in {"mine", "other"} : Enqueue(line) \/ HandOver(line)
  \/ Tick \/ Receive \/ TakeTick
  \/ PostOk \/ PostFail \/ Wake \/ Settle

\* A handler blocked on a Pipe is served in its turn, so that its send goes
\* through when sends go through again and again. A select with both cases
\* ready takes one of them at random, so that neither is passed over for ever:
\* that much Go promises of one select, whatever keeps coming, and the code has
\* the ticker and the Pipe in one. Attempts end by their deadline. Nothing is
\* assumed of the load, which never needs to pause.
Fairness ==
  /\ SF_vars(Enqueue("mine") \/ HandOver("mine"))
  /\ WF_vars(Tick) /\ WF_vars(Receive) /\ WF_vars(TakeTick)
  /\ WF_vars(PostOk \/ PostFail \/ Wake \/ Settle)

Turn == [Next]_vars

Spec == Init /\ [][Next]_vars /\ Fairness

-----------------------------------------------------------------------------
\* A line for which a sender is drawn gets into its Pipe and into a batch, and
\* its batch is settled, however many more lines keep coming, before it and
\* behind it, and whatever the storage answers: neither a Pipe that is always
\* full nor attempts that always fail keep it for ever.
EveryLineSettles == mine = "offered" ~> mine = "settled"
=============================================================================
