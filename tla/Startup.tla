------------------------------- MODULE Startup -------------------------------
(***************************************************************************)
(* From the configuration file to the first lines: Load and parseStorages  *)
(* of src/src/cacher/mylib/mylib.go, then startWorkers and main of         *)
(* src/src/cacher/cacher.go, which start the senders, fill the hash ring   *)
(* of module Consistent and choose how lines are given to senders.  Which  *)
(* configurations give a program that parse can work with?                 *)
(***************************************************************************)
EXTENDS Integers, Sequences, FiniteSets

CONSTANTS
  Hosts,     \* hosts that storage definitions name
  HashSize,  \* as in Consistent
  Points,    \* as in Consistent
  Lists,     \* inputs: what option storage says, sequences of Definition
  Rfs,       \* inputs: what option Rf says; 0 where it is missing
  Default    \* the storage of defaultConfig, a Definition

\* host:port:num between two commas.  A short one has less than five
\* characters; a malformed one has less than three parts, or its port or num
\* is no number.
Definition == [form : {"good", "short", "malformed"}, host : Hosts, port : Nat, num : Int]

ASSUME StartupAssumption ==
  /\ Lists \subseteq Seq(Definition) /\ Rfs \subseteq Int /\ Default \in Definition
  /\ HashSize \in Nat \ {0} /\ Points \in [Hosts -> SUBSET (0..(HashSize - 1))]
  /\ \A h \in Hosts : Points[h] # {}

VARIABLES
  pc,        \* main
  config,    \* the storage definitions and Rf
  todo,      \* parseStorages: definitions still to be looked at
  storages,  \* config.Storages; in startWorkers those still to be served
  j,         \* startWorkers: senders of the storage in hand
  senders,   \* boss.Senders
  single,    \* boss.Single
  monitor,   \* the goroutine monitor runs
  circle, members, sortedHashes, count,   \* the ring
  reader     \* the lookups of parse

C == INSTANCE Consistent WITH
       Elts <- Hosts, Readers <- {"parse"}, Writers <- {}, writer <- << >>, MaxN <- 0,
       Adds <- {}, Removes <- {}, Sets <- {}, MaxCount <- 0

ring == <<circle, members, sortedHashes, count>>
vars == <<pc, config, todo, storages, j, senders, single, monitor, ring, reader>>

Init ==
  /\ pc = "load" /\ config = [defs |-> << >>, Rf |-> 0]
  /\ todo = << >> /\ storages = << >> /\ j = 0 /\ senders = << >>
  /\ single = FALSE /\ monitor = FALSE
  /\ circle = [h \in {} |-> CHOOSE e \in Hosts : TRUE]
  /\ members = {} /\ sortedHashes = << >> /\ count = 0
  /\ reader = [r \in {"parse"} |-> C!Idle]

-----------------------------------------------------------------------------
(* mylib.Load *)

\* No file: the default configuration.  A file gcfg cannot read: exit.
Load ==
  /\ pc = "load"
  /\ \/ \E defs \in Lists \cup {<<Default>>}, Rf \in Rfs \cup {1} :
          /\ config' = [defs |-> defs, Rf |-> Rf] /\ todo' = defs /\ pc' = "parse"
     \/ pc' = "exit" /\ UNCHANGED <<config, todo>>
  /\ UNCHANGED <<storages, j, senders, single, monitor, ring, reader>>

\* One definition: kept, passed over, or the end of the program.
parseStorages ==
  /\ pc = "parse" /\ todo # << >>
  /\ LET d == Head(todo) IN
     /\ storages' = IF d.form # "good" THEN storages
                    ELSE Append(storages, [Host |-> d.host, Port |-> d.port,
                                           Num |-> d.num - 1])
     /\ pc' = IF d.form = "malformed" THEN "exit" ELSE pc
  /\ todo' = Tail(todo)
  /\ UNCHANGED <<config, j, senders, single, monitor, ring, reader>>

Parsed ==
  /\ pc = "parse" /\ todo = << >>
  /\ pc' = "workers"
  /\ UNCHANGED <<config, todo, storages, j, senders, single, monitor, ring, reader>>

-----------------------------------------------------------------------------
(* startWorkers and main *)

\* One turn of the inner loop: a sender is made and its host added to the ring
\* once more.
StartWorker ==
  /\ pc = "workers" /\ storages # << >> /\ j <= Head(storages).Num
  /\ senders' = Append(senders, [Host |-> Head(storages).Host, Port |-> Head(storages).Port,
                                 Index |-> Len(senders)])
  /\ C!Add(Head(storages).Host)
  /\ j' = j + 1
  /\ UNCHANGED <<pc, config, todo, storages, single, monitor, reader>>

\* Mutant: Add stands outside the loop over a storage's senders too.
AddAnyway == C!Add(Head(storages).Host)

AddNothing == UNCHANGED ring

NextStorage ==
  /\ pc = "workers" /\ storages # << >> /\ j > Head(storages).Num
  /\ storages' = Tail(storages) /\ j' = 0
  /\ AddNothing
  /\ UNCHANGED <<pc, config, todo, senders, single, monitor, reader>>

\* Mutant: Single is set when Rf is 1.
SingleByRf == config.Rf = 1

OneMember == Cardinality(members) = 1

MakeBoss ==
  /\ pc = "workers" /\ storages = << >>
  /\ single' = OneMember
  /\ pc' = "listen"
  /\ UNCHANGED <<config, todo, storages, j, senders, monitor, ring, reader>>

\* The port is taken, or the accept loop begins.
Listen ==
  /\ pc = "listen"
  /\ pc' \in {"serve", "exit"}
  /\ UNCHANGED <<config, todo, storages, j, senders, single, monitor, ring, reader>>

\* The goroutine monitor gets to boss.Senders[0].
Monitor ==
  /\ pc \in {"listen", "serve"} /\ ~monitor
  /\ monitor' = TRUE
  /\ pc' = IF senders = << >> THEN "panic" ELSE pc
  /\ UNCHANGED <<config, todo, storages, j, senders, single, ring, reader>>

-----------------------------------------------------------------------------
(* parse, on its way to the senders of a line *)

Program == <<config, todo, storages, j, senders, single, monitor>>

GetN ==
  /\ pc = "serve" /\ ~single
  /\ \E key \in C!Hash : C!GetN("parse", key, config.Rf) \/ C!EmptyCircle("parse", key)
  /\ UNCHANGED <<pc, Program>>

\* A panic of one goroutine is the end of all.
GetNPanics ==
  /\ pc = "serve" /\ ~single
  /\ \E key \in C!Hash : C!GetNPanics("parse", key, config.Rf)
  /\ pc' = "panic"
  /\ UNCHANGED Program

Walk ==
  /\ pc = "serve"
  /\ C!WalkOn("parse") \/ C!Around("parse")
  /\ UNCHANGED <<pc, Program>>

Hits(host) == {i \in DOMAIN senders : senders[i].Host = host}

\* getSender for each host of the answer; rand.Intn(0) panics.
Answer ==
  /\ pc = "serve"
  /\ C!Return("parse")
  /\ pc' = IF \A i \in DOMAIN reader["parse"].res : Hits(reader["parse"].res[i]) # {}
           THEN pc ELSE "panic"
  /\ UNCHANGED Program

\* The only host's senders are drawn from without asking the ring.
SingleSender ==
  /\ pc = "serve" /\ single
  /\ pc' = IF senders = << >> THEN "panic" ELSE pc
  /\ UNCHANGED <<Program, ring, reader>>

Next ==
  \/ Load
  \/ parseStorages
  \/ Parsed
  \/ StartWorker
  \/ NextStorage
  \/ MakeBoss
  \/ Listen
  \/ Monitor
  \/ GetN
  \/ GetNPanics
  \/ Walk
  \/ Answer
  \/ SingleSender

Spec == Init /\ [][Next]_vars

\* main and a lookup go on; lines need not come.
FairSpec ==
  Spec /\ WF_vars(Load \/ parseStorages \/ Parsed \/ StartWorker \/ NextStorage \/ MakeBoss
                    \/ Listen)
       /\ WF_vars(Monitor) /\ WF_vars(Walk) /\ WF_vars(Answer)

-----------------------------------------------------------------------------
(* Properties *)

DefsOf(host) == {i \in DOMAIN config.defs : config.defs[i].form = "good"
                                             /\ config.defs[i].host = host
                                             /\ config.defs[i].num >= 1}
Configured == {h \in Hosts : DefsOf(h) # {}}

Owners == C!RangeOf(circle)

\* What Relay assumes of hosts, senders and the ring's answers is true of every
\* configuration with at least one sender and Rf of at least 1: the hosts that
\* have senders are those of the definitions; a line goes without the ring only
\* if there is one; unless hashes collide all of them own hashes; and an answer
\* names Rf of those that do or all, each once.
RelayAssumptionsHold ==
  pc \in {"listen", "serve"} =>
    /\ {senders[i].Host : i \in DOMAIN senders} = Configured
    /\ members = Configured
    /\ single <=> Cardinality(Configured) = 1
    /\ C!Disjoint => Owners = Configured
    /\ config.Rf >= 1 /\ reader["parse"].pc = "done" /\ Configured # {} =>
         /\ Len(reader["parse"].res) = IF config.Rf < Cardinality(Owners)
                                       THEN config.Rf ELSE Cardinality(Owners)
         /\ {reader["parse"].res[i] : i \in DOMAIN reader["parse"].res} \subseteq Configured
         /\ C!NoTwice(reader["parse"].res)

\* Nothing panics but for a negative Rf, when there are several hosts to choose
\* from, or for a configuration that starts no sender at all.
PanicExplained ==
  pc = "panic" => Configured = {} \/ (config.Rf < 0 /\ Cardinality(Configured) > 1)

\* A lookup returns, if Rf is at least 1 and there are that many hosts or each
\* was added only once.
LookupEnds ==
  (/\ reader["parse"].pc = "walk" /\ config.Rf >= 1
   /\ config.Rf <= Cardinality(members) \/ count = Cardinality(members))
    ~> reader["parse"].pc # "walk" \/ pc # "serve"
=============================================================================
