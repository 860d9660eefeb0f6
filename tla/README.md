# cacher: TLA+ models, checks and proofs

cacher is a Graphite relay written in Go: it accepts text lines
`metric value timestamp` over TCP, chooses the storages of each line with a
consistent hash ring, batches the lines per storage and posts each batch to
ClickHouse over HTTP. New metric names are announced to a "metricsearch" index.
This directory holds TLA+ models of it, TLC configurations that check them on
small instances, and theorems that TLAPS checks for all instances. Paths below
are relative to `src/src/`.

## 1. Inventory

| part | source | state | operations | talks to |
|---|---|---|---|---|
| connection handlers | `cacher/cacher.go` `process_connection`, `parse`, `metricTest` | the Scanner and read deadline of a socket, the line in hand | read a line, check it, fan it out, announce its metric, leave | Pipes, DeltaChan, ring (read), `mon.Rcv`, `con_alive` |
| senders | `sender`, `send_data`, `singleSender`, `getSender` | `data_buf`, `send`, a 5 s ticker, the retry count | receive, take a tick, post up to three times, count and reset | its Pipe, its storage, `mon.Send` |
| listener and monitor | `main`'s accept loop, `monitor`, `send_mon_data` | `Mmon`, `con_alive`, `last`, a 1 s ticker | accept and count; swap counters, announce nine metrics, report | all of the above |
| hash ring | `github.com/stathat/consistent/consistent.go` | `circle`, `members`, `sortedHashes`, `count`, an RWMutex | Add, Remove, Set, Members, Get, GetTwo, GetN | called at start-up, by `parse` and by DeltaManager |
| delta manager | `cacher/delta/delta.go` | the cache of siphashes, the channel `delta`, the retry count | load the dump, take a name, offer it, add it to the index | DeltaChan, metricsearch, ring (read) |
| configuration, start-up | `cacher/mylib/mylib.go`, `startWorkers`, `main` | the list of storages, `Boss` | parse storages, start senders, fill the ring, choose `Single` | ring, senders |
| gcfg | `code.google.com/p/gcfg` | scanner position and error count, section and variable in hand, the configuration | scan, unquote, convert and set, read into a struct | start-up |
| gcfg's positions | `gcfg/token/position.go`, `serialize.go` | a FileSet, its files' tables of lines, the file looked up last, an RWMutex | add files, lines, line infos; look a position up; write and read the set | gcfg's scanner |

Everything but the ring runs as goroutines joined by channels and atomic
counters. What makes that hard:

* **Blocking.** A Pipe is unbuffered unless `ChanLimit` is configured, DeltaChan
  and `delta` are bounded: a slow storage or index holds up handlers, these hold
  up others, and the monitor too.
* **Interleaving.** Handlers fan lines out replica by replica, in orders that
  differ per metric; a sender's select races its ticker against its Pipe; the
  monitor's three swaps fall between other goroutines' increments; a handler may
  be gone before the accept loop has counted it.
* **Failure.** An attempt whose answer is lost may have been executed; after the
  third failure a batch is dropped and nobody is told; a name is cached as
  indexed before deltaSender has tried.
* **Ordering.** Pipe, buffer, batch and retry must keep each connection's order.
* **Numbers.** The ring's walks wrap an index and end by comparing with a
  `count` that repeated calls of Add push up; `n` may be 0 or negative; a
  storage's `num` is one less than configured; the monitor compares seconds.
* **Input in pieces.** TCP cuts lines anywhere; a client may stop, die or close
  in the middle of one, and Scanner hands out what there is of it; the read
  deadline runs while parse is blocked.

What makes each part correct:

* data path: each accepted line goes once to one sender of each of its
  replicas; order per connection; a batch is frozen while it is posted; each
  line's outcome is explained by its attempts; nobody blocks for good;
* connection input: parse is called with the client's lines, in order, each
  once; a line that is cut off cannot become another metric or value; nobody is
  cut off for time the handler was busy; a dead client does not keep its handler;
* ring: derived fields agree with the circle; lookups answer the nearest
  distinct elements, as many as asked for, and return; Set does what it says;
* delta: no name offered twice, none forgotten, the dump's names not offered;
  DeltaChan is emptied; an announced name gets into the index (it need not);
* monitor: nothing counted twice or dropped; reports consistent with each other;
* start-up: every configuration it accepts gives a ring and senders on which
  `parse` neither panics nor hangs;
* gcfg: no literal the scanner accepts makes `unquote` panic; a value means what
  is written; a failing file leaves what its good lines say, and no more than the
  number a refused value begins with; reading ends;
* positions: files' ranges are disjoint; a lookup answers the file, line and
  column of its position, however lookups overwrite the cache under each other;
  `File.Position`, which takes no lock, answers what was true at some moment of
  the call (it need not).

## 2. Plan

| step | modules | composes | status |
|---|---|---|---|
| 1 | `Relay`, abstract `Delivery`, `MCRelay` | handlers, Pipes, senders, storage | done |
| 2 | `Consistent`, `MCConsistent` | lookups and writers under the RWMutex | done |
| 3 | `Delta`, `MCDelta` | DeltaManager, deltaSender, metricsearch | done |
| 4 | `Monitor`, `MCMonitor` | listener, handlers, senders' counters, monitor | done |
| 5 | `RelayProofs`, `MonitorProofs` | | done |
| 6 | `Startup`, `MCStartup`: from the configuration file to the first lookups | INSTANCE of `Consistent`: `Add` and the lookups | done |
| 7 | `Connection`, `MCConnection`: Scanner, deadline, parse's checks | in front of `Relay`, whose `Read` and `Reject` it details | done |
| 8 | `Gcfg`, `MCGcfg`: scanner, `unquote`, `readInto`, `set` over bounded texts of character classes | | done |
| 9 | `FileSet`, `MCFileSet`: positions, concurrent lookups, write and read | | done |
| 10 | `DeltaProofs`, `ConnectionProofs`, `FileSetProofs`, `ConsistentProofs`, `StartupProofs`; fan-out and the refinement of `Delivery` in `RelayProofs`; `GcfgProofs` | `StartupProofs` cites `ConsistentProofs` for the ring of `Startup` | done |
| 11 | `GcfgProofs`: the second readings and the meaning of values | | done |
| 12 | `Batching`: one sender under a load without end | `Relay` is shown to implement its steps | done |

Two steps that were planned are left out. An atomic ring that `Consistent`
implements would say of a lookup that it answers in one step what `GetNClosest`
and `AnswerComplete` say of its answer, on the ring of one moment. A module of
`Relay`'s handlers, `Monitor` and `Delta` on one DeltaChan would have the product of
their states for what section 7 says in a paragraph.

Abstract specifications: `Delivery` (what the relay owes) is stated, and that
`Relay` implements it is checked and proved. `Batching` is `Relay`'s sender with
the lines reduced to one that is watched and all others; that `Relay` makes its
steps is checked. `Written` of `Gcfg` is one for a
function: what a value means, which scanner and `unquote` are proved to compute.

All modules that theorems are about are free of RECURSIVE operators.

## 3. Modules

**Relay** is the data path. `conn[c]` is a handler's program counter with the
line in hand and the senders still to be served (`todo`); `Read`, `Reject` and
`Close` are the outcomes of `Scan` and of parse's checks, `Enqueue` (`HandOver`
on an unbuffered Pipe) is `w.Pipe <- line`, `Announce` is
`boss.DeltaChan <- metric`. A sender is `buf`, `send`, `tick`, `phase` and
`retry`; `Receive` and `TakeTick` are the cases of its select, `PostOk`,
`PostFail` and `Wake` the loop of `send_data`, `Settle` what follows its return
(`CountAndReset` is lines 139-143). A blocked channel operation is a disabled
action. `hits` and `settled` are history: attempts the storage executed, and
each line's outcome. Line contents are abstracted to connection, position and
metric; the ring's answer is the constant `Replicas`, of which only what
`Consistent` checks is assumed. The random draws for all replicas of a line are
made when it is read, as they depend on nothing that changes.

**Delivery** is what the relay promises: a (line, host) pair is owed, and later
settled with some others of its host, for good, as stored or as lost.
`Relay!D` instantiates it with a refinement mapping.

**Batching** is one sender, for the question that bounded lines cannot ask: is a
line settled although the Pipe is never left in peace? A line is `mine`, the one
watched, or `other`; the buffer is a set, so that any number of others may come;
there is always one on offer. The sender's actions are Relay's. `TickerReady` is
the ticker's case of select, which a busy Pipe does not take away. In Relay,
`Watched`, `Class` and `Batch` map every line and sender to an instance of it, and
`ImplementsBatching` says that each step of Relay is one of Batching or a stutter
there, buffered, unbuffered, and through retries.

**Consistent** is the ring. A hash function is the constant `Points`; the circle
is a function on its hashes. Each Add and Remove is one step under the write
lock (waited for in `AddLocked`, `RemoveLocked`), Set is a sequence of such
calls decided on what it read at first, a lookup holds the read lock and walks
index by index (`WalkOn`, `Around`), as GetN and GetTwo do. `ReadersInside` and
`WriterWaits` are Go's RWMutex with its preference for writers. `GetNPanics`
is `make` with a negative capacity. Wherever the code trusts `count`, the
properties say under which counts the answer is right; `SetKeepsCount` says that
Set, unlike Add and Remove, never makes it wrong.

**Startup** leads from `mylib.Load` to the first lookups: a definition of a
storage is kept, passed over or the end of the program (`parseStorages`);
`StartWorker` is one turn of startWorkers' inner loop and performs
`Consistent`'s `Add` on the ring's variables; `MakeBoss` decides `Single`; then
the listener, the monitor with its `Senders[0]`, and parse's lookups, which are
`Consistent`'s actions, run side by side. `RelayAssumptionsHold` is what Relay
and Delta assume of senders, hosts and the ring's answers, so that the constants
of those modules stand for what start-up makes.

**Connection** is one handler in front of `Relay`: `got` characters of the stream are
in Scanner's hands and `used` of them given out; `Read` takes any piece of what has
arrived, `ReadFails` is a full buffer, the end of the file or the deadline,
`SocketError` any other error of the connection, `Split` hands the next token to
parse, and `Parse` is the return of parse after any time. `Accepts` is parse's checks.
The lines of a stream are what lies between its n-th and its next line break, the
fields of a line what begins at its n-th start of a field (`Rank`, `Nth`). Time
(`Tick`) passes only where the handler is blocked, in parse or in a read with nothing
to read: that is where 60 seconds can pass, and a read for which there is something
returns.

**FileSet** is gcfg's copy of Go's `token` package. A lookup is two steps under
the read lock, the look at the cache (`Lookup`) and the search that writes it
(`Search`), so that lookups overwrite the cache under each other; what changes
the set waits for them. `File.Position`, which takes no lock, is a step for each use
it makes of a table: `FindLine` searches the lines, `FindColumn` takes the start of
the line that was found, `FindInfo` searches the line infos, and `CountOn` searches
the lines once more, for what the info's line is counted from; lines, infos and a
new table may come between any two. `ReadSet` makes new Files from what `WriteSet`
encoded.

**Delta** is DeltaManager (`loadCache`, `Take`, `Offer`), deltaSender
(`Receive`, `AddOk`, `AddFail`) and the index, which may be down, execute a
request it then seems to fail, or break its dump off. A lookup for the storage of a
name is taken to return an answer, which `Startup` guarantees but where the finding
about GetN bites. The hash of a torn last
line, or of a line of an error page, may get into the cache (`Stray`).

**Monitor** is the accept loop (`Accept`, `CountConn`, `CountAlive`: the handler
is started first and counted afterwards), the handlers and senders as far as
they count, and monitor: `Swap` evaluates one argument of `send_mon_data`,
`AnnounceOwn` puts one name on DeltaChan, `Post` is the whole of `send_data`.
What Relay models in detail, how a line becomes copies, is here a number of
copies, at most `Rf` per line, that are due.

**Gcfg** is the reader of the configuration file, a sequential program whose inputs
are the interesting part: a text is a sequence of character classes. The scanner is a
set of operators on a text and a position in it, each loop of it a recursive function
on the states of that loop (`scanString`, `scanValString`, `stripCR`, `Scan`);
`readInto` is one action per token it looks at, `want` being the place in its code.
Every scan is followed by a check for errors before its token is used, so that a scan
with an error gives a token `ERROR` and the scanner's recovery is left out. `set`
works on a table of sections and variables in place of reflection, and `With` is the
store into the map that the configuration is here. A variable holds a string, a bool
or a scanned value (a number, or what no other setter takes), or a slice of them, or a
pointer to one. `Converts` says whether its setter takes a text and `Converted` what
it stores; what `fmt.Sscanf` reads of a text, and whether that is all of it, is the
constant `Scanned`. `ScanFully` scans into the variable itself before it can tell that
something is left over, and `HalfSet` is what that leaves behind: nothing where set
has a new element or a new pointer in hand, which it drops. `Reread` reads the same
configuration a second time, from the text with CR LF line ends or cut before the
failing statement; the relation of the two readings is what two of the properties are
about. `Written` defines the meaning of a value from the text as a whole, without the
scanner: by the parity of the backslashes and quotes before a place (`EscapedAt`,
`QuotedAt`), and by picking the places that are kept.

## 4. Runs

| run | instance | shows |
|---|---|---|
| `relay_ring` | 2 connections, 2 storages with a sender each, opposite replica orders, unbuffered Pipes (the default), DeltaChan of 1, 1 attempt, 1 line each, fairness | `FanOut`, `CountersAgree`, `ImplementsBatching`, `ParseReturns` |
| `relay_order` | 1 connection with 2 lines, 2 senders of one storage, Pipes of 1, 3 attempts | `TypeOK`, `PerConnectionOrder` under random draws, `OutcomeExplained`, `ImplementsDelivery`, `ImplementsBatching` |
| `batching` | 1 sender, Pipes of 0, 1 and 2, 3 attempts, no bound on the lines, fairness | `EveryLineSettles` |
| `ring` | 3 elements on 6 hashes, two of them colliding; 1 reader with every key and n from -1 to 4; 1 writer that calls Add, Remove and Set, count within -3..3; fairness | `TypeOK`, `AnswerComplete`, `SetEstablishes`, `RingAgrees`, `GetNClosest`, `SetKeepsCount`, `CallsReturn` |
| `ring_readd` | repeated Add of 2 elements | violates `GetNReturns` |
| `startup` | every list of up to 3 definitions (2 hosts, num 0 to 2, a second port, too short, malformed) and every Rf from -1 to 3; every key; fairness | `RelayAssumptionsHold`, `PanicExplained`, `LookupEnds` |
| `connection` | 28 streams of 2 or 3 lines (good, too short, too long, bad name, bad numbers, empty, with CR and without), each written up to any point; buffer of 9 characters, deadline of 2 ticks; fairness | `LinesFaithful`, `MetricNeverCut`, `TimeoutEarned`, `ConnectionEnds` |
| `delta_cache` | 4 names, 2 of one hash and one of a hash the dump may hold otherwise; `delta` and DeltaChan of 1, 2 attempts, fairness | `OfferedOnce`, `CacheExplained`, `DeltaDrains` |
| `delta_indexed` | 2 names | violates `EveryMetricIndexed` |
| `monitor` | 2 connections, 1 line, Rf 2, 2 own metrics, DeltaChan of 1, seconds 0..2, fairness | `Conservation`, `SendNotAhead`, `AliveAgrees`, `ReportsInOrder`, `MonitorReturns` |
| `gcfg` | all texts of 3 characters of any class, alone or after a header; of 4 in a string value, 3 in quotes, after an escape, in a subsection, as bool, as multi-value, and as number, pointer to one and slice of them, with an earlier value or without | `NeverPanics`, `ValueReadAsWritten`, `LineEndingsAgree`, `FailureKeepsPrefix`, `ReadReturns` |
| `fileset` | 2 goroutines in lookups, one of them also in `File.Position`; 2 Files of 3 characters, every position, tables of up to 3 lines, a shorter table for SetLines, 1 line info before, at or behind a line | `RangesDisjoint`, `LookupRight`, `SettledPositionsRight` |

**Bounds.** Channels of capacity 1 are full and empty within a few steps, and
unbuffered Pipes, the default, are those of `relay_ring`; a line is one of at most two
of its connection, so that one can be in a batch, or lost, while the next is queued.
More hosts, and more senders of one, than a run has are in the theorems about
`FanOut`, `PerConnectionOrder` and `ImplementsDelivery`. `batching` has no bound but
the Pipe's capacities: what a sender holds is told apart only by whether the watched
line is in it. `relay_ring` has the view `WithoutOutcomes`: of the lines that are
settled it forgets whether they were stored or lost, and it leaves `hits` out. No
guard reads these, each action that writes one changes a variable of the view, and the
properties of the run ask which lines are settled, not with what outcome. `MaxRetry`
is 3 where outcomes are told apart by it, and less where only the existence of a retry
matters. On the ring, elements have replicas on the smallest and the largest hash,
next to each other and apart, and every hash is looked up, owned or not: a key below
the first, above the last and equal to a hash. As two elements of `ring` collide, its
`RingAgrees` tests nothing for points that do not (`Disjoint`); the theorem
`DerivedFieldsAgree` covers them. Counts beyond ±3 add nothing to three elements. The
monitor's three seconds allow two reports, so that an increment can fall between any
two swaps of the first and be due in the second. The texts of `gcfg` put each class at
each place of each scanner state: a scanner remembers one bit (inside quotes) and
looks one character ahead (two after a backslash), and prefixes lead into every state
of `readInto` before the free characters start. Two files are enough for a cache that
holds the wrong one, and a second File per place for what ReadSet leaves behind.
Tables have up to three lines, a first, a middle and a last one; the line info lies
before, at or behind each, and a line can be added that it counts from. The view
`Relevant` forgets a saved set that can never be read back, and what a lookup whose
answer need not be right has found. In `connection` the lines of the stream are as
long as the buffer allows, longer, and shorter than parse looks at; the deadline of
two ticks can pass in parse, in a read, or half in each. Two hosts, each with none,
one or two senders, and Rf from one below zero to one above the number of hosts are
all sides that start-up's comparisons have. In `gcfg` the digits of a number may come
behind blanks, before what is too much, or not at all, to a variable that has a value
already or none.

**Stopping.** Deadlock is checked wherever the system can always take a step (a
ticker, a client, the clock). It is not in `gcfg`, `startup` and `connection`,
where the program or the handler ends, nor in `ring_readd`, where a panic in a
lookup ends it.

**Fairness.** Weak fairness of a goroutine's own steps (`Read` of Gcfg, all of
Startup's main and of a lookup, a handler's steps in Connection) is Go's
scheduler: what can run runs, and the steps of `send_data` are one such goroutine's.
Strong fairness of a channel send (one condition per handler for `Enqueue`, `HandOver`
and `Announce`, of which it is in one at a time; `AnnounceOwn` of the monitor) is the
runtime's first-come-first-served queue of blocked senders: a place that is free again
and again goes to each in turn.
`TakeTick` and `Receive` are only weakly fair: in a select that is ready for both,
the random choice takes each after finitely many rounds, and a tick stays until
taken. That neither case is passed over for ever is all that is assumed of select;
that a busy Pipe cannot starve the ticker then rests on both being cases of one
select (`batching`: a sender that looked at the ticker only when its Pipe is empty
would not settle its lines under the same fairness).
That an HTTP attempt ends is the deadline of 60 s in `mylib.DialTimeout`.
`loadCache` uses `http.Get`, which has none (`DialTimeoutLong` is not called):
it has no fairness, and `DeltaDrains` speaks of what follows if it ends.
In Connection time goes on, and that parse returns is Relay's `ParseReturns`.
Lines are never required to come, connections never to close, the index never to
recover.
`SetCheck` is strongly fair because RWMutex lets waiting readers in before the
next writer.

## 5. Findings

* `GetN` may never return (`ring_readd`). `count` counts calls of Add, also for
  an element that is there; with n above the number of elements and the walk's
  start at index 0, `i != start` is tested only after `i` was set to 0 and
  incremented in one pass, and the loop runs for ever under the read lock.
  `consistent.go:184` says "GetN returns the N closest distinct elements", and a
  test asks for 5 of 3. `startWorkers` calls Add once for each sender of a host.
  With the same wrong `count` GetTwo answers one element twice.
* A metric may never reach the index (`delta_indexed`): its cache entry is made
  when the name is queued, deltaSender forgets it after three requests in a row
  have failed, and it is never offered again, where `cacher.go:247` says "all
  monitor metrics must exist in metricsearch index".

No run, but the reason why `SettledPositionsRight` claims no more than it does:
`File.Position` may answer a line that no moment of its call would have given, though
lines are only added. A file has the line 0 and an info (offset 1, line 7); the lookup
of offset 1 finds line 1; `AddLine(1)` comes; the info's offset is then on line 2, and
1 + 7 - 2 = 6 is answered, where 7 is right before and after. `position.go:99` says
"lines and infos are protected by set.mutex", which `File.Position` does not take.

## 6. Proofs

For every value of the constants that the named assumptions allow (finite or
not where they do not say), TLAPS checks:

* `RelayProofs!TypeCorrect`, `OutcomesExplained`: `TypeOK` and
  `OutcomeExplained` of Relay. `OutcomeExplained` speaks of settled lines and is
  not inductive: it needs that during the loop `hits <= retry` (an execution
  taken for a failure is an attempt that failed), one more only after a success,
  and that the loop is left with `retry = MaxRetry` or a success (`RetryInv`),
  and that a handler inside parse has a line and a sender left (`ConnInv`).
* `RelayProofs!CountersRight`: `CountersAgree`. The lines read, and the copies
  settled, are finite sets of (connection, number) and (sender, place) (`CountInv`),
  each larger by what a step counts: by one line, by one batch; `send` is the length
  of the batch throughout.
* `RelayProofs!OrderKept`: `PerConnectionOrder`. What a sender was ever
  given is `settled`, `buf` and `pipe` in a row; Receive and Settle leave that
  sequence alone and Enqueue and HandOver append to it. For the appended line to
  be the latest of its connection: a sender is in `todo` at most once
  (`TodoDistinct`, from the distinct hosts of `ReplicasAssumption`), and no line
  taken is ahead of its connection's `num`, nor equal to it at a sender still in
  `todo` (`NotAhead`).
* `RelayProofs!FanOutKept`: `FanOut`. The invariant (`FanInv`) follows the
  hosts that have a line, `HostsWith`: those of the line in hand are its targets
  less the hosts still in `todo`, whose hosts are distinct and among the targets;
  those of an announced line are all its targets; and no two senders of a host
  have one line. That serving a sender changes this for no other line needs that
  an announced line is behind its connection, that lines in hand differ in their
  connection, and that a new line's number is larger than any taken (`NotAhead`).
* `RelayProofs!BatchesFrozen`: `BatchFrozen`, from the places of a sender at
  which its buffer is written.
* `RelayProofs!DeliveryImplemented`: `ImplementsDelivery`. Enqueue and
  HandOver accept the line in hand for the sender's host, which is new because
  that host is not in `HostsWith` of the line; Settle settles the batch, which
  nobody else owes: other senders of the host have not got its lines, and the
  Pipe of this one has not (`BatchApart`, from the order). Everything else maps
  to a stutter.
* `MonitorProofs!NothingLostBetweenReports`, `SentNeverAhead`, `AliveRight`,
  `CountersTyped`: `Conservation`, `SendNotAhead`, `AliveAgrees`, `TypeOK`. The
  invariant says for each place monitor can be at which arguments are already
  swapped out, and that copies sent or due never exceed Rf times the lines;
  between the first and the second swap the lines still in `mon.Rcv` are counted
  in, which only works because `metrics_send` is swapped out first.
* `MonitorProofs!SecondsGrow`: `ReportsInOrder`. No report made is later than
  `last`, and a report in the making is (`TimeInv`); the clock may do anything.
* `DeltaProofs!NoNameTwice`, `CacheRight`: `OfferedOnce` and `CacheExplained`,
  together with the types and with what is in hand (`InHand`): a name between the
  look into the cache and the channel `delta` has a hash that is not cached yet.
* `ConnectionProofs!TimeoutOnlyForSilence`: `TimeoutEarned`. While the handler
  scans, the ticks left until the deadline and those it has waited for a line make
  up the whole deadline (`Clock`); parse's return sets both anew, which the renewal
  of the deadline *after* parse is for.
* `ConnectionProofs!LinesRight`: `LinesFaithful`. What parse was given are the lines
  up to a break, all before `used`, or those and a rest that is cut off, after which
  nothing is read any more (`Faithful`); what the buffer holds decides between the
  two, so that `Split` cannot pass over a break (`InputInv`). Lines are counted by
  the ranks of their breaks, and appending to the stream leaves ranks alone.
* `ConnectionProofs!OnlyLastFieldCut`: `MetricNeverCut`. A token begins a line
  (`TokenRight`), the fields of what begins a line are the fields of the line but
  for the last, which begins one (`FieldsOfPrefix`), and parse wants three fields,
  of which the metric is the first.
* `FileSetProofs!PositionsUnambiguous`: `RangesDisjoint`. The files lie one behind
  the other below `base`, those of the saved set below its own base (`SetInv`), so
  that Read, whenever it comes, makes a set of that kind again.
* `FileSetProofs!SearchRight`: `searchInts` finds the last line that begins at or
  before an offset, in every ascending table. The bisection is a recursive function;
  of its arguments for which this failed there would be one with the fewest places
  left (`Least`, which follows from the well-order of the naturals as a fact about a
  set, without induction over an operator), and one turn of the loop leads to fewer.
* `FileSetProofs!LookupsRight`, `UnlockedPositions`: `LookupRight` and
  `SettledPositionsRight`. `last` is 0 or a file of the set, whatever lookups did to
  it, tables ascend, and what a lookup has in hand holds its position (`LookInv`);
  with `RangesDisjoint` it is the only file that does. A table that has grown since
  the call still begins with the lines there were, and the lines added lie behind
  them all: they are no part of the answer for an offset before the last line of the
  call, be it the offset of an info that the line is counted from.
* `ConsistentProofs!DerivedFieldsAgree`: `RingAgrees`. It is inductive with the
  types of the fields and of writers at work (`RingInv`); that sorting gives an
  ascending list of exactly the circle's hashes is proved from the ranks of a
  finite set's members (`AscendingSorts`).
* `ConsistentProofs!SetSound`, `SetCountsRight`: `SetEstablishes` and
  `SetKeepsCount`, where there is one writer (`OneWriter`), as in the program.
  Members, elements in hand and those still to be looked at make up Set's argument
  at each of its steps (`Standing`). With two writers neither holds.
* `ConsistentProofs!ClosestFound`, `AnswersComplete`, `RingTypeCorrect`:
  `GetNClosest`, `AnswerComplete`, `TypeOK`. While a reader is inside, the ring
  stands still. Of a walk, the owners of all places passed are found, no others,
  in the order of their distance (`Walking`): fewer steps from the start is nearer
  clockwise, also across the end of the list. As long as count is no less than the
  elements that own a hash, a walk has some to find until it has as many as were
  asked for or all; GetTwo, which asks a count of 2 or more for a second element,
  needs the very number. `RingTypeCorrect` assumes that there are elements.
* `StartupProofs!RelayServed`: `RelayAssumptionsHold`, for every configuration and
  every list of definitions. No host is lost on the way from the definitions over
  the storages to the ring: while definitions are parsed, the configured hosts are
  those that storages will staff and those the rest wants; while workers start, the
  members and what the other storages will staff (`HostsKept`). count is no less
  than the members, as each sender calls Add, and a lookup has `Rf` for its number
  (`RingServes`). With that the lemmas of `ConsistentProofs` about single steps apply
  to start-up's own Add and lookups (`CP`), and give the answer.
* `StartupProofs!PanicsExplained`: `PanicExplained`, from the same invariant.
* `GcfgProofs!NoPanic`: `NeverPanics`, for every text. Wherever the loop of
  scanString or of scanValString stands, unquote, run over the literal so far
  (`Plain`; without its CRs, `Stripped`), stands between two characters, inside
  quotes exactly if the scanner is (`StringRight`, `ValueRight`, from one lemma per
  turn); for a value also where the literal would end. That the recursive functions
  define something, and that what a turn keeps holds where a loop ends, is proved
  once for all loops with less left to do after each turn (`LoopDefined`,
  `LoopKeeps`), again by a least counterexample. The inductive invariant of readInto
  is that the token in hand is one of the scanner's (`GInv`).
* `GcfgProofs!FailureRight`: `FailureKeepsPrefix`. The second reading happens when the
  first is gone but for its result, so that readings are made objects: a function from
  numbers to states of readInto, each the `Shift` of the one before (`Path`), of which
  `Read` makes one more (`ReadShifts`). A reading that fails in a statement that
  begins behind place `c`, and one of the first `c` characters, go through the same
  states until the statement begins, where the second finds the text ended (`Compare`,
  `CutReads`); that rests on the tokens of a beginning being those of the text
  (`ScanOfBeginning`), on a reading that is past `c` not coming back to a statement
  that begins there (`Past`), and on nothing being stored of the failing statement
  (`Failing`) but what a refusing setter leaves in its variable (`HalfSet`): of the
  values of a reading that fails, those at rest are told from the refused one
  (`Resting`, `RefusedBy`, `RefusalValues`). The inductive invariant `CutInv` says
  what every reading of the text in hand leads to; it quantifies over readings, so
  that TLC cannot check it.
* `GcfgProofs!LineEndingsRight`: `LineEndingsAgree`. The text with CR LF line ends
  comes with a function from the places of the one text to those of the other
  (`Dosed`, which `DosMap` finds for every text). A scan that begins at places
  that belong together ends at such places (`Matches`), with one kind and one
  literal (`Twins`, `DosScan`): the loops are taken side by side (`DosString`,
  `BesideTurn`), the one in the text with CRs waiting for the other's LF
  (`BesideWait`), and what CRs got into a literal stripCR takes out (`DosBare`). The
  states of readInto then differ in places only (`Alike`, `DosReads`), and so
  `DosInv`, on top of `CutInv`, tells the result.
* `GcfgProofs!ValuesRight`: `ValueReadAsWritten`. Whether a place is escaped, and
  whether it is quoted, are parities of sets that grow with the place
  (`EscapedNext`, `QuotedNext`), the places kept are picked one after the other
  (`PickedMore`), and both go as unquote goes (`SoFar`, `UnquoteMeans`). While the
  loop of scanValString runs, no place passed ends the value, and the places between
  the end of the literal and the reading position are blanks outside quotes
  (`Spoken`, `WordedTurn`): where it stops, the value's end and its last place are
  those that `Written` names (`SpokenMeans`). `WordedInv` adds to `GInv` that the
  token in hand was scanned from where the `=` ended.

Assumptions are those of the modules: each storage has a sender and the ring's
answer is a sequence of distinct hosts (`HostsAssumption`,
`ReplicasAssumption`), capacities and limits are positive where the code's are
(`LimitsAssumption`, `MonitorAssumption`, with finitely many connections), the
hash function gives every element a point and writers are called with elements
(`PointsAssumption`, `InputsAssumption`), names have a hash and a storage
(`DeltaAssumption`), streams are sequences of characters, a break, a CR and a blank
are three of them, no number is empty and a deadline is not zero
(`ConnectionAssumption`), sizes are not negative (`FileSetAssumption`), every host
has a hash (`StartupAssumption`), texts are sequences of characters
(`SourcesAssumption`) and a variable holds a string, a bool or a scanned value, or a
slice of or a pointer to one (`KindAssumption`; of `Scanned` nothing is assumed).

Every invariant and every action property that a run finds to hold is the subject
of one of these theorems, but for `ImplementsBatching`, which is only model-checked.
So is liveness (`ParseReturns`, `EveryLineSettles`, `CallsReturn`, `LookupEnds`,
`ConnectionEnds`, `DeltaDrains`, `MonitorReturns`, `ReadReturns`), because fairness
and ENABLED are beyond TLAPS, and so are the two findings, which are
counterexamples. `ImplementsBatching` is about steps: that the fairness of `Relay`'s
`FairSpec` is that of `Batching`, goroutine by goroutine, is read off the two.
`TypeOK` of Monitor and `BatchFrozen` are proved and no run checks them: the
first is part of the invariant of the others, and a line that joins a batch while it is
posted is also a step that `ImplementsBatching` forbids. What recursive functions
compute is proved by well-founded arguments about sets of naturals (`Least`), never by an
induction theorem, as those take an operator for an argument.

## 7. Not modelled

CRC32 and siphash (constant functions), the contents of numbers and times in a
line, overflow of the 32-bit counters (they are swapped out every second; a
monitor that is blocked for the time 2^31 lines take blocks behind a DeltaChan
that stops the lines too) and of a FileSet's base (it panics), crashes (nothing
is persisted: what buffers held is gone and the program starts anew), the pprof
endpoint, the log file, the command line, packaging and the start script.

Of gcfg: what `fmt.Sscanf` reads of a text, the modes of integers and `ParseBool`'s
table, which are constants; `textUnmarshaler`, which is the caller's code, and
`big.Int`'s own Scan; the reflection of `set`, which is a table here, and its panics
on a configuration of the wrong shape; the list of errors, which is one
error; `SetLinesForContent`, `Iterate` and the accessors of `token`, and the file
names of its line infos. `File.Position` reads each slice header in one piece in the
model: the race detector would call these reads a race, and a header torn between two
tables is a state that the model leaves out. `AddLineInfo`
takes the first info whatever its offset (`&&` binds tighter than `||`), where
its comment says that one behind the end of the file is ignored; the model
follows the code, and nothing that is checked depends on it.

The consumers of DeltaChan, its producers and the monitor are each modelled with the
rest of that channel as environment; the one system of all three would have the
product of their states, and what crosses the border is only whether the channel is
full, which `DeltaDrains`, `ParseReturns` and `MonitorReturns` guarantee and assume of
each other.
