# Verification of the group membership service

TLA+ modules for the Go program in this repository: a group of nodes that keep a
membership list each, detect failures by SWIM-style probing (`pingack`) or by
gossiped heartbeats (`gossip`), and put a suspicion phase before a failure.
Paths below are relative to the repository; line numbers are those of the
revision the models were written from.

## 1. Inventory

### Components, their state and operations

| Component | Source | State | Operations |
|---|---|---|---|
| Suspicion manager | `utils/suspicion.go` | `entries` (one `suspectEntry` per node: incarnation, reporters, firstReport, confirmed, cleanupAfter), lock `sm.mu` | `ProcessSuspicion`, `ClearSuspect`, `handleSelfRefutation`, `check` every 200 ms, `Start`, `Stop` |
| Manager callbacks | `main.go:44-125` | none of their own | `OnSuspect`, `OnConfirm`, `OnClear`, each in a new goroutine: write the list, broadcast |
| Membership list | `utils/membership.go`, `utils/types.go` | `Members`, own `Incarnation`, `recentUpdates`, an RWMutex | `AddRecentUpdate`, `GetRecentUpdates`, `GetRandomMembers`, `RefreshLocalNode`; most writers lock it and write `Members` themselves |
| PingAck detector | `detectors/pingack.go` | `seqNum`, `pendingAcks`, `pendingIndirect`, `active`, `enableSuspicion` | probe (`performSWIMProtocolPeriod`), `checkFailures`, `cleanupOrphanedEntries`, nine message handlers, `JoinGroup`, `LeaveGroup`, `Start`, `Stop` |
| Gossip detector | `detectors/gossip.go` | `active`, `stopCh`, `enableSuspicion` | `performGossipRound`, `checkFailures`, seven message handlers, `JoinGroup`, `LeaveGroup`, `Start`, `Stop` |
| Network layer | `utils/network.go` | bounded `messageQueue`, `handlers`, `dropRate` | `receiveLoop`, `processQueue`, `Send` |
| Controller | `main.go` | `mode`, the objects above | `Start`, `SwitchMode`, join, leave, suspicion on/off through HTTP |
| Control endpoints | `main.go:435-533` | the HTTP server | `join`, `leave`, `switch`, lists; one goroutine per request |
| Log query service | `logquerier/` | per host a connection, a grep, two channels | `Run` asks all hosts, `connection` reads one, `fanIn` merges; `handleConnection` runs a grep and streams its lines |

### How they interact

All messages are handled one after the other by the goroutine of `processQueue`.
Most handlers merge the message into the list in one critical section of the
list's lock, give the lock up, and then call the suspicion manager once or more.
The probing loop (pingack) or the check loop (gossip) does the same, so up to two
goroutines are inside the manager at a time. The manager in turn writes the list
under the list's lock, never while it holds its own, and spawns callbacks that
write the list some time later. `checkFailures` of the pingack detector has a
goroutine of its own, and so has the manager's `check`.

Requests to the control port run beside all that, and beside each other. They start
and stop the detectors and set their flags, mostly without a lock. A query of the log
querier shares nothing with the rest of the node but the process.

### What is hard, and what makes each component correct

- *Manager.* Its operations are sequences of critical sections of two locks with
  gaps in between (`suspicion.go:114-125`, `:146-149`, `:186-188`, `:283-287`). It is
  correct when an escalation rests on enough reports of that incarnation, no report
  is lost or counted for another incarnation, escalated suspicions end, verdicts are
  forgotten.
- *Callbacks.* They run in any order and overwrite. The list should not go back in
  time because of them.
- *Merge rules.* Messages are lost, duplicated and reordered, so what decides is the
  incarnation: evidence must never take an entry back to an older one.
- *Failure checks.* Several timers act on one member. Whatever happens, a suspicion
  is resolved and a failed member goes.
- *Probe.* Acks, relayed acks and timeouts race, matched by number and target, and
  numbers begin again with the process. An ack has to be the target's own answer.
- *Group.* What nodes say of each other travels by four kinds of messages and by
  piggybacked updates. What is said of one node must not turn against another, nobody
  may take himself for dead, and incarnations must come from their owners.
- *Lifecycle.* Loops, handlers and flags of two detectors are started, stopped and
  switched by requests at the same time. A switch has to be complete, a channel closed
  once, a stop has to end.
- *Log query.* Five goroutines and a process hand a line on. No line may get lost, be
  doubled or reordered, hosts that fail must not hold up the others, and everything
  that was started has to end.

The complete list of hazards, each with its line and the properties that cover it,
is in `PROJECT.json` under `hazards`.

## 2. Modules

| Module | What it is |
|---|---|
| `Members` | Entries of the list and the merge rules, one operator per critical section |
| `SuspicionCases` | Abstract specification of the manager's bookkeeping: one case per node, open, escalated, closed, and the callers that found none and may open one |
| `Suspicion` | The manager with its callbacks, one action per critical section, under the most general client |
| `SuspicionReports` | `Suspicion` with a history of the reports made, to state the quorum property |
| `DetectorNode` | One node: list, manager, handler goroutine, detector goroutine, failure checks, in either mode |
| `MCDetectorNode` | Values of `AddressOf` for model checking |
| `ProbeOutcomes` | Abstract specification of a protocol period: it ends well only if the process it probes has answered |
| `Probe` | The probing protocol between several nodes, with helpers, over a lossy network, with restarts |
| `Cluster` | A group in gossip mode: lists, managers, late callbacks and the messages between nodes |
| `MCCluster` | Bounds and symmetry for model checking `Cluster` |
| `Lifecycle` | Start, stop, switch, join, leave and shutdown of the two detectors in one process |
| `LogQuery` | One query of the log querier over several hosts |
| `SuspicionProofs`, `SuspicionReportsProofs`, `SuspicionCasesProofs`, `DetectorNodeProofs`, `ProbeProofs`, `ClusterProofs`, `LifecycleProofs`, `LogQueryProofs` | Theorems and proofs |

`DetectorNode` extends `Suspicion`, which extends `Members`; `Suspicion` instantiates
`SuspicionCases` with a refinement mapping, and `Probe` instantiates `ProbeOutcomes`.
`Cluster` extends `Members`: it is the composition of several nodes with the same merge
rules. `Lifecycle` and `LogQuery` stand alone.

### Suspicion

State and code:

- `members[t]` is `Members[t]`: status and incarnation, or `Absent`. `incarnation` is
  `MembershipList.Incarnation`.
- `entries[t]` is the manager's entry. `stage` stands for its times: `collecting`
  (firstReport not set), `reported`, `due` (SuspicionTimeout has passed), `confirmed`,
  `expired` (cleanupAfter has passed). There is no clock; `Elapse` is the time that
  passes, at any moment.
- `calls[c]` is where goroutine `c` is inside `ProcessSuspicion` or `ClearSuspect`, with
  the arguments it carries across the gap.
- `toConfirm` is the local of that name in `check`, between its two sections.
- `callbacks` counts the callbacks spawned and not yet run.
- For `SuspicionCases`, an entry is a case, and a call in the window between finding no
  entry and creating one (`FoundNone`) is a caller in `found`.

Each action is one section, from lock to unlock:

| Action | Code |
|---|---|
| `RefuteSelf` | `ProcessSuspicion` about the node itself, `handleSelfRefutation` |
| `ProcessStale`, `ProcessTracked`, `ProcessUntracked` | `suspicion.go:98-114` with `FileReport` for `:134-146` |
| `ReadLocal`, `CreateEntry`, `MarkSuspected` | `:115-124`, `:125-146`, `:148-160` |
| `ClearStale`, `ClearLookup`, `ClearUntracked`, `ClearTracked` | `:166-186`, `:170-179`, `:188-199` |
| `CheckScan`, `CheckApply` | `:260-283`, `:286-303` |
| `OnSuspect`, `OnConfirm`, `OnClear` | `main.go:44-125`, what they write |

The client is the most general one: any call from any goroutine at any time, and
`ListChange` puts anything into the list. So what holds here holds in every program
around the manager. `NodeUsesManager` (section 4) proves that `DetectorNode` is one.

### DetectorNode

It adds the two goroutines that call the manager (`Handler`, `Detector`) with the
calls they still have to make after a merge (`agenda`), and for gossip `quiet`, the
members whose `LastHeartbeat` is old enough for `checkFailures`. `mode` and
`enableSuspicion` are chosen when the node starts and kept: one specification covers
both detectors, with suspicion and without. A goroutine takes its
next message or round only when its agenda is empty (`Ready`). A message with *k*
piggybacked updates is handled as *k* + 1 steps, because `processUpdate` locks anew for
each. `BeginTask` makes the next call. Both detectors use the same rules in their
handlers, so an action names the mode only where they differ: `Ack`, `IndirectAck`,
`DeclareSuspicion`, `DeclareFailure`, `RemoveSuspected` are pingack's, `ConfirmMessage`
and `CheckFailures` are gossip's.

Peers say anything: every message of every sender with every incarnation can arrive
at any time, which covers loss, duplication, delay and reordering. Timeouts expire
at any time.

What the model leaves out of a node: the messages it sends and the recent updates it
piggybacks (nothing in one node reads them; `Cluster` has them), `active = false`,
`SwitchMode` and `SetSuspicion` while it runs (`Lifecycle`), the bookkeeping of a probe
(`Probe`; here it ends without an ack at any time, and its target may have become
anything by then). `handleIndirectPing` changes nothing but
`LastHeartbeat`, which pingack never reads, and runs the piggybacked updates, which
are steps of their own. The unlocked read of `member.Incarnation` in
`declareSuspicion` goes through a pointer; of a Join it sees nothing, the model lets
it see either.

### Probe

A process is `<<address, life>>`: `NodeID` has an address and the second in which the
process began, so a restart is a new identity if it is at least a second after the
last. Messages go to addresses.

- `period[n]` is the one entry `pendingAcks` has while a period runs; `acked` is its
  `ackReceived` channel. When the period is over it holds the verdict.
- `pendingIndirect[n][<<number, target>>]` is the waiter registered under that key, and
  `proxies` are the goroutines that wait. They are two variables because they part: a
  later request takes over the key, and a proxy deletes by key.
- `sent` only grows, so every message can come late, twice, or never.

| Action | Code |
|---|---|
| `BeginPeriod`, `TakeAck`, `DirectTimeout`, `IndirectTimeout` | `performSWIMProtocolPeriod`, `pingack.go:132-237` |
| `HandlePing`, `HandleAck`, `HandleIndirectAck` | `:454-467`, `:548-567`, `:648-662` |
| `HandleIndirectPing` | `:587-618` |
| `Relay`, `Expire`, `Finish` | the goroutine at `:617-645` and its deferred function |
| `CleanupOrphanedEntries` | `:373-406` |
| `Restart` | the end of a process, and the constructor |

What the same handlers do to lists and managers is in `DetectorNode`; here a list may
hold any process that has begun. `answered` and `begun` are history.

### Cluster

`node[n]` is a whole node: its list, its `Incarnation`, the manager's entries, the
callbacks it has started that have not run, and its recent updates. A handler is a chain
of operators over a record of the node and of what it starts and sends (`RunOf`, then
`Change`, `Report`, `ClearSuspect`, `ProcessUpdate` and so on, named for the functions
they are), and `Finish` makes it a step.

| Action | Code |
|---|---|
| `Receive` | the handlers of `Heartbeat`, `Suspect`, `AliveMsg`, `Confirm` and `Leave`, `gossip.go:262-457, 579-590`, with the calls they make |
| `GossipRound` | one heartbeat of `performGossipRound`, `gossip.go:125-172` |
| `CheckFailures` | `checkFailures` about one member, `gossip.go:189-250` |
| `Confirm`, `Forget` | the manager's `check` about one node |
| `RunCallback` | `OnSuspect`, `OnConfirm`, `OnClear`, `main.go:44-125` |
| `LeaveGroup`, `Crash`, `Expire` | a leave, the end of a process, the window of recent updates |

A handler, a check of one member and a verdict are one step each: the gaps inside them
are `DetectorNode`'s. A callback is a goroutine, so it is a step of its own that comes
whenever it likes after the step that started it, finds what it finds, and overwrites it.
All messages go through `sent`, heartbeats too, and are handled in any order, after their
sender has crashed as well, some of them never. There is no clock, so a failure check can
find any member silent, and `missed` remembers whom and at which incarnation. A
heartbeat carries one update or none; one with several is several with one each.

A node that has crashed sends and handles nothing; a node that has left handles nothing
but goes on gossiping and runs its callbacks, because `LeaveGroup` stops no loop. Joins
are not here: nodes start as members of one group, and a node that was removed comes back
by its heartbeats or by what others tell of it.

### Lifecycle

`op[p]` is where a goroutine is: a request of a client in `Clients`, or `Main`. Every
access to a field that others share is a step of its own; a critical section is one
step, and so is each handler registration. Of the gossip loops the module counts how many wait
for which channel (`loops`): `TakeTurn` is a loop that reads `stopCh` again after a
tick, `EndLoop` one that finds its channel closed.

| Action | Code |
|---|---|
| `SwitchRequest`, `JoinRequest`, `LeaveRequest` | `main.go:493-533` |
| `SetMode`, then stop and start, then `SetSuspicion` | `SwitchMode` and `SetSuspicion`, `main.go:251-272` |
| `StopGossip`, `CloseGossip`, `WaitGossip`, `ForgetGossip` | `gossip.go:81-100` |
| `StartGossip`, `Register`, `SpawnGossip` | `gossip.go:51-79` |
| `StopPing`, `StartPing`, `SpawnPing` | `pingack.go:87-108` |
| `JoinGroup`, `LeaveGroup` | `RouteJoin` and `RouteLeave` pick the manager, then `active` is written |
| `Signal`, `Drain`, `StopController`, `StopRest` | the end of `main`, `main.go:422-433`, and `Controller.Stop` |

A close of a closed channel panics. `net/http` recovers a panic of a request, so the request
ends there and the process goes on; in `Main` the process crashes.

### LogQuery

A line is its number in the output of the grep, with a size: `long` for the server's
scanner (64 KB), `wide` if only the JSON object around it is too long for the client's.
From grep to printed line:

| Action | Code |
|---|---|
| `Write`, `Exit` | the grep and its pipe |
| `StartGrep`, `Send`, `SendFails`, `StopReading`, `Close`, `Refuse` | `server.go:93-115`, `:147-209` |
| `Dial`, `DialFails`, `Scan`, `ScanEnds`, `ScanFails` | `connection`, `client.go:134-177` |
| `Pass`, `Show`, `Return` | `fanIn` and `Run`, `client.go:179-199`, `:67-82` |
| `Crash`, `Break` | a host's process, a connection |

The unbuffered channels are hand-overs: `Pass` moves the line a reader offers (`held`) to the
fan-in goroutine (`passing`), `Show` moves it to `Run`. A connection that ends in the
middle of a line hands the client's scanner a part of it, which is no JSON: the reader
reports that (`torn`, `client.go:160`) and goes on to the end of the stream, where it may
report once more (`failing`, `client.go:171`), so there are up to two errors of a host. Nothing cancels the context of
the query before `Run` returns.

## 3. Runs

| Run | Specification and instance | Checks | Result |
|---|---|---|---|
| `suspicion_quorum` | `ReportSpec`, 2 callers, 1 node, 2 reporters, quorum 2, incarnations 0..1 | `TypeOK`, `QuorumBehindEscalation`, `ImplementsCases` | holds, 1.7 M states |
| `suspicion_reports` | `Spec`, 2 callers | `AggregatesReports` | violated |
| `node_safety` | `NodeSpec`, 1 peer, incarnations 0..1, both modes, suspicion on and off | `NodeTypeOK`, `OnlyCallbacksAndJoinsLowerIncarnation` | holds, 1.6 M states |
| `node_live` | `FairNodeSpec`, 1 peer, one incarnation, both modes, suspicion on and off | `NoCasesWithoutSuspicion`, `SuspicionsAreResolved`, `SilentFailedGoes`, `EscalationReachesVerdict`, `VerdictsAreForgotten` | holds, 50 k states |
| `probe` | `Probe`, addresses a, b, t; a and b probe t, b helps, a or t restarts once | `TypeOK`, `NoOrphans`, `AcksAreFresh`, `ImplementsOutcomes` | holds, 489 k states |
| `lifecycle` | `Lifecycle`, 4 requests, the first two of which may overlap others | `TypeOK`, `WhatSwitchesLeave`, `StopsCanEnd`, `GossipClosesOnce`, `StopsEnd`, `ShutdownEnds` | holds, 274 k states |
| `cluster` | `Cluster`, 3 nodes, suspicion on and off, incarnations 0..1 | `TypeOK`, `SuspicionsStartWithAMiss`, `NobodyCondemnsItself`, `IncarnationsAreGranted`, `TheDeadStayDead` | holds, 2.3 M states |
| `logquery` | `LogQuery`, 2 hosts, one of which has faults, 2 lines each | `TypeOK`, `NothingLostOnTheWay`, `MissingLinesAreReported`, `EveryStepIsWork`, `QueryReturns`, `AnswersAreShown`, `GrepsEnd` | holds, 280 k states |
| `cluster_stale` | as `cluster` | `OnlyStaleHeartbeatsAreIgnored` | violated |
| `node_failed` | `FairNodeSpec`, pingack | `FailedIsTemporary` | violated |
| `node_stale`, `node_verdict` | `NodeSpec`, both modes | `NoStaleOverwrites`, `OnlySuspectsAreConfirmed` | violated |

What they show:

- **Quorum.** Whatever escalates, is confirmed or called back about an incarnation has
  `RequireReports` reports of that incarnation behind it, with all interleavings of two
  callers, clears, checks and late callbacks.
- **Refinement.** With both goroutines calling, the manager keeps its cases as
  `SuspicionCases` has them. There, reporters only join and stages only advance, with one
  exception that is spelled out as an action (`OpenCase`): a caller that found no case,
  gave `sm.mu` up and comes back stores its own over whatever is there by then. So the
  window of `ProcessSuspicion` is the only way a report takes a case back. It is
  taken: `suspicion_reports` is the trace in which both callers find no entry and the
  second stores a fresh one over the first's, where `README.md:31` says that the manager
  aggregates reports.
- **Time.** Escalations that nothing clears end in a verdict, and verdicts are
  forgotten. In a node, suspicions are resolved even when the manager has no case of
  the member, thanks to `checkFailures`. In gossip mode a Failed member that falls silent
  goes; in pingack mode it can stay for ever (`node_failed`), where
  `README.md:112` has it retained temporarily.
- **Incarnations.** An entry goes back in time only by a Join and by a late `OnSuspect`
  or `OnConfirm`. The latter is `node_stale`: the peer becomes known, a Suspect of
  incarnation 0 marks it and starts `OnSuspect`, a newer incarnation arrives, then
  `OnSuspect` writes incarnation 0. `README.md:120` says incarnations avoid stale overwrites.
- **Verdicts.** `node_verdict`: a Suspected member pings, `handlePing` makes it Alive but
  does not tell the manager, whose entry runs out, and `check` makes it Failed.
  `README.md:14` gives the order Alive, Suspected, Failed.
- **Probes.** A period that ends with an ack had its target itself answer a ping of that
  number, relayed or not, whatever the keys of `pendingIndirect` collide with. That
  the answer is *of this period* holds only as long as no other process has used the
  number for that address: the exception in `AcksAreFresh` is real, and
  dropping it gives a trace in which a helper's own probe of the target settles a
  request of the same number, or a restarted node takes an ack of its former life. No
  waiter outlives its goroutine, whichever entries `cleanupOrphanedEntries` takes for old
  (the model lets it take any).
- **The group.** Behind every suspicion of a node, wherever in the group and however late
  it is told, is a failure check that missed that node at that incarnation; nobody is
  listed as anything but Alive who was not missed and has not left. A node that is missed
  need not be silent, though. An `OnClear` speaks of the cleared node's incarnation in its
  own name (`main.go:116`), and the others then hold the node that speaks at an incarnation
  it never gave itself. `cluster_stale` is the trace: its next heartbeats are ignored, where
  `gossip.go:305` takes ignored heartbeats for stale ones, and so it falls silent for
  checks that ask `LastHeartbeat`. Apart from that loan, which `IncarnationsAreGranted`
  names, no incarnation comes from nowhere. No node takes itself for Failed; `OnConfirm`
  leaves the target out, and nothing else prevents it. A crashed node comes back while
  signs of life of it are left: survivors can hand its entry round between them, each
  dropping it while the other still has it, and a late `OnClear` sets Alive whatever the
  entry has become. Once no entry, message, update or `OnClear` that says Alive is
  left, what else is told of it and the other callbacks do not raise it.
- **Lifecycle.** `WhatSwitchesLeave` says what runs after requests that came one at a time,
  with the code's two flaws as part of it: the channel of the pingack loops is closed exactly if
  gossip has ever been asked for (`pingack.go:107` closes what is made once, so
  the loops of a second start end at once), and gossip loops run in ping mode exactly if
  the node had left when the switch came (`gossip.go:83`, `:629`). Otherwise the detector
  of the mode is the one that runs and handles. Overlapping requests close no gossip channel twice,
  unless a join sets `active` in the middle of a stop (`gossip.go:598`).
  A stop waits only for loops that will look at a closed channel next, so a stop, and a
  shutdown, end, unless a start runs beside a stop (`gossip.go:57`, `:71`).
  A shutdown after two stops of the pingack manager ends with a panic (`main.go:182`),
  before the suspicion manager and the network are stopped.
- **Log queries.** What is printed of a host is a prefix of what its grep found. A part
  taken for the whole without a single error happens only where the server refused,
  crashed, or gave up at a long line (`server.go:103`, `:197`). Every step brings the query
  nearer to its end, whatever crashes on the way. It returns, and
  the grep ends, unless the server waits for a grep whose output it no longer reads
  (`server.go:200`); a host that hangs that way does not keep others from being shown.

A run is `tlc -config <cfg> <module>` in this directory, with the names that
`PROJECT.json` gives under `runs`; the proofs are checked with `tlapm <module>`.

### Bounds

`MaxIncarnation` bounds incarnations: two values are enough for "older", "same" and
"newer", and runs about one incarnation use one. `Refutable` and the guard of
`RefuteSelf` stop refutations at the bound. `MaxOutstanding` bounds the different
callbacks pending and `MaxCopies` the equal ones: two different ones are needed to
reorder them, and `node_safety` allows one, enough for a callback that runs after later
messages; a goroutine that would exceed the bound waits, and fair callbacks always make
room. One peer (and one further reporter that is not in the list) is enough where
nodes are handled independently: the manager's entries and the merge rules never look
at another node's entry. Only `Join` does, when it evicts the entries of the sender's
address; no run has two peers that share one yet, the theorems hold for any `AddressOf`.
Two callers are all the program has.

`probe`: two periods are enough for one probe to meet what another has left (the same
number by a helper, a former life, a former period), and `MaxSeq` 2 lets one process
have both; one restart, of the prober or the target; two proxies, which share a key. t is
probed and does not probe, and only b helps: what a node does as prober, target and helper
touches different variables.

`lifecycle`: four requests reach ping, gossip, ping with a leave or join before or
between them; `MaxOverlap` 2 lets requests overlap, in every order of their steps and of
the shutdown's. One message type and one kind of loop stand for the five and the
two: types are registered one after the other by the same code, loops do not see each
other. Suspicion on only: the flag is written and, in this module, not read.

`cluster`: the bounds are a record, chosen with the initial state, and the run takes four
families of them, since together they are out of reach: `Refuting` (incarnations 0 and 1,
one node hands suspicions on, so that their subjects refute them), `Departing` (a
leave or a crash, one node hands on whom it took for Failed or Alive), `Overtaking` (two
callbacks wait at once) and `Reordering` (two messages are under way at once).
In the others one message is under way, and more are lost; one callback waits, and
a step that would start another is not taken. One node is missed at one incarnation, which
starts everything else; the other two are the fewest that can tell each other of it.
The nodes are interchangeable, the initial states included, and no liveness is checked: hence
the symmetry.

`logquery`: with two lines and room for one in the pipe and on the wire, everybody in
the chain can have to wait for everybody else. One host without faults is there
to be shown whatever the other does.

Deadlock is checked in all runs but those of `Probe`, `Lifecycle`, `Cluster` and `LogQuery`,
where a run may stop: periods are used up, a group at the bound of incarnations has nothing left
to say, the process has exited, the query has returned. `LocalNode` need not be in the list in the
`Suspicion` runs (the manager does not care); in `DetectorNode` it is, and initially
Alive at incarnation 0. Peers start absent or alive, as after a `JoinResponse`.

### Fairness

`ManagerFairness`: goroutines that can run do run (calls in progress, spawned callbacks,
the check loop with its ticker), and time passes (`Elapse`). `NodeFairness` adds that the
goroutines go through their agenda and that a member nobody hears from falls quiet. All
this is weak fairness.

`RoundsGoOn` is the assumption about `checkFailures`: a member that stays Suspected, or
in gossip mode Failed and quiet, is removed by some round. The tickers start the rounds
and a round removes every member whose time is up, so it needs no more than that the
member stays as it is: `SuspicionStart` is set anew only by what changes the entry or
escalates a case, and a case that escalated leaves Suspected in the end. In gossip mode
the goroutine of the rounds also calls the manager, and a round that never comes removes
nobody; hence strong fairness, which asks for a removal only when rounds get to it again
and again. The first disjunct limits it to members that stay removable: strong fairness
alone would also remove those that are suspected and revived over and over.

Nothing is assumed of messages: no peer need ever say anything.

`Lifecycle`: a goroutine that can take its next step does, a loop whose channel is closed
ends, tickers tick (`TakeTurn`), the control server stops waiting after its two seconds
(`Drain`). Requests and signals need not come. `LogQuery`: goroutines and greps go on when they can;
nothing has to fail. All of it weak fairness. `Probe` and `Cluster` assume none and
claim no liveness.

## 4. What is proved

Checked by TLAPS, for every value of the constants that satisfies the assumption of the
module: every invariant and every action property that a passing run checks, and both refinements;
besides, a few facts about the merge rules and about where a query can stand still.
The theorems on the left are in `SuspicionProofs`, `SuspicionReportsProofs`,
`SuspicionCasesProofs` and `DetectorNodeProofs` down to `NodeImplementsCases`, then in
`ProbeProofs`, `ClusterProofs`, `LifecycleProofs` and `LogQueryProofs`.

| Theorem | Statement | Argument |
|---|---|---|
| `SuspicionTypeOK` | `Spec => []TypeOK` | inductive as it stands |
| `RefutationIsBelieved` | a refutation is taken over by every list that holds nothing newer than what was refuted; at the largest int32, by none that holds another incarnation | cases of the merge rules |
| `OrderMattersWithinIncarnationsOnly` | messages about different incarnations of a listed node commute | `WeighByIncarnation` |
| `DuplicatesChangeNothing` | a message that comes twice leaves a list as once | cases of the merge rules |
| `QuorumTheorem` | `ReportSpec => []QuorumBehindEscalation` | `ReportInv` |
| `ManagerImplementsCases` | `Spec => ImplementsCases` | each section of the manager is a step or a stutter of `SuspicionCases`; `NoRemains` |
| `NodeTypeCorrect` | `NodeSpec => []NodeTypeOK` | inductive with the manager's types |
| `NodeUsesManager` | `NodeSpec => Spec` | each step of a node is a step of the manager, a `ListChange` or a stutter |
| `IncarnationsOnlyLoweredByCallbacksAndJoins` | `NodeSpec => OnlyCallbacksAndJoinsLowerIncarnation` | per action, from `NodeTypeOK` and `MergeNotOlder` |
| `CasesNeedSuspicion` | `NodeSpec => []NoCasesWithoutSuspicion` | `NoSuspicionInv` |
| `NodeImplementsCases` | `NodeSpec => ImplementsCases` | `NodeUsesManager`, `ManagerImplementsCases` |
| `NoWaiterOutlivesItsProxy` | `Spec => [](TypeOK /\ NoOrphans)` | inductive together |
| `ProbeTypeOK` | `Spec => []TypeOK` | part of the former |
| `AnAckIsNews` | `Spec => []AcksAreFresh` | `HistoryInv` |
| `ProbeImplementsOutcomes` | `Spec => ImplementsOutcomes` | `AnswerInv` |
| `ClusterTypeOK`, `SuspicionsHaveACause`, `NobodyFailsItself`, `NoIncarnationIsMadeUp` | `Spec => []TypeOK`, `[]SuspicionsStartWithAMiss`, `[]NobodyCondemnsItself`, `[]IncarnationsAreGranted` | `StepKeepsTo`, `GroupInv` |
| `TheDeadAreNotRaised` | `Spec => TheDeadStayDead` | `StepKeepsTo`, with another account |
| `LifecycleTypeOK` | `Spec => []TypeOK` | `TypeInv` |
| `GossipStopsCloseOnce` | `Spec => GossipClosesOnce` | `ClosingInv` |
| `LoneSwitchesLeave` | `Spec => []WhatSwitchesLeave` | `SwitchInv` |
| `StopsWaitForLoopsThatEnd` | `Spec => []StopsCanEnd` | `WaitInv` |
| `LogQueryTypeOK`, `NothingIsLost`, `WhatIsMissingIsReported` | `Spec => []TypeOK`, `[]NothingLostOnTheWay`, `[]MissingLinesAreReported` | `QueryInv` |
| `QueriesDoNotGoRound` | `Spec => EveryStepIsWork` | `QueryInv`, and what each step takes off `Work` |
| `QueriesStandStillAtGrepsOnly` | `Spec => []StuckOnly`: who can go on, at each host | `QueryInv`, `CrashInv` |

What the assumptions ask for:

- `SuspicionAssumption`, `DetectorAssumption`: finitely many reporters, natural bounds below
  2^31 - 1, two goroutines, the node in its own list.
- `ProbeAssumption`: the addresses that probe, help or restart are addresses, natural
  bounds, `None` is nothing else.
- `ClusterAssumption`: incarnations below 2^31 - 1, `None` is no node. Nothing is assumed of the
  group or of the other bounds.
- `LifecycleAssumption`: requests are numbered, the message types and loops are among those
  of the code and at least one of each. Nothing is assumed of how many requests come.
- `LogQueryAssumption`: room for at least one line in a pipe and on the wire. Any number of
  hosts, any of them faulty.

The arguments:

- **Quorum.** The property speaks of escalated entries, and that is not inductive: an
  entry escalates by counting the reporters it holds, so those of *collecting*
  entries must be backed too, and so must the reporter that a call carries across the
  window of `ProcessSuspicion` into an entry it creates. `ReportInv` says both:
  `EntryBacked` and `CallBacked`. Reports are never forgotten, so what is backed stays
  so; a newer incarnation starts with no reporters, so nothing is carried over.
- **Refinement.** `Cases!Spec` has an action for each section of the manager: a report joins a
  case or supersedes it, a call enters the window by `FindNone` and leaves it by `GiveUp` or
  `OpenCase`, a clear dismisses, `check` sweeps. A clear that finds nothing changes
  no case only if what is left of a removed entry is nothing at all, which is
  `NoRemains`. No assumption is made of the callers. As a node is a program around the manager
  (`NodeUsesManager`), the same holds in it.
- **Refutations and messages.** A refutation is one more than both numbers it answers, so
  older or equal entries give way to it, be it by heartbeat, update or AliveMsg. The theorem
  is about numbers of 32 bits: at the largest the successor is the smallest, and what the
  other lists then do is stated too. That messages commute is a matter of incarnations:
  evidence of a later one replaces the entry whatever it was, of an earlier one is ignored,
  of the same leaves the number (`WeighByIncarnation`). Within an incarnation the order does
  matter, and for a node that is not listed, where an update creates the entry and an AliveMsg
  does not.
- **Incarnations.** Every merge rule returns an entry that is not older (`MergeNotOlder`);
  the rest is bookkeeping of which action applies which rule.
- **No suspicion.** That the manager is empty is not inductive: a report that waits on an agenda
  or a call between two sections would fill it. `NoSuspicionInv` adds that goroutines have
  nothing but clears to do and are in none but a clear that found nothing.
- **Waiters.** A request gives its key to a proxy that was free, and no waiter belongs to a
  free proxy. A proxy that ends deletes what its key holds, its own waiter or that of a
  later request, but never leaves its own behind.
- **Outcomes.** That a period which ends with an ack was answered is not inductive: the
  answer may have come over a helper. `AnswerInv` follows it back, with one conjunct per
  stage: a period that is settled, an `IndirectAck` that was sent and a proxy that was told
  all have an `Ack` of the target's, of the same number, behind them. The second rests on
  the third, and the third on `NoOrphans`: an ack tells the proxy it finds under its own
  number and sender, and that proxy's key is the same. Acks are never taken back, so what
  has been answered stays so, over restarts too.

- **Fresh acks.** That the target has answered *since the period began* needs to know that
  an ack of the past has another number. `HistoryInv` says which numbers a process has used
  (`NumberInv`), that whatever is under way was asked for by a process that began a period of
  that number (`AskedInv`), and that an ack of a process's current number is an answer of the
  current period unless somebody shares the number (`FreshInv`).
- **The group.** An *account* says of every node at which incarnations it may be called Alive,
  be down (listed as anything else) or be in doubt (reported to a manager). A handler is a
  chain of operators over one record; each operator keeps to an account the record does, and so
  does what it starts and sends. `StepKeepsTo` says that a step keeps the whole group, messages
  and callbacks included, to any account that allows what the step itself adds: a
  new incarnation, a miss, a leave. `GroupInv` is the account `Said` of what was granted
  and missed, and the invariants can be read off it. That nobody condemns itself needs more
  than its statement: no `Confirm` about a node is ever under way to it, no manager has a
  case of its own node, no callback is about the node that runs it, and a rumour about
  the node itself takes the way of refutation. `TheDeadStayDead` is the same
  lemma for an account in which a node is Alive nowhere, for the nodes that still run.
- **Lifecycle types.** That channels and loops do not outnumber the requests is a count:
  `Budget` sets those made against the switches that may yet make one. How many loops wait for
  a channel is bounded by how many began, which is the sum over channels; `Census` says
  that sum by naming, for each loop, the channel it waits for.
- **Stops at the same time.** `ClosingInv`: the channel of an active manager is open and
  nobody is about to close it, those who are about to close hold different open channels, and
  a closed channel that is not forgotten yet is some running Stop's. The last conjunct is what a
  JoinGroup relies on when it sets `active` with no Stop under way, and what fails when
  one is.
- **Lone switches.** `SwitchInv` says for each place in `SwitchMode`, `JoinGroup` and
  `LeaveGroup` what holds there when nothing else is under way. Between requests it
  is more than `WhatSwitchesLeave`: the gossip manager is active in gossip mode exactly if the node has
  not left, it is inactive in pingack mode, and no gossip loop waits for a
  closed channel, so none ends by itself.
- **Stops that wait.** That the loops a Stop waits for look at a closed channel is not
  inductive: a Start may replace the channel, or a Stop forget it. `WaitOK` says that nobody
  is in Start while somebody is in Stop, that whoever forgets the channel has no loops left,
  and that from the moment a Stop has taken its channel that channel stays the one the loops
  look at until it is closed. It is kept only as long as no Start comes beside a Stop, which
  is what `WaitInv` adds.
- **Lines.** Hosts do not touch each other, so `QueryInv` is one invariant per host
  (`HostInv`). `InOrder` counts: with a printed, passing, held and on the wire, the n-th line
  of the wire is the one of number a + passing + held + n. `EndOK` says for each way in which a
  server or reader ends which lines can be missing; an end of the stream that
  looks whole to the reader is whole unless the server was cut off or cut off itself.

- **Work.** A line has four stations before it (pipe, wire, reader, fan-in), and `Work`
  counts those that remain, the output not yet written, and the ways the two ends of the
  connection and the grep have to their ends. `WorkSum` splits it into parts, and a lemma per
  group of steps says which part it lowers and by how much others rise (`Scan` takes
  a line off the wire and gives it to the reader). `QueryInv` bounds it below.
- **Standing still.** `StuckOnly` says of every host that the query is over there, that the
  server waits for a grep that waits for it, or that somebody's guard is true (`GoesOn`). The
  guards are those of the steps that fairness is about. Together with the measure it is what
  `QueryReturns` says but for fairness: steps cannot go on for ever, and where they
  stop the only reason is a stuck grep.

Only model-checked: the liveness properties (fairness and ENABLED are beyond the prover)
and the violations, which are traces. The theorems about `Lifecycle` and `LogQuery` hold of
`Spec` with its fairness, and use none of it. Bounds such as `MaxRequests` and `MaxSeq` are constants, so
the theorems hold for each value of them, not just those of the runs.

## 5. Not modelled, and the plan

Not modelled for good: JSON and UDP calls, logging, HTTP parsing, the list endpoints and
the command line, `resolveHosts` and the log paths of the querier, its accept loop, scripts.
The bounded queue of the network layer and its drop rate lose messages, which every
module allows anyway.

Still open, in this order:

1. `RecentUpdates`: the order in which `GetRecentUpdates` hands updates out (the oldest
   five or ten of a window of five seconds, to which every merge appends) and whether an
   update can leave the window without ever having been sent. `Cluster` takes any subset.
2. A group in pingack mode: `Probe` has the messages, `DetectorNode` the lists; the
   refutation of a suspicion that a failed probe raises runs through both.
3. Rejoining with a new identity: `RefreshLocalNode` and two identities of one address in the
   lists of a group. `DetectorNode` has the Join at the receiver.
4. `Timeouts`: a clock, 1.5 s of the checks against 2 s of the manager.

Theorems to add, with the modules they are about: the order of `RecentUpdates`, and that a
refutation in a group reaches every list it was suspected in (`RefutationIsBelieved` has what a
list does when it arrives). All safety properties of the present passing runs are proved.
