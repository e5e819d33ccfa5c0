# WAU-scheduler: a verification project

TLA+ modules for the scheduler library in `src/`: which agent a task goes to
(`scheduler/`), when an agent may spawn another one (`scheduler/`), and how
tasks that wait for each other are found and broken up (`internal/deadlock/`).
TLC checks the modules on small instances; TLAPS proves the theorems for every
value of the constants.

Run `tlc -config X.cfg M.tla` for the runs below and `tlapm M.tla` for the
proof modules.

## 1. The system

| Component | Source | State | Operations |
|---|---|---|---|
| Scheduler, dispatch | `scheduler/scheduler.go` | the scoring engine, three policy pointers under `mu`, the caller's `Task` | `Schedule`, `ScheduleSimple`, `pickBest`, `RetryTask`, the setters |
| Scheduler, replication | `scheduler/scheduler.go` | the same | `Replicate`, which decides and writes nothing |
| Scheduler, watchdog | `scheduler/scheduler.go` | `running`, `stopCh`, the loop's goroutine | `StartWatchdog`, `StopWatchdog` |
| SleepPolicy | `scheduler/sleep_policy.go` | thresholds | `FilterAsleep`, `ShouldWake`, `PickWakeTarget` |
| ColdRoutingPolicy | `scheduler/cold_routing.go` | `hashSeed`, no lock | `ShouldExplore`, `SelectCold` |
| ReplicationPolicy | `scheduler/replication_policy.go` | `childCounts` under its own mutex | `CanReplicate`, `ChildCount`, `RecordChild`, `Reset` |
| ScoringEngine | `scheduler/scoring.go` | weights, a DataSource | `ScoreAgents`, `IsCold`, `IsAsleep`, `TrustScore` |
| DataSources | `scheduler/datasource*.go`, `trust_datasource.go` | maps under a mutex, Redis, or the wau-trust engine around either | one read per dimension, the setters of the memory source, `Replicate`, `RollbackReplicate`, the records |
| WaitForGraph | `internal/deadlock/graph.go` | adjacency lists, one goroutine | `AddEdge`, `RemoveEdge`, `RemoveNode`, `HasCycles` |
| Detector | `internal/deadlock/detector.go` | edges with their age under an RWMutex | `RecordEdge`, `RemoveEdge`, `RemoveNode`, `CheckOnce`, `Start`, `Stop` |
| Breaker | `internal/deadlock/breaker.go` | `killTimestamps`, no lock | `Handle` |

The registry, the wau-trust engine and the kernel that carries a replication
out are other repositories; they appear as the environment, with the behaviour
the code here relies on.

How they interact. `Schedule` reads the online agents from the registry, has
the engine score them (one card and up to eleven data reads per agent), copies
the two policies under a read lock, filters sleepers and perhaps draws from the
cold pool; no lock spans two of these reads. `Replicate` reads policy, card,
cold flag, trust and child count in five separate steps, and the kernel then
writes trust, registers the child and counts it in three more. A detector check
holds the read lock of the edges from the first edge to the last trust lookup;
its victims reach the breaker through the caller, later.

What is hard, and what correctness means:

* **Dispatch**: everything may change between two reads, reads fail one by one.
  An agent asleep all along must not be chosen; the choice must be the best of
  what the filter leaves; no answer only if there is nobody.
* **Scoring**: reads of many moments, of Redis key by key, each able to fail;
  fifteen curves that rise and fall. Scores must stay in range, the better agent
  must not come out behind, a lost read must count as no data, no agent may lose
  its place by another's trouble, and the sort must keep every score.
* **Replication**: decide-then-count by several kernels, policies swapped and set
  again, crashes and rollbacks in between. It must be clear by what the limit may
  be passed; nobody replicates without having earned it; no trust is orphaned.
* **Cold routing**: an unlocked generator shared by all calls. Zero never sticks,
  and draws spread.
* **Deadlock**: the report must be exact and not depend on the queue's order; a
  victim must still be deadlocked when it is cancelled; the quota must count
  every kill; a cycle must be broken in the end.
* **Lifecycle**: start, stop and cancel in any order; one loop, and it ends.

## 2. The modules

| Module | Models | Properties |
|---|---|---|
| `Dispatch` | a call of `Schedule` or `ScheduleSimple`, read by read, `RetryTask`, the setters, registry and trust engine | who may be chosen; calls end |
| `DispatchProofs` | | type, `CallInv`, the four properties and the refinement, proved |
| `Dispatcher` | what a caller is promised: a call ends in one step | implemented by `Dispatch` |
| `Ranking` | the second half of `ScoreAgents`: exchange sort and ranks | every score once, best first |
| `Dimensions` | the curves of the fifteen dimensions, weights, fallbacks | |
| `Scoring`, `MCScoring` | `ScoreAgents` read by read over the data sources, composed of the two, and `PickWakeTarget` | who is ranked, range, better is not lower, lost is unknown, wake target |
| `ScoringProofs` | | both types, the order, and the five properties, proved |
| `Replication`, `MCReplication` | `Replicate`, the policy, the kernel's three writes | overshoot, earned decisions, expected trust, orphans |
| `ReplicationProofs` | | type and the four properties, proved |
| `WaitForGraph` | the graph and Kahn's algorithm, one pop per step | the report against two reference definitions |
| `WaitForGraphProofs` | | type, exactness of the report, what it is in terms of paths, and the refinement, proved |
| `StuckSets` | what `HasCycles` answers, as a definition; shared by the next and `Deadlock` | |
| `CycleReport` | what the graph promises: a set of edges, an answer in one step | implemented by `WaitForGraph` |
| `Deadlock` | detector and breaker, composed with tasks and time | victims, records, quota, cycles broken |
| `DeadlockProofs` | | type, victims stay stuck, one cancellation, records and quota, proved |
| `ColdRouting`, `MCColdRouting` | the draw and the index, the unlocked seed | zero is mended; draws do not spread |
| `ColdRoutingProofs` | | type and zero is mended, proved |
| `Lifecycle` | the watchdog and the detector loop | one loop, no crash without restart, loops end |
| `LifecycleProofs` | | type, one loop and the crash, proved |
| `Numbers` | | the least number of a set, for the other proofs |

`PROJECT.json` maps each definition to the lines it stands for.

### Dispatch

A caller walks through `pc`: *list* (`GetOnlineAgents`), *score*
(`ScoreAgents`), *pick* (the policies are copied), *sleep* and *filter*
(`FilterAsleep`, one candidate a step), *explore* and *cold* (`ShouldExplore`,
`SelectCold`, one candidate a step), *assign* (the tail of `Schedule`). `loc`
holds its local variables. Total scores are drawn freely and ranked (`Scoring`
says how they come about); an agent whose card cannot be read is skipped. The
engine is one of three kinds: with a DataSource that knows who sleeps and who is
cold, without one (what four constructors build: no agent is ever cold or
asleep), or nil. `pickBest` reads `s.scoring` anew for each
filter, and so do `EnterFilter` and `EnterCold`. Whether a draw explores is
left open here; `ColdRouting` decides it. The environment changes one thing a
step, at most `MaxChanges` times while a call runs. The history variable `seen`
collects what was true at some moment of the call, so that "asleep for the
whole call" can be said.

`Dispatcher` is the same seen from outside: `Begin`, and then in one step `Give`
or `LeaveTask`. `Promise` in `Dispatch` maps the points of a call to *busy* and
the history to what the call `met`.

### Scoring

One call of `ScoreAgents`: for each agent `GetAgent`, `GetLoad`, a `Read` or
`TwoGets` for each of eleven dimensions in the order of the code, `AddScore`;
then `Sort`. `Steps[at]` is the next read. Five ways to build the engine are
compared: without a source, over memory or Redis, each bare or wrapped by
`WauTrustDataSource`, with or without a registry. A rate takes two GETs of Redis
(`half` is the answer of the first), and one read under the mutex of memory. Any
read that can fail may fail; which dimension then gets which neutral value is
`Fallback` and `Failed`. Meanwhile heartbeats, setters, trust records, expiry
and the writers of the Redis counters change the data. The writers are not in
the repository: a task is counted when it begins and its outcome when it ends.

`Dimensions` counts in points, 600 to 1.0, so that the constants of the curves
are whole; a total has a thousand times as many. Logarithms are exact at the
values taken: a latency is its place on the code's log scale, bandwidths and
task counts are powers of ten. `Kinds` says what each field of an agent's data
may be, wide enough for what any source stores. `Ranking` leaves totals open,
and `Scoring` takes its actions for what happens to the slice. Histories:
`shown`, all that an agent's data were during the call; `lost` and `torn`, the
reads that failed, those of a card included, and the rates that were read across
a change; `regular`, the agents whose counts always added up and whose load
stayed within its limits. `agentIDs` is the argument of the call, and stays:
`ScoredAreRanked` compares the answer with it.

### Replication

A kernel walks through *parent*, *cold*, *trust*, *gate* (`Replicate`) and
*decided*, *written*, *registered*, *undo* (the protocol in the comment of
`Replicate` and in `types.go`). `policy` is the pointer `SetReplicationPolicy`
stores: nil or any object, one that was in force before included, which still
has its counters (`count`). A kernel gates with the object it read at the start
and counts on the one in force at the end. The objects share their settings.
Trust is a level, inherited by a function `Inherit`: the jitter of the engine is
taken to be deterministic, as `replication_policy.go:46-49` says. Histories:
`foreign`, the children an object counts that another one let through; `peak` and
`stale` in `loc`; and `lost`, the children a crash or a failed rollback left.

### WaitForGraph

`HasCycles` computes in-degrees and the queue, `Process` pops the smallest node,
`Finish` reports. Edges change only between two calls: a graph belongs to one
goroutine. The slices of `adj` are sets, as `AddEdge` never stores an edge
twice; that removals reuse their arrays is thereby left out. Keys with empty
slices are kept. `Report` maps the lists to a set of pairs
and the result to the one answer of `CycleReport`.

### Deadlock

`CheckOnce` takes the read lock and computes the deadlocked tasks of the old
edges as one step, with the definition of `StuckSets`: `CycleReport` is proved
to be what the loop of `WaitForGraph` implements; `Weigh` asks for scores
and releases it. `Handle` is `CanKillRead`, `CanKill`, and per victim `Cancel`
or `CancelFails`, `RecordRead`, `RecordKill`, `RemoveNode`: reads and writes of
the unlocked `killTimestamps` are steps of their own. Time is a count of ticks
of one `Threshold`; an edge is young or old, a kill has an age up to an hour.
The lists given to `Handle` are sets, cancelled in any order: a task that stands
twice in a list is not represented. Histories: `cancels`, the ages of the
cancellations; `cancelled`, the tasks cancelled and not seen waiting since
(`RecordEdge` takes out the one that waits, and not the one it waits for);
`awaited`, those of them recorded as waited for. A breaker without a detector, which then removes no edges, is not modelled.

### ColdRouting

Words are numbers below `Words`, 2^32 in the code; `BitXor` is its `^`, which
the instances take from `Bitwise`. The low bits of an LCG modulo 2^32 are the
LCG modulo a smaller power of two with the same constants, so a narrow instance
steps through the same low bits as the code. The index is never negative, as
`int` has 64 bits. `StepRead`, `StepWrite`,
`StepCheck` and `Drawn` are the accesses to `hashSeed`; each later access may
see the goroutine's own word or whatever is there by then, as the race allows.

### Lifecycle

One loop per accepted start, each with its context. `guarded`, chosen at the
start, says which of the two it is: the watchdog, whose flag is set under the
mutex before its goroutine exists, or the detector, which keeps no flag. A
second close of `stopCh` ends the process.

## 3. The runs

| Run | Shows | Bounds |
|---|---|---|
| `Dispatch` | `TypeOK`, `AsleepNeverRouted`, `WarmIsBestAwake`, `ColdRouteJustified`, `EmptyOnlyIfAllSlept`, `CallInv` | 2 agents, one skilled, 2 scores, 3 engines, reads fail, 1 change while a call runs |
| `DispatchFair` | `CallEnds`, `KeepsPromise` | 1 score, 1 engine, 1 retry |
| `Scoring` | `TypeOK`, `RankedDescending`, `ScoresInRange`, `BetterNotLower`, `LostIsUnknown`, `WakesBestRanked`, `ScoredAreRanked` | 2 agents, 5 engines, 2 requests, 2 changes or failed reads during the call, 2 values per field, a window of 2 tasks |
| `Replication` | `TypeOK`, `OvershootBounded`, `DecisionEarned`, `ExpectedIfUndisturbed`, `NoOrphanTrust`, empty IDs included | 2 kernels, 2 agents, 2 trust levels, limit 1, 2 policy objects, 1 child on an object that another let through |
| `WaitForGraph` | `TypeOK`, `ReportIsLargest`, `ReportIsDownstream`, `ReportsAtOnce` | every graph of 4 tasks |
| `Deadlock` | `TypeOK`, `KillsRecorded`, `KillsBounded`, `CancelledOnce` | 3 tasks, 1 handler and 1 loop, lists of 2 victims, 3 recorded edges, quota 1, an hour of 2 ticks |
| `DeadlockFair` | `WeighedStayStuck`, `VictimsStayStuck`, `CyclesBroken` | 3 tasks, 2 handlers, 3 recorded edges, quota 1, an hour of 1 tick, equal scores |
| `ColdRouting` | `TypeOK`, `ZeroIsMended` | 5-bit words, 2 goroutines, 2 IDs, budget 1/2 |
| `Lifecycle` | `TypeOK`, `OneWatchdog`, `CrashNeedsRestart`, `ToldLoopsEnd` | 3 starts, of the watchdog or of the detector loop |

Why the bounds are enough. Two agents give a better and a worse one, a sleeper
and a waker, a skilled and an unskilled one; one change inside a call is enough
to make any read stale, and calls may follow each other without limit, so the
environment reaches every state before a call. One caller suffices because calls
share only what the environment changes; the proofs are for any number of
callers and changes. In `Scoring` the data start from three agents, one without
any record, one that is better than the third in load and errors, and two
changes reach every pair of reads: a failed read and a write, or two writes
around a GET; the values lie on both sides of each step of a curve. Two kernels
and a limit of one let the limit be passed, and two policy objects let a kernel
count on one that never let it through, at its limit and set again; more
children of that kind add one each, which the proof covers. Three tasks hold a cycle and a
bystander, four a bystander of a bystander or two cycles. An hour of two ticks
lets kills expire one by one; where only progress is checked one tick is enough.
Five-bit words go once around the whole orbit of the seed, 0 included.

`MaxChanges`, `MaxEvents`, `MaxForeign`, `MaxRecords`, `MaxStreak` and the set
`Loops` are the bounds the code does not have; `Window` stands for its hundred
tasks, and the clock stands still during a call. The dispatch runs, `Scoring`
and `Lifecycle` switch deadlock checking off: a goroutine that panicked, a call
that returned, and a process that crashed, stop.

Fairness. `DispatchFair`: a goroutine that can run is scheduled (weak fairness
of each step); nothing is asked of the environment. `DeadlockFair`: time
passes, handlers keep checking (a ticker drives them), a writer of an RWMutex
is not starved by readers (Go's mutex blocks new readers once a writer waits),
and a cancellation tried for ever succeeds in the end (strong fairness of
`Cancel`: the one assumption about a callback). `Lifecycle`: tickers fire,
and a select with several ready cases chooses at random, so no ready case is
passed over for ever (strong fairness of `Exit`).

### Where the code and its documents disagree

Each of these runs checks one sentence of the repository and finds a behaviour
of the code that contradicts it; `PROJECT.json` quotes the lines.

| Run | The sentence | What happens |
|---|---|---|
| `DispatchAllAsleep` | all filtered out gives `ErrNoAvailableAgent` | the task is *dispatched* to agent `""`, no error |
| `DeadlockLoop` | the loop kills the weakest node | it drops the victim, and the deadlock stays |
| `ColdRoutingSpread` | draws without ID spread evenly | the low bit of the LCG alternates, two steps per request |

Some weaker promises are the ones checked above, because the code does not keep
the stronger ones its comments suggest: the limit of children is checked and
counted in different steps, and on the object in force at the end, so that an
object counts one child per other kernel too many and every child that another
object let through (`OvershootBounded`; whoever keeps toggling two policy objects
passes the limit of both without bound), the announced trust of a child
is that of decision time (`ExpectedIfUndisturbed`), the report of `HasCycles`
contains nodes that a cycle waits for and that are on none
(`ReportIsDownstream`), the quota of kills is looked at once per list
(`KillsBounded`), and a bystander, a task that waits for nobody and is cancelled,
is cancelled again when another task records that it waits for it
(`CancelledOnce`).

Seen while modelling, and not the subject of a run:

* `SetScoringEngine` documents that nil falls back to a default engine
  (`scheduler.go:173`) and stores nil; the next call panics (`Score`).
* The preferred protocols (`datasource.go:151`) reach the score only from a bare
  `RedisDataSource`: wrapped by `WauTrustDataSource`, or in memory, A2A and AFP
  are assumed (`Protocols`).
* A rate read with two GETs is right as long as outcomes are read first and never
  exceed the tasks; after `SetTotalTasks` in memory it may exceed 1
  (`ScoresInRange` is about the agents whose counts add up).
* One finished task scores below no data (`HistoryScore`: 0.3 against 0.5), and
  the p99 of up to a hundred latencies is the second largest (`Percentile99`).
* The comments' examples of the latency and history curves (500 ms gives 0.78,
  ten tasks 0.6) are not what the formulas give.
* Availability is 0.5 when unknown and 1.0 when unreadable: the exception in
  `LostIsUnknown`.
* `WauTrustDataSource.TrustScore` is said to coerce 0.0 to 0.5 and passes 0.0 on.
* `PickWakeTarget` is said to pick the highest trust and compares totals.
* A request with an ID is said to be routed the same way at every try
  (`cold_routing.go:135`, `145`, `175`). Both answers depend on `hashSeed`, which
  every request without an ID steps: they are kept only while there is none
  (`Keyed`, `StepWrite`).
* `int(p.hashSeed) % len(eligible)` (`cold_routing.go:221`, `226`) may be
  negative where `int` has 32 bits, and the call then panics.
* `RollbackReplicate` is said not to delete the child's trust when a concurrent
  writer has modified it since (`datasource_wautrust.go:145-148`), and to tell that
  by the reason of the last record: a second replication of the same child has the
  same reason, and is deleted (`Rollback`).
* `Start` of the detector called twice runs two loops, and `Stop` called twice
  panics (`Start`, `Stop` in `Lifecycle`).

## 4. The proofs

Every invariant, action property and refinement that a passing run checks is also
a theorem; the liveness properties are not (see the end of
this section). Each proof has the shape: an invariant holds at the start, every
action keeps it, and it implies the property. They rest on the named assumptions
of the modules, which TLC evaluates in every run:

| Assumption | Says |
|---|---|
| `AgentsAssumption`, `DomainsAssumption` | the empty ID is no agent, the skilled are agents; there is a score, and scores are numbers |
| `NoneAssumption`, `ClockAssumption`, `VersionAssumption`, `PreferredAssumption` | what is not set is not a number, the clock is one, the kernel's version is a pair or not set, the preferred protocols are finitely many |
| `ScoringAssumption` | data, requests and lists are of their kinds, and no agent is listed twice |
| `ReplicationAssumption` | finitely many kernels; the empty ID is no agent, and nil no policy object; trust has levels, the neutral one and the threshold among them; a child inherits a level, and the limit is at least 1, as `normalize` leaves it |
| `TasksAssumption`, `DeadlockAssumption` | finitely many tasks, named by numbers; lists given to `Handle` are of tasks and not empty, there is a score, a loop is not a handler, and an hour has a tick |
| `ColdRoutingAssumption` | a hash and the exclusive or of two words are words, the budget is a fraction, somebody is eligible, seeds are not 0 |
| `LifecycleAssumption` | finitely many loops |

One more is in the theorems that need it, `OneHandlerCancelsOnce`,
`HandlerRecordsKills` and `HandlerKillsBounded`: there is one handler. The code has
no lock there, and TLC finds each of the three violated when the run `Deadlock` is
given a second handler.

* `DispatchProofs`. `TypeCorrect` comes first. None of the four properties is
  inductive: each is about the end of a call. `CallInv` says for each point of
  the call what was noticed so far (`Noted`: the history contains the present
  moment), how the slices relate (`Slices`: who left the pool was asleep),
  who of the pool passed the filter (`Filtering`), and where the choice comes
  from (`Choice`). The environment keeps it because histories only grow; a
  step of one caller leaves the others alone. `SleepersSafe`, `WarmRouteBest`,
  `ColdRouteSafe` and `EmptyResult` follow from it at *assign*. Every step of
  `Dispatch` is a step of `Dispatcher` or none (`PromiseKept`): the reads are
  stutters; the environment's steps are `Change`, as `seen` grows by what is
  there; `Assign` is `Give`, and `CallInv` shows that the choice was online during
  the call, or nobody under a sleep policy.
* `ScoringProofs`, in four parts. *The order* (`RankedDescendingCorrect`) rests on
  `SortInv`: the rows before `i` are final, and row `i` has the most points of
  those before `j`; an exchange is a permutation (`SwappedKeeps`). *The curves*:
  each of the fifteen, over all numbers and not only over those of the run, has
  its range (`0..One`) and is monotone in the data it is of; a quotient is
  compared by multiplying out (`PartRatio`), the percentile by counting how many
  of a sorted window lie below. *The call*: `CallInv` is the type and
  - `Collecting`: `Turn` says which read fills which dimension, and the dimensions
    filled are those whose turn has been;
  - `LostInv`: a lost read belongs to an agent that had its turn, and left the
    fallback (`LostUnknown`);
  - `RangeInv`: while the data are regular, what the first GET of a rate returned
    is at most the tasks the second one will find, as counts only grow until
    they expire together (`HalfInv`); dimensions and totals are in range
    (`ScoresWithinRange`);
  - `ShownInv`: each dimension of an agent read without trouble is `Dim` of *some*
    data the agent had during the call, and its total is the sum of fifteen such
    values, each perhaps of another moment (`Earned`). That is what makes
    `BetterNotLowerCorrect` go through for a call that sees a mixture of moments:
    the better agent is better at every pair of moments, so each dimension is
    compared for itself.

  - `AskedInv`: each agent asked for has its turn before it, or its total, or was
    without a card; who is past the first read was seen with one
    (`ScoredAreRankedCorrect`).

  A step of the call either fills dimensions (`Fills`), skips an agent, adds a
  total or sorts, and each part is shown for these shapes and not for the eleven
  reads one by one. The lemma `ScoringRanks` says that each step does to the slice
  what an action of `Ranking` does, which carries the order over to the call
  (`ScoringDescends`). *The wake target* (`WakesBest`): the loop of
  `PickWakeTarget` is a recursive function; it has a value for every length, and
  the best of the first `k` is at least each of them, both by looking at the least
  `k` where it would fail.
* `ReplicationProofs`. `OvershootBounded` is not inductive: whether a kernel may
  still count is not in the counters. `Reserved` adds, for each policy object and
  parent, the kernels that this object let through and that have yet to count
  (`Underway`): with them the count stays within the limit, the other kernels and
  the children of other objects. A gate that lets a kernel through sees a count
  below the limit, so there is room for every kernel; a kernel that counts on the
  object that let it through leaves `Underway`, and on another one adds to its
  `foreign`; setting a policy moves none of these numbers.
  `HistInv` carries the other three (`DecisionsEarned`, `AnnouncedTrust`,
  `OrphansExplained`): `Remembers` says for each step of a kernel what the trust
  it read has to do with the parent's best (`peak`) and present trust, and a
  write by anybody makes what it read stale.
* `WaitForGraphProofs`. The invariant of Kahn's loop: the queue holds the
  unprocessed nodes of in-degree 0, in-degrees count the unprocessed waiters, and
  the number processed is that of the nodes gone. At the end every node left has a
  waiter left, and any set of nodes each awaited in it was never touched: the
  report is the largest such set (`HasCyclesExact`), whatever the order of the
  queue. Additions and removals on the lists are those on a set of pairs, the loop
  is a stutter until it returns, and then `HasCyclesExact` gives the one answer of
  `CycleReport` (`ReportAtOnce`); `Deadlock` relies on it. Paths do not occur in
  any of this. `ReportDownstream` brings them in. What lies downstream of a cycle
  is stuck (`DownstreamStuck`). Conversely (`CycleUpstream`) walk from a stuck node
  back from waiter to waiter: of the nodes met, the one with the fewest nodes of
  the stuck set upstream has a waiter that it waits for itself, as the waiter would
  otherwise have fewer.
* `DeadlockProofs`. `Sound` says for each checker that what it weighs is stuck
  (nothing leaves while it holds the lock) and that CheckOnce's list is one victim,
  the weakest of those weighed, which stays stuck until old edges go; edges that
  grow old only add to what is deadlocked. It gives `WeighedStuck` and
  `VictimsStuck`, for any number of handlers. `OneHandlerCancelsOnce` assumes one
  handler: `Gone` says that what was cancelled waits for nobody until it is seen
  again, and is waited for by nobody until that is recorded (`Unnamed`), but for
  the victim whose edges are about to be removed; what no edge names is in no
  report. For `HandlerRecordsKills` the records are not compared entry by entry,
  which the filter of `canKill` would upset, but counted: for every age `t` the
  records show at least as many kills younger than `t` as there were
  cancellations, but for the one about to be recorded (`Known`). That the loop of
  canKill keeps the count for every `t` up to an hour, and drops the rest, is shown
  at the least record where it would not (`Scan`). `HandlerKillsBounded` adds
  `Spent`: a list is begun under the quota, and each cancellation takes one of it.
* `ColdRoutingProofs`. `ZeroHeld` names the caller that must mend a 0: the one that
  wrote it and still holds it (`ZeroMended`). That it reads its own write or the
  word of another does not matter: as long as the seed is 0, what it finds is 0.
  `Keys` says which points of a call have an ID.
* `LifecycleProofs`. `FlagTells` says what the flag and the channel tell about the
  watchdogs ever started: none or one before the stop, and two once the flag is set
  again behind a closed channel (`SingleWatchdog`, `SecondStartCrashes`).

The prover has no induction over data here; where a loop is part of a
definition, `Numbers` replaces it by the least counterexample. Only
model-checked: liveness (`CallEnds`, `CyclesBroken`, `ToldLoopsEnd`), which is out
of this prover's reach, and the three counterexamples of the violated runs.

## 5. Not modelled

* `BuildChildSpec`, `RationaleFor`, `Snapshot`, counters for monitoring: pure
  functions of data the properties do not tell apart. `ShouldWake`: one
  comparison, without a caller.
* Parsing of versions and of numbers in Redis, rounding of floating point, and
  totals that are not numbers (a CPU usage that is NaN): the curves are exact.
* Torn writes of the in-place filter of `canKill` under concurrent handlers: the
  two handlers of `DeadlockFair` check what does not depend on the records. The
  properties of records, quota and double cancellation are for one handler.
* Duplicates in the list given to `Handle`, the reuse of slices' arrays in
  `WaitForGraph`, and `int` of 32 bits.
* A `Task` shared by two goroutines.
* The queue, worker pool, gRPC server, configuration and metrics that
  `ARCHITECTURE.md` describes: not in the repository.

## 6. Plan

1. Done: `Dispatch` and the promise it implements, `Scoring` with `Dimensions` and
   `Ranking`, `Replication`, `WaitForGraph` and the report it implements,
   `Deadlock`, `ColdRouting`, `Lifecycle`; the proofs above.
2. An abstract breaker (a deadlock, a victim of it, gone) that `Deadlock`
   implements for one handler, and the proof.
3. An abstract replication (a limit, a decision, a child) that `Replication`
   implements with the overshoot made explicit, and the proof.
