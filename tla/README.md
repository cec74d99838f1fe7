# Verifying go-stress

go-stress is a load generator. A *run* starts a number of workers that send
requests to a target (HTTP, gRPC, WebSocket) and collects their results; in the
*distributed mode* a master accepts tasks over HTTP, splits each one among
slaves that registered with it over gRPC, and gathers their statistics and
completion reports. This directory holds TLA+ specifications of the parts whose
correctness depends on interleavings, failures and order, the TLC
configurations that check them on small instances, and proofs that TLAPS
checks for every value of the constants.

To check a configuration: `tlc -config MCTaskQueue.cfg MCTaskQueue.tla`. To
check the proofs of a module: `tlapm TaskQueueProofs.tla`. `PROJECT.json` lists
the components, the runs, the source lines behind every definition, the hazards
and the theorems.

## Inventory

### Distributed mode

| Component | State | Operations | Hard behaviour |
| --- | --- | --- | --- |
| Task queue (`master/queue.go`) | ring of pending tasks; maps of running, complete, failed, stopped tasks; index; a state machine per task; counters; time stamps for the cleaner | Submit, MoveToRunning, MoveToComplete, MoveToFailed, Cancel, Clean | two of the operations take no lock; the outcome is published in five separate writes; the ring's tail may lie outside its array |
| Controller (`master/master.go`, `service.go`, `http_server.go`) | AssignedSlaves of tasks, cached slave clients | submit, start, stop, retry; completion handler | start is checked in the handler and done in a goroutine; errors of the queue are ignored; remote calls time out |
| Slave (`slave/slave.go`, `service.go`) | currentTaskID, info.State, cancelFunc | ExecuteTask, StopTask, the goroutine of a run, heartbeat | its fields are shared by handlers and goroutines without a lock; the completion report is sent once |
| Statistics buffer (`slave/stats_buffer.go`) | buffer, task ID, stream | Add, Flush, SetTaskID, CloseStream | asynchronous flushes; the task ID is read at send time |
| Pool and health checker (`master/pool.go`, `health.go`) | slaves by ID, failure counts | Register, Unregister, Heartbeat, checkAll | checks and stores are separate; counts outlive a registration |
| Selectors and splitter (`master/selector.go`, `splitter.go`, `common/filter.go`) | round-robin index | Select, Split | rounding, empty parts, concurrent use |
| Collector and aggregator (`master/collector.go`, `aggregator.go`) | bounded channel, records per slave and task | Collect, processStats, Aggregate | drops when full |

### A run

| Component | State | Operations | Hard behaviour |
| --- | --- | --- | --- |
| Run controller (`executor/runner.go`, `executor.go`, `builder.go`, `run_strategy.go`) | the run's context, storage, result | RunTask from its configuration to its deferred calls | each stage may fail and leaves different things open |
| Scheduler, workers (`executor/scheduler.go`, `worker.go`, `pool.go`) | context, error channel | Run, runWorker | ramp-up, pause, stop, cancellation, first error |
| Realtime server (`statistics/realtime_server.go`) | clients, paused, stopped, completed | stream, broadcast, pause, resume, stop | two ways to stop; a run that waits for it |
| Requests (`executor/worker.go`, `middleware.go`, `request_source.go`, `extractor.go`, `variable_replacer.go`) | per worker: variables, failures, place in its loops; shared: turn, breaker | build, send, retry, extract, verify | values of one pass must not reach another; skips; retries inside the breaker |
| Dependencies and selectors (`executor/dependency.go`, `api_selector.go`) | order of the APIs | resolve, select | cycles, missing names, equal names |
| Verification (`verify/*.go`) | | one rule per type | coercions between types |
| Statistics collector (`statistics/collector.go`, `report_builder.go`, `report_exporter.go`) | counters, maps, durations | Collect, summary, saved page | load-then-store on shared maps |
| Detail storage (`storage/*.go`) | channel, batch, table, closed | Write, queries, Close, the writer's loop | a full channel; a failing flush; Close against a late Write |
| Configuration (`config/*.go`, `main.go`) | | load, merge, default, check, override; curl commands; flags | precedence of five sources, zero values |

The parts interact by calls (HTTP handlers and gRPC handlers into the controller,
the controller into the queue and the pool), by remote calls in both directions
(master to slave: ExecuteTask, StopTask; slave to master: Register, Heartbeat,
ReportStats, ReportTaskCompletion), by callbacks (the run's collector calls the
slave's statistics buffer) and by shared records (`*common.Task`,
`*common.SlaveInfo`, both read and written without a lock).

What makes them correct: a task has one outcome, everyone agrees on it, and it
is final; the queue loses no pending task; a slave runs only what the master
knows to be running, and is never busy for nobody; a task that runs comes to an
end; the master comes to know a slave that is up, and offers nothing to one that is gone; the counters are right when all is quiet; results are neither lost nor attributed to another
task without a cause. In a run: a pause holds the load, a cancellation bounds what follows, and the run
ends; what it reports covers what it collected; each detail is stored once or lost for a reason; a request carries
values of its own pass only and is skipped for a reason only; a configuration that is run is sound.

## Modules

| Module | Models | Role |
| --- | --- | --- |
| `TaskLifecycle` | what the queue promises: submit, move along the allowed transitions, forget | abstract specification |
| `TaskQueue` | `queue.go`, lock-free accesses as steps | implements `TaskLifecycle` |
| `TaskQueueProofs` | | proofs about `TaskQueue` |
| `PendingList` | the pending tasks as a list | abstract specification |
| `PendingRing` | the ring buffer in `queue.go` | implements `PendingList` |
| `PendingRingProofs` | | proofs about `PendingRing` |
| `Dispatch` | `master.go`, the task handlers of `service.go` and `http_server.go`, the task life in `slave.go` | composes master and slaves over `TaskLifecycle` |
| `SlavePool` | `pool.go`, `health.go`, registration and heartbeats in `service.go` and `slave.go` | the master's knowledge of its slaves against the slaves' processes |
| `StatsBuffer` | `stats_buffer.go`, its callers in `slave.go`, `ReportStats`, `collector.go`, `aggregator.go` | the way of a result from a run to the master's totals |
| `Selection` | `selector.go`, `splitter.go`, `filter.go`, the queries of `pool.go` | operators, checked over bounded lists and proved over all; `SlaveChoice` states them of the pool |
| `Distribution` | `buildTask`, `processTaskWithSlaves`, `ExecuteTask` as far as the load is concerned | composes `Selection` with the slaves that run the parts |
| `Engine` | `runner.go`, `executor.go`, `scheduler.go`, `worker.go`, `run_strategy.go`, the controls of `realtime_server.go` | one run, from its configuration to its end |
| `Config` | `config.go`, `loader.go`, `curl.go`, the flags of `main.go`, `validateConfig` | operators; `EngineConfig` ties them to the first step of a run |
| `RequestChain` | `worker.go`, `middleware.go`, `request_source.go`, `builder.go` | what the requests of `Engine` do |
| `Extraction` | `variable_replacer.go`, `extractor.go`, `variable.go` | operators of `RequestChain` |
| `Dependency` | `dependency.go`, `api_selector.go` | operators; `RequestRules` ties them to the chains that `RequestChain` runs |
| `Verify` | `builtin.go`, `registry.go` | operators, checked over bounded rules and responses and proved over all (`RequestRules`) |
| `DetailStorage` | `sqlite.go`, `badger.go`, `memory.go`, `factory.go` | variables and actions of the storage |
| `Collector` | `collector.go`, `report_builder.go`, the page's export | composes the workers' `Collect` with `DetailStorage` |
| `...Proofs` | | proofs about `TaskQueue`, `PendingRing`, `Dispatch`, `SlavePool` and `Selection`, `StatsBuffer`, `Engine` and `Config`, `RequestChain`, `Dependency` and `Verify`, `Collector` |
| `MC...` | | instances for TLC |

### TaskQueue

`queue` is the ring (as a set, for "pending") and the four maps; `allTasks`,
`stateMachine`, `taskState` (the `State` field of the task), `count` and
`stamped` (the keys of `completeTime` and `failedTime`) are the other structures.
`Workers` are goroutines: handlers of completion reports, of HTTP requests,
the start goroutines. `Submit`, `MoveToRunning` and `Cancel` hold `mu`;
`MoveToRunning` is split where the lock-free operations can see it (after
`running.Store`), `Cancel` of a running task shares the steps of `MoveToComplete`
and `MoveToFailed`. Those steps are the lookup (`Load`), the transition
of the state machine, which is atomic and lets one operation through (`Win`, `Lose`),
the writes of the field and the outcome's map (`Publish`), the removal from the running map
(`Unlink`), the counters (`Count`) and the time stamp (`Stamp`). `Publish` writes the field and the map
in one step, and `Count` both counters: `AlwaysFindable` and `OneOutcome` read the maps only, and
`SettledAgreement` and `CountersSettle` speak of states in which neither is
under way. The cleaner holds `historyLock` and takes its tasks one by one: `CleanMap` picks a stamped
task and deletes it from the map of its outcome, `CleanIndex` from `allTasks`, `CleanCount` lowers the counter. Which tasks are old
enough is left open. Between the first two steps the index answers for a task that is in no map, though `mu` may be
free: `AlwaysFindable` admits this one task, the one in the cleaner's hands, and no other. Task IDs are generated and never reused, so a task is submitted once.
Operations that fail before the state machine moves change nothing and are no
actions.

Because each operation checks the terminal maps before it asks the state machine, and
another one may win in between, the `Load` and `Win` steps are separate: the
properties hold because of the state machine alone.

### PendingRing

The five fields of the ring as they are. Growing copies from slot 0; removal from the
middle compacts into an array of exactly the remaining length, which leaves
`pendingTail = pendingCap`; removal of the last task steps the tail back.
`TailIsFree` says why that is safe: a ring whose tail is outside its array is full, so
the next `Submit` grows it first.

`PopPending` has no caller and is left out. It is the only operation that moves the head, and with
it neither property would hold: a full ring with `pendingHead # 0` is
copied from slot 0 when it grows, so the tasks are reordered; and after a
compaction a `PopPending` leaves a ring with room whose tail is still outside the
array, so the next `Submit` indexes out of range. Whoever calls it first must fix these.

### Dispatch

A *start* is a request to start a task together with the goroutine it spawns:
`StartTask` checks the state and picks slaves, `Assign` writes `AssignedSlaves`,
`Dispatch` moves the task to running and sends the subtasks, `Finish` fails the
task if no slave accepted. On a slave, `Check` and `Claim` are the two
accesses of `currentTaskID` in `ExecuteTask`, `Launch` sets `cancelFunc` and starts
the goroutine, whose steps are `End`, `Report` (the handler on the master), `Clear`,
`Reset` and, for an error, `OnError`. `RequestStop`, `StopOnSlave` and
`AnswerStop` are the three stages of `StopTask`. Faults are a lost report, a
lost or late answer of `ExecuteTask`, and the crash of a slave. A crashed slave
does not come back: the pool keeps its entry and refuses to register
a new process under that ID.

The queue is `TaskLifecycle`, which `TaskQueue` is proved to implement.

Abstractions: which slaves are chosen (any nonempty set) and which of them the splitter
gives work to (any nonempty part: it skips slaves with no workers, and
a task has one worker at least); what a run does between its start and its end; one stop
request per task; the slave's `StopTask` handler is one step; a configuration
that does not parse on the slave cannot occur, since the master produced it.
A master that restarts has lost all tasks: `docs/DISTRIBUTED_MODE.md` describes
persistence that the code does not have, so there is nothing to model.

### SlavePool

`entry` is the `State` of a slave's entry in the pool ("none" without one), `age` the rounds
of the health checker since its `LastHeartbeat`, `failureCount` the checker's map, `check` where the
current round stands with each slave. On the other side are the slave's `process`, its
`slaveState` (`info.State`), and its one `call` under way, a registration or a heartbeat, with the `status`
the heartbeat carries. `offer` is a task on its way to the slave: its acceptance marks the entry
busy (`AddTask`), and racing heartbeats mark it otherwise.

Handlers are split where others can come in between: `Register` looks the ID up (`Admit`) and then
stores (`Store`); `Heartbeat` updates the time and then the state. A round of the checker
works on the records that were in the pool when it began; `Detach` keeps its verdict on a
record that has left the pool, and the marks go to the entry under that ID.
`Update` of the toolbox's map is external and taken to be atomic.

Time: `Timeout` is the heartbeat timeout over the checker's interval, rounded down. A delayed or lost
heartbeat is one that rounds overtake; `age` and `failureCount` saturate at the values beyond which
the code does not distinguish. Each new process starts after the calls of the one
before it under the same ID are over (an automatic ID contains the time of the start, so only an ID given on the
command line comes again). `MasterRestart` forgets everything the master keeps.

What the code promises, and the model shows, is limited: a slave whose task failed stays
in error and is offered no task until a round finds it late and then well again or it
registers anew; a process that comes back under the ID of one that crashed is refused, and
its `Start` fails, because nothing ever removes the old entry.

Left out: `UpdateResourceUsage` and `RemoveTask` have no callers; the
overloaded state needs `MaxConcurrency`, which no registration carries; addresses and cached clients. How the
selectors order and filter the slaves is in `Selection`; `SlaveChoice` ties the two together: in
every state of the pool, the master's selector offers a slave just when `SlavePool` does.

### StatsBuffer

A result is a pair of its task and a number; a batch is a set of results. A flush is a goroutine
(`stage`, `batch`): the ticker's, those that `Add` spawns, and the final one of each run.
`Take` is the part under `bufferMu`; `Check` reads the task ID, without a lock; `Send`
and `SendFails` hold `streamMu` and read it again. `CloseStream` holds `streamMu`, as stream state
"closing", until the master has read all and answered. On the master, `Receive` is a round of the
stream's handler (a full channel drops the batch) and `ProcessStats` the collector's goroutine.
`total` is the aggregator's figure; `credited`, `lost` and `failures` are history.

The model shows how far the figures can be trusted. They are exact when nothing is stopped, nothing
breaks and the collector keeps up. The final flush of a run comes after the completion
report and after the slave was freed, so a task may gain results after it is
completed, and a task that starts at once takes the last results of the one before it (`OwnOrLater`
says no more than that). A stopped task loses what was in the buffer or is added until its run ends, unless
another one has started; a stop between the two readings files a batch under "default".

Abstractions: the run of one task at a time is taken from `Dispatch` (the race of two `ExecuteTask`
calls is modelled there), and tasks come in the order of their numbers; the unlocked string read of the task ID is one access.
The record of the slave, which the aggregator replaces with each batch, is left out: what the
master's page shows for one slave (`http_server.go`, `slave_id`) is that slave's last batch, not its total.

### Selection and Distribution

Selectors are sets of the lists they may return, since Go visits a map in any order. `SelectsSlaves` compares them with
what they promise over lists of up to three slaves: a selection is of healthy slaves and as long as it can be, least loaded ones
first; a filter lets through what each of its fields allows; a split shares out all workers, to each slave about its weight. The
master's `getRequiredSlaveCount` rounds down, so that a slave may be given almost twice `WorkersPerSlave`, and counts slaves that are
not healthy; `preferIdle` is undone by the sort that follows it; `CurrentLoad`, which the default selector
sorts by, is set by nothing, so that a start without options may get busy slaves while others are idle. `SelectsSlaves` holds for any loads and
says nothing about their being kept. `DefaultIsSized` is what a start without options gets, which is not what the documents
say (see Findings). `Distribution` follows the parts to the slaves, which run all of the load each (see Findings).

### Engine

`phase` is where `RunTask` is: configuration, `NewExecutor`, start of the realtime server, ramp-up, join, what
`AfterExecution` of the strategy does (standalone or slave), the wait for the page, the deferred calls. A worker connects, goes round its
loop of passes (`Loop`, the only place that looks at the context), checks pause and stop before each request
(`CheckControlState`) and makes it (`StartRequest`, `EndRequest`). From outside come `HandlePause`, `HandleResume`,
`HandleStop` of the page, Ctrl+C, a slave's `StopTask` and the memory monitor.

`held` and `late` are history: requests a worker started since the last pause, and since the cancellation. The
invariants say how far each control reaches: a pause lets at most one request of each worker through, a cancellation at most the
rest of a chain. A worker that connects under a cancelled context may fail with an error that wraps the cancellation
(`websocket.go:89`), which `Run` and `RunTask` take for a cancellation: the report is kept. Any other error in connecting drops it, if it is
the first that arrives. What the model also shows: `WaitWhilePaused` does not look at the context, so that Ctrl+C
does not end a paused run (`RunEnds` excuses it); the ramp-up sleeps on after a cancellation; one worker
that fails to connect makes the run return no report; a run that was stopped from the page leaves its HTTP server
listening, because the later `Stop` returns at once; and on a slave the memory monitor calls a cancel function that does nothing.

### Config

Texts are sequences of parts, and a configuration keeps the fields that are merged, defaulted, overridden
or checked. `ConfigResolves` says what comes of a configuration file, a curl command and
flags in any combination: a configuration that `validateConfig` accepts can be run, an API's own settings win over
the common ones, and a curl command that is `Simple` has the URL, method and headers that curl would use, and its body up to
`SameBody`: the code unmarshals a JSON body and marshals it again, so members that occur twice or large numbers
change. What a double-quoted body says is unescaped as JSON, not as the shell would; an unquoted method is seen only as far as it is
in capitals, so that `-X post` counts as no method. `Simple` leaves these out, and says so.
In `EngineConfig`, a run about to load its configuration gets one of these, and one that is refused ends with nothing opened.

The code is narrower than its documents: flags always override a curl command but
never a configuration file (see Findings); curl options ahead of the URL make the
command be refused, unquoted headers and bodies are missed, `-d` alone leaves the method at GET; `validateConfig` refuses
a configuration with only a duration, which the loader accepts.

### RequestChain, Extraction, Dependency, Verify

A worker's record is its place in the three loops (passes, APIs of the chain, repetitions), the `depContext` of the pass and
the request under way. Building a request, skipping it, and all that follows the last attempt is local to
the worker and one step with it; the breaker, which all workers share, counts in the order of the answers. The chain
is breaker, retries, verification, client: the breaker sees one outcome per request, and
withholds the response of a failed one. `Kinds` are the answers: an error without a response (a WebSocket's or gRPC's), of
which nothing is extracted, not even a default; an error with an empty response (HTTP's), of which defaults are; one that is rejected, one
without the data, one with all. A result keeps its place in the pass, so that
`VarsAreFresh` can say which values a request is made of: those extracted before it (`Values`, `Before`). In the instance an extracted value
names its worker, pass and attempt, and `ValuesArrive` follows it to its place in the text of a later request. `GroupsTellApart` says
exactly when two sequences of requests get one group ID: a repetition that reaches the sequences of passes `Offset` or more
later, or a worker that reaches `Stride`. The instance scales both down so that these states occur. The chains are made by `Dependency` from lists of APIs in every order of the map of their names.

`Dependency`, `Verify` and `Extraction` are operators. `visit` is a function of how many names may still be visited one
below the other, the name and what the closure has captured so far; the code has no such limit, and it takes no effect, since
names that are being visited differ. `SelectsSoundly` compares this search
and the selectors with what an order, a cycle and a weight mean; `RulesAgree` states what each type of rule means
without going through the code's conversions. Noted on the way, and kept as the code has it: the
expectations of a rule are resolved before, not after, extracted variables are put in; transforms whose
function takes a number never succeed; an API that is skipped does not count as failed, so what depends on it only
indirectly runs; the rules of an API mark it failed as soon as one of them does not say `continueOnFailure`, but never make its
result a failure; cyclic or missing dependencies fall back to round robin. `Random` values, times and sequence numbers of
templates, and what a JSON path, a pattern or a schema finds, are parameters.

### DetailStorage and Collector

`Collect` is split where workers can meet: the two maps of errors and status codes are
loaded and stored in separate steps, the duration and the ID are under the lock, `Write` looks
at `closed` and sends after releasing its lock. The loop receives, flushes a full batch, flushes on a
tick, and shuts down; a flush is one transaction that may fail. Badger counts what it writes before
the transaction commits, so `CountOne` and `CommitOne` (the write around a full channel) and `WriteBatch` and `Flush` (a batch) are
separate steps, and the details endpoint may read its figures in between. `Close` is the flag, Badger's
cancellation, the closed channel, the wait and the database. `lost` says of each lost result how it was.

The two maps fall short if two workers cross (`crossed`), Badger's counters run ahead of what is not committed yet, and stay
ahead of what failed (`CountsCoverRows`, `Ahead`), Badger may abandon what is in its channel, and the saved page of a database lacks what was not flushed
when it was exported, which is before `Close`. After `Close`, queries of the databases answer nothing, though
a comment in `collector.go` says that reading goes on.

## Runs

| Run | Instance | Shows |
| --- | --- | --- |
| `taskqueue` | 2 tasks, 3 callers | `OneOutcome`, `SettledAgreement`, `AlwaysFindable`, `CountersSettle`, `OutcomeFinal`, `ImplementsLifecycle` |
| `pendingring` | 5 tasks, initial capacity 2 | `TailIsFree`, `ImplementsList` |
| `dispatch` | 2 tasks, 2 starts, 1 slave, 1 fault, fairness | `NoEarlyRun`, `OutcomeHasCause`, `NoWedge`, `RunningEnds` |
| `slavepool` | 1 slave, late after 1 round, unhealthy after 2 late ones, 1 restart of the master, fairness | `ErrorHasCause`, `DeadIsDropped`, `PoolLearns`; `SelectsSlaves` over lists of up to 3 slaves |
| `statsbuffer` | 2 tasks, 2 results, a buffer of 2, a channel of 1, 1 break, fairness | `Accounted`, `OwnOrLater`, `LossHasCause`, `EverythingCounted` |
| `engine` | 2 workers, 2 passes of 2 requests, fairness | `PauseHolds`, `CancelBounds`, `OutcomeExplained`, `RunEnds`; `ConfigResolves` over files, commands and flags |
| `requests` | 2 workers, 3 passes, a stride of 4 and an offset of 2 between group IDs, chains of up to 3 APIs, 2 attempts, breaker after 2 failures | `UnsentHasCause`, `VarsAreFresh`, `ValuesArrive`, `GroupsTellApart`; `RulesAgree` and `SelectsSoundly` over bounded rules and lists |
| `collector` | 2 workers, 3 results, a channel of 1, batches of 2, 1 failing write, fairness | `Accounted`, `FiguresSettle`, `CloseReturns` |
| `stats_break` | `statsbuffer` with 3 results | `SendsRecover` is violated |
| `dispatch_stop` | 1 task, 1 start, 1 slave | `StopIsEffective` is violated |
| `dispatch_twice` | 1 task, 2 starts, 1 slave | `FailedMeansNoneRuns` is violated |
| `distribution` | 2 idle slaves, a worker for each | `EachRunsItsPart` is violated |

Every passing run but `requests` also checks its module's `TypeOK` (in `pendingring` it is part of `TailIsFree`).
`SelectsSoundly` includes that the chains of the instance are in the order of their dependencies (`Ordered`), which `UnsentAlwaysHasCause`
starts from and `ResolvedChainsHaveCause` derives.

Bounds. In the queue, three callers are two reports that race each other and a
Cancel; a second task shows that operations on different tasks do not disturb each other's
counters. The theorems cover every number of both. Five tasks over a ring of
capacity two force two doublings, wrapped tails, and compaction to every length.
In `Dispatch` slaves share nothing but the master's queue, and what two of them can do to
a task there, two starts on one slave do as well; the theorems cover any number of slaves. Two
tasks, two starts and two slaves together are beyond an ordinary run of TLC. One fault is enough for each of the three kinds at
every point. `InOrder`, an action constraint, takes the place of symmetry, which the liveness
property does not admit: tasks are submitted before anything else, and which of two interchangeable starts and tasks comes first is fixed.
It restrains only steps without fairness.

The slaves of `SlavePool` share nothing but the moments at which rounds begin, so one slave
shows what each of them can do; a timeout of one round and a limit of two make late,
unhealthy and recovered entries, and one restart finds the slave in every state.

In `StatsBuffer` two results can be one batch or two, of one task or both, flushed by the ticker, a full
buffer or a run; three add a batch after the first failed one, which the violation needs.

In `Engine`, two workers are enough for an error that comes before another's, and for one that waits in a pause while the other
one is cancelled; chains of two have a request that is not the last. In `RequestChain`, two failures in a row open the
breaker of the first worker under the second one; two passes show what is forgotten between
them, two repetitions what is kept. In three passes, with an offset of 2 and a stride of 4 in the place of 100 and 100000, a repetition
meets a later pass of its worker, and a worker the first sequences of its neighbour. In `Collector`, three results overflow a channel of one while a batch of two is
flushed, and one failing write can be each of the flushes.

Fairness (`FairSpec` of `Dispatch`). Weak fairness of each start's goroutine, of each
`ExecuteTask` handler and of what each run's goroutine does once the run is over: the Go scheduler runs them, and every
remote call between master and slave has a timeout. That a run ends is not assumed. A request may wait for ever: `websocket.go:139` reads
without a deadline and without looking at the context, the timeout that `http.go:68` makes is not passed to the request it is meant for, and
a page may leave a run paused. No fairness is assumed of users, of the cleaner, or of faults either. `RunningEnds`
says that a task keeps running for ever only after a fault (a completion report is sent once and never retried), or
if none of the runs that slaves began of it ever ends: one that does, on any slave, ends the task.

In `SlavePool` the tickers of the checker and of a slave that is up go on for ever, handlers and
rounds do not block, and every remote call has a timeout: each of these is weakly fair. Nothing is assumed
of users, crashes, restarts, or the length of a run.

In `StatsBuffer` one step of `Progress` is taken as long as there is one: the goroutines of
flushes, handlers and the collector do not wait for each other for ever. Less cannot be assumed of the Go
scheduler, and no order among them is.

In `Engine`, `RunTask` and each worker go on when they can: sleeps end, and a worker takes the steps that wait for no server
(`OwnStep`). That a connection or a request ends is not assumed, for the reasons above (`websocket.go:67` also multiplies the timeout
of its handshake, a duration already, by a second): `RunEnds` has it as a condition, `ServersAnswer`. Nothing is assumed of pauses, stops and cancellations, so a page that leaves a run paused keeps it
from ending. In `Collector`, the loop of the storage and the call of `Close` go on; workers need not.

`CHECK_DEADLOCK FALSE` stands where the system may stop: all requests are served, a run has ended, or a storage
is closed. A ring of pending tasks and a pool can always move, and `RequestChain` says when its workers are done.

## Findings

* `dispatch_stop`: a task stopped between the acceptance of a start request and its
  goroutine's dispatch runs on its slaves, though the request was answered with
  "Task stopped": the goroutine ignores the error of `MoveToRunning`.
* `dispatch_twice`: two start requests can both find the task pending. The slave
  refuses the second, whose goroutine then fails the task, "all subtasks failed", while
  the first one's subtask runs.
* `stats_break`: a reporting stream whose connection broke is neither closed nor replaced, so after
  a restart of the master a slave's statistics are lost until its process is restarted, though its heartbeats reconnect.

* `distribution`: the master splits the workers of a task among its slaves, but a slave runs the configuration it is sent
  and only logs its share: each of n slaves starts all of the workers.

Three more disagreements have no run of their own. The properties state what the code does in their place:

* `worker.go:125` says of the group ID that it is globally unique. It is not: a repetition has the ID of the sequence 100 passes
  later (line 157 adds `r*100`), and a worker's sequence 100000 that of its neighbour's first. `GroupsTellApart`, checked
  where this happens and proved, says that IDs meet in these cases and no others.
* `docs/DISTRIBUTED_MODE.md:112-114` and `README.md:144` describe the default of a start as all available slaves. Without options, `StartTaskWithOptions`
  takes as many as `getRequiredSlaveCount` (`master.go:448-457`) says: one for each `WorkersPerSlave` workers, `MinSlaveCount` at least. `DefaultIsSized`, in
  `SelectsSlaves`, states that, busy slaves included.
* `docs/CLI_REFERENCE.md:112-122` says that flags override the configuration file (`-config config.yaml -c 100` runs 100 workers), and a
  comment in `runner.go:36-38` that they can. `loadConfig` returns the file's configuration as it is; only a curl command's is overridden. The document's order also has the configuration file
  before the curl file, while the code takes the curl file first. `Config` follows the code, and `ConfigResolves` claims no precedence of flags over a file.

Not stated as runs, because no document of the repository that we know of says otherwise, but worth a look: a paused run cannot be ended by
Ctrl+C; a silent server keeps a run, and its task, from ever ending; the first slave's report of success completes the task for all slaves; a retry of a task drops its duration and
ramp-up; a gRPC client that uses reflection has no connection when it first sends; and what
the sections above say under `Engine`, `Config` and `RequestChain`.

## Theorems

All are proved for every value of the constants that the modules' assumptions admit: for every finite set
of tasks, any number of workers or slaves, every initial capacity, timeout and limit.

`TaskQueueProofs`: the properties say nothing of a task that an operation is publishing, so
they are not inductive. `IInv` adds the missing parts: `WorkerInv`, what each step of an
operation knows about its task (once the state machine let it through, the task is in the
running map until `Unlink`, in the map of its outcome from `Publish` on, and nowhere else);
`UniqueOwner`, that no two operations are ever let through for one task, since a
state machine never comes back to a state it left; and `TaskInv`, that with no
operation in flight the structures agree and that the cleaner's time stamps name only
tasks that are done. The cleaner is such an operation too: the task in its hands is the only one that the index may have and no map. `CountingInv` counts: each counter is the size of its map, but for the workers that are between
the map and the counter, so that with none of them the two are equal (`CountersSettle`). From `IInv` follow `OneOutcome`, `SettledAgreement`, `AlwaysFindable`
and `OutcomeFinal`, and that every step is a step of `TaskLifecycle` or a stutter.

`PendingRingProofs`: the invariant ties the five fields together. Its parts are the types, `head = 0`
(only PopPending would move it), and that the tail is the length, up to the wrap of a full ring. From it
the window of pending tasks is a prefix of the array; appending and
removing are then steps of the list, by lemmas about `%`, which the provers do not
decide alone.

`SlavePoolProofs`: `ErrorHasCause` is inductive as it stands, given the types: an entry enters the error state only
through a count at its limit, which stays there until `HandleSuccess` revives the entry, or
through a handled heartbeat, whose state the slave's `status` still holds until its next one.

`StatsBufferProofs`: `IInv` adds to the properties where their causes come from. `TaskInv` says that the buffer's task ID is
that of the last task that started, or was cleared by a stop since (for which the holder of the slave
must be that task too); `UnsentInv` that what is not yet sent belongs to tasks that started, so that the ID a flush
finds fits what it took; `SentInv` that each batch on the stream and in the channel fits its ID;
`LossInv` that a stream is broken only after a break. `Accounted` is about the places of each result (`Where`): a step moves some
results from one place to another and leaves all others where they are, so that no result is ever in two and
what is credited to a task is as many as its total says.

`DispatchProofs`: `NoEarlyRun`, `OutcomeHasCause` and `NoWedge` need `StartInv`, what a start that has come to each of its
steps may rely on: before the subtasks are sent, nobody has been called or runs for it; from then on its task is not pending, even
if the queue refused to move it; when it is done, no call of it is under way. That outcomes have causes then rests on what is
for good: a run that reported has reported whatever crashes (`ReportsStay`), and a start that no slave accepted stays
so. For `NoWedge`, the call or goroutine that holds the slave stays until the slave is freed (`HolderStays`), though every other one may free it too.

`EngineProofs`: `HeldInv` adds to `PauseHolds` that a worker past its check has its one request still before it; `LateInv` ties
the requests since the cancellation to the worker's place in its chain, which is its last; `PhaseInv` and `ServerInv` say what each
phase of `RunTask` may rely on, so that what is returned is explained by the errors of workers that are all done. With `TypeOK` these are
inductive for any numbers of workers, passes and requests.

`RequestChainProofs`: the group ID of every sequence is that of a worker, a pass and a repetition (`GroupInv`). Of two equal IDs of one worker
the one with more repetitions has `Offset` passes fewer for each of them (`SameWorker`); of two workers the lower one must have come `Stride`
beyond its first ID (`OtherWorker`). Nothing is assumed about how far passes and repetitions go. For `UnsentHasCause`, `WorkerInv` says that the results of the pass under way are of
the APIs up to the worker's place and no others, and that `failed` holds those among them that failed; one more result then
changes no earlier one's failures, because nothing depends on an API at or after its own place. That is
`Ordered`, a hypothesis of the theorem, and a consequence for every chain that the resolver made (`Resolved`, see below). `BreakerInv` says that until MaxFailures failures in a row the breaker is closed and has counted them.
For `VarsAreFresh`, `FreshInv` says that a worker's variables are the values of the results of its pass, all of which come
before its place. Templates, extractors and transforms are parameters there: the theorem holds whatever they compute.
For `ValuesArrive` they cannot be arbitrary, since it names the value. `Exact`, the hypothesis of `ValuesAlwaysArrive`, is what its
words presuppose: extractors look for a message's own data, in the body or a header, and transforms fail or leave that as it is;
configured values and defaults have one part. The run's configurations are of this form. `ArriveInv` says that a worker's values,
and those every request was made of, then have one part (`OneParts`), so that a text keeps its places when they are filled in
(`FlattenOfOnes`, `ValueIsPlaced`), and that what a request extracted is its last attempt's or a default (`OwnOrDefault`).

`CollectorProofs`: `TypeOK` holds with bounds, since no figure counts more than the numbers of the results (`BoundsInv`). `ClosedInv` says that the storage leaves "open" only when all workers are done for good, so none is
between its check and its send; `NumberInv` that the results under way are different ones; `PlaceInv` that all others are in the channel, the batch, the
table or among the lost, which every step of the loop and of `Close` keeps. From these: no send after `Close`, no loss without
a cause, and nothing left behind. `HeldInv` adds that the channel, the batch, the table and the lost share nothing and repeat
nothing, and that counters count what was stored or failed to be: with it, `Accounted`. For `FiguresSettle`, `FiguresInv` ties each figure
to the workers that have passed its step, and says how far a map that is read and then written may lag behind. Badger's counters are the rows, what
a worker or the loop has counted and not committed, and what failed, which share nothing (`CountsCoverRows`); a query is
the rows by their ranks (`Nth`), so that it has no more rows than the table has results that fit.

### Operators

Four theorems are about what operators compute, for all arguments of the shape the code gives them. The modules
`SlaveChoice`, `EngineConfig` and `RequestRules` declare the arguments as constants, without assumptions, and state the property beside the
component's state; the shape (`ChoiceAssumption`, `SourceAssumption`, `RulesAssumption`, `Resolved`) is a hypothesis of the theorem. No induction theorem of the
library can be used, since they take an operator as a parameter; `CountsUp` takes a set instead: one that
holds 0, and with each number the next one up to n, holds all of 0 .. n. It rests on `NatLeast`, that a set of numbers has a least
one. A recursive function is first shown to exist, by counting up its domain, so that the function chosen by its
definition satisfies its equation; what it computes then follows by counting up again. Sums, flattened
sequences and loops over lists are handled this way.

* `SlavesAlwaysSelected` (`SlavePoolProofs`): `SelectsSlaves` for all lists of slaves with different IDs, and any numbers, weights
  and filters. A filtered list is the flattening of lists of one slave or none (`KeepIs`), the parts of
  a split add up because the last one is given what the sums of the others leave (`EqualIsSound`, `WeightedIsSound`).
  `OfferIsHealthy` ties it to the pool: `GetHealthy` withholds a registered slave only if its entry says error.
* `ConfigsAlwaysResolve` (`EngineProofs`): `ConfigResolves` for all files, flags and curl commands of the forms that `Config` describes; of a curl
  command that is not `Simple` it says only that what is run is runnable.
  That a refused run makes nothing rests on `LoadInv`: until its configuration is accepted, a run has no storage and no workers.
* `RulesAlwaysAgree` (`RequestChainProofs`): `RulesAgree` for all rules and responses, over any characters; formats, patterns and
  schemas are parameters.
* `OrdersAlwaysFound` (`RequestChainProofs`): `SelectsSoundly` for all lists of APIs. A search that has not failed is `Good`: what
  is visited is in the order once, after all it depends on, and apart from what is being visited. Each visit keeps it so, by counting
  up the depth and, in it, the names of the loop (`LevelIsSound`, `LoopIsSound`); at the end all names are visited. If the names can
  be ranked, a visit of a name that ranks below all that are being visited cannot fail, and neither can those
  below it (`LevelCompletes`). That a chain that is run is in order follows (`ResolvedIsOrdered`). The weighted selector draws an API for the numbers of an interval as long as its weight (`DrawsAre`).

`ResolvedChainsHaveCause` uses the last one: `UnsentHasCause` holds of every configuration whose chain `CreateAPISelector` has
made of a list of APIs.

Only model-checked: what is live (`RunningEnds`, `DeadIsDropped`, `PoolLearns`, `EverythingCounted`, `RunEnds`, `CloseReturns`), which the
prover does not reach, nor `ENABLED`. Every invariant of a passing run is a theorem. `SelectSeq`
with a LAMBDA and `@@` cannot be expanded by the prover, which is why modules with proofs write filters as flattened sequences
and records explicitly.

## Not modelled

* The web pages and their styles, the formatting of reports, help texts and logging: layout and text.
* The generated gRPC code and message definitions; `Dispatch` takes a call as the step of its handler.
* The protocol clients, except for what they may answer: network input and output through libraries.
* The resource monitor, the progress display and the test server: no state that another part depends on.
* The event stream of the realtime server: its broadcast sends under a read lock and skips a full
  channel, and a client leaves under the write lock before its channel is closed, so the two cannot meet.
* What a JSON path, a regular expression, a template function or a schema computes; SQL and the keys of Badger. Of the functions that
  `text/template` has itself, an expression calls only `index`, and a transform any of them.
* Addresses of slaves and the cache of their clients (`GetSlaveClient`): a slave that comes back at another address is reached at the old one.
* `PopPending`, `SelectWithFilter`'s callers, `UpdateResourceUsage`, `RemoveTask`, `GetTaskStats`: no callers. `Selection` has `SelectWithFilter` as an operator.

## What could follow

1. Registration with addresses in `SlavePool`, and the cache of clients with it.
2. `Engine` and `Collector` as one specification: that `Close` comes after the last `Collect` is shown by `OutcomeExplained` of the one and
   taken as a guard (`RunIsOver`) in the other.
