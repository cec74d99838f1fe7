----------------------------- MODULE TaskQueue -----------------------------
(***************************************************************************)
(* The master's task queue (distributed/master/queue.go).  Submit,         *)
(* MoveToRunning and Cancel hold the queue's lock from beginning to end;   *)
(* MoveToComplete and MoveToFailed take no lock and run in the handlers of *)
(* concurrent completion reports, and the cleaner takes only the lock of   *)
(* the time stamps, historyLock.  Each of their shared accesses is a step  *)
(* of its own, and they interleave with each other and with a Cancel that  *)
(* holds the lock.  Only the task's state machine, whose TransitionTo is   *)
(* atomic, decides which report or Cancel wins.                            *)
(*                                                                         *)
(* An operation that returns an error before its state transition changes  *)
(* nothing and is not an action.  The order of the pending tasks matters   *)
(* only to the ring that holds them: see PendingRing.tla.                  *)
(***************************************************************************)
EXTENDS Integers, FiniteSets

CONSTANTS
  Tasks,      \* task IDs
  Workers,    \* goroutines that call the queue's operations
  NoTask,     \* the task of a worker that runs no operation
  NoWorker    \* the holder of a free lock

ASSUME TaskQueueAssumption ==
  /\ IsFiniteSet(Tasks)
  /\ NoTask \notin Tasks
  /\ NoWorker \notin Workers

VARIABLES
  queue,        \* the tasks the ring ("pending") or the map of a state holds
  allTasks,     \* the index over all tasks
  stamped,      \* the tasks with an entry in completeTime ("completed"), failedTime
  stateMachine, \* the state of each task's state machine, "none" before Submit
  taskState,    \* the State field of each task
  count,        \* the counter that Stats reports for each state
  mu,           \* the holder of the queue's lock
  pc, task, to  \* per worker: its next step, its task, the state it moves it to

vars == <<queue, allTasks, stamped, stateMachine, taskState, count, mu, pc, task, to>>

TaskState == {"pending", "running", "completed", "failed", "stopped"}
Terminal  == {"completed", "failed", "stopped"}
Cleanable == {"completed", "failed"}
Cleaning  == {"forget", "uncount"}
Steps     == {"idle", "store", "started", "loaded", "publish", "unlink", "count", "stamp"}
               \cup Cleaning

TypeOK ==
  /\ queue \in [TaskState -> SUBSET Tasks]
  /\ allTasks \in SUBSET Tasks
  /\ stamped \in [Cleanable -> SUBSET Tasks]
  /\ stateMachine \in [Tasks -> TaskState \cup {"none"}]
  /\ taskState \in [Tasks -> TaskState \cup {"none"}]
  /\ count \in [TaskState -> Int]
  /\ mu \in Workers \cup {NoWorker}
  /\ pc \in [Workers -> Steps]
  /\ task \in [Workers -> Tasks \cup {NoTask}]
  /\ to \in [Workers -> TaskState \cup {"none"}]

Init ==
  /\ queue = [s \in TaskState |-> {}]
  /\ allTasks = {}
  /\ stamped = [s \in Cleanable |-> {}]
  /\ stateMachine = [t \in Tasks |-> "none"]
  /\ taskState = [t \in Tasks |-> "none"]
  /\ count = [s \in TaskState |-> 0]
  /\ mu = NoWorker
  /\ pc = [w \in Workers |-> "idle"]
  /\ task = [w \in Workers |-> NoTask]
  /\ to = [w \in Workers |-> "none"]
-----------------------------------------------------------------------------
(* The state machine of a task and the bookkeeping of an operation.        *)

\* Mutant: a late failure report overrides a completion.
AllowedTransitionsMutant ==
  { <<"pending", "running">>,   <<"pending", "stopped">>, <<"completed", "failed">>,
    <<"running", "completed">>, <<"running", "failed">>, <<"running", "stopped">> }

\* The transitions newTaskStateMachine allows.
AllowedTransitions ==
  { <<"pending", "running">>,   <<"pending", "stopped">>,
    <<"running", "completed">>, <<"running", "failed">>, <<"running", "stopped">> }

\* Mutant: the transition is stored without being checked.
TransitionToMutant(t, s) ==
  /\ t \in Tasks
  /\ stateMachine' = [stateMachine EXCEPT ![t] = s]

\* StateMachine.TransitionTo of the toolbox: checks and moves in one atomic step.
TransitionTo(t, s) ==
  /\ <<stateMachine[t], s>> \in AllowedTransitions
  /\ stateMachine' = [stateMachine EXCEPT ![t] = s]

InTerminalState(t) == \E s \in Terminal : t \in queue[s]

Begin(w, t, s, step) ==
  /\ pc' = [pc EXCEPT ![w] = step]
  /\ task' = [task EXCEPT ![w] = t]
  /\ to' = [to EXCEPT ![w] = s]

Goto(w, from, step) ==
  /\ pc[w] = from
  /\ pc' = [pc EXCEPT ![w] = step]
  /\ UNCHANGED <<task, to, mu>>

\* Mutant: the worker keeps a zero value for the state it worked towards.
ReturnMutant(w) ==
  /\ pc' = [pc EXCEPT ![w] = "idle"]
  /\ task' = [task EXCEPT ![w] = NoTask]
  /\ to' = [to EXCEPT ![w] = ""]
  /\ mu' = IF mu = w THEN NoWorker ELSE mu

\* Return from the operation, releasing the lock if it holds it.
Return(w) ==
  /\ pc' = [pc EXCEPT ![w] = "idle"]
  /\ task' = [task EXCEPT ![w] = NoTask]
  /\ to' = [to EXCEPT ![w] = "none"]
  /\ mu' = IF mu = w THEN NoWorker ELSE mu

workerVars == <<mu, pc, task, to>>

\* The cleaner holds historyLock from its first look at the time stamps to its last write.
HistoryLocked == \E w \in Workers : pc[w] \in Cleaning
-----------------------------------------------------------------------------
(* Submit and MoveToRunning.                                               *)

Submit(t) ==
  /\ mu = NoWorker
  /\ stateMachine[t] = "none"
  /\ stateMachine' = [stateMachine EXCEPT ![t] = "pending"]
  /\ taskState' = [taskState EXCEPT ![t] = "pending"]
  /\ queue' = [queue EXCEPT !["pending"] = @ \cup {t}]
  /\ allTasks' = allTasks \cup {t}
  /\ count' = [count EXCEPT !["pending"] = @ + 1]
  /\ UNCHANGED <<stamped, workerVars>>

\* Under the lock: the checks, the transition, and the removal from the ring.
MoveToRunning(w, t) ==
  /\ pc[w] = "idle"
  /\ mu = NoWorker
  /\ ~InTerminalState(t)
  /\ t \in queue["pending"]
  /\ TransitionTo(t, "running")
  /\ queue' = [queue EXCEPT !["pending"] = @ \ {t}]
  /\ count' = [count EXCEPT !["pending"] = @ - 1]
  /\ mu' = w
  /\ Begin(w, t, "running", "store")
  /\ UNCHANGED <<allTasks, stamped, taskState>>

\* running.Store makes the task visible to the lock-free operations ...
StoreRunning(w) ==
  /\ Goto(w, "store", "started")
  /\ taskState' = [taskState EXCEPT ![task[w]] = "running"]
  /\ queue' = [queue EXCEPT !["running"] = @ \cup {task[w]}]
  /\ UNCHANGED <<allTasks, stamped, stateMachine, count>>

\* ... before the counter is raised and the lock released.
CountRunning(w) ==
  /\ pc[w] = "started"
  /\ count' = [count EXCEPT !["running"] = @ + 1]
  /\ Return(w)
  /\ UNCHANGED <<queue, allTasks, stamped, stateMachine, taskState>>
-----------------------------------------------------------------------------
(* Ending a running task: MoveToComplete and MoveToFailed without a lock,  *)
(* Cancel with it.  All three look the task up and check the terminal      *)
(* maps, ask the state machine, and publish the outcome step by step.      *)

Load(w, t, s) ==
  /\ pc[w] = "idle"
  /\ t \in queue["running"]
  /\ ~InTerminalState(t)
  /\ Begin(w, t, s, "loaded")
  /\ UNCHANGED <<queue, allTasks, stamped, stateMachine, taskState, count>>

MoveToComplete(w, t) == Load(w, t, "completed") /\ UNCHANGED mu

MoveToFailed(w, t) == Load(w, t, "failed") /\ UNCHANGED mu

CancelRunning(w, t) ==
  /\ mu = NoWorker
  /\ t \notin queue["pending"]
  /\ Load(w, t, "stopped")
  /\ mu' = w

\* No lock-free operation touches a pending task: one step under the lock.
CancelPending(t) ==
  /\ mu = NoWorker
  /\ ~InTerminalState(t)
  /\ t \in queue["pending"]
  /\ TransitionTo(t, "stopped")
  /\ taskState' = [taskState EXCEPT ![t] = "stopped"]
  /\ queue' = [queue EXCEPT !["pending"] = @ \ {t}, !["stopped"] = @ \cup {t}]
  /\ count' = [count EXCEPT !["pending"] = @ - 1, !["stopped"] = @ + 1]
  /\ UNCHANGED <<allTasks, stamped, workerVars>>

\* The state machine lets one operation through ...
Win(w) ==
  /\ Goto(w, "loaded", "publish")
  /\ TransitionTo(task[w], to[w])
  /\ UNCHANGED <<queue, allTasks, stamped, taskState, count>>

\* ... and the others return its error.
Lose(w) ==
  /\ pc[w] = "loaded"
  /\ <<stateMachine[task[w]], to[w]>> \notin AllowedTransitions
  /\ Return(w)
  /\ UNCHANGED <<queue, allTasks, stamped, stateMachine, taskState, count>>

\* Mutant: the State field is not written.
PublishMutant(w) ==
  /\ Goto(w, "publish", "unlink")
  /\ queue' = [queue EXCEPT ![to[w]] = @ \cup {task[w]}]
  /\ UNCHANGED <<allTasks, stamped, stateMachine, taskState, count>>

\* Mutant: the task leaves the running map before it enters the map of its outcome.
PublishOrderMutant(w) ==
  /\ Goto(w, "publish", "unlink")
  /\ taskState' = [taskState EXCEPT ![task[w]] = to[w]]
  /\ queue' = [queue EXCEPT !["running"] = @ \ {task[w]}]
  /\ UNCHANGED <<allTasks, stamped, stateMachine, count>>

Publish(w) ==
  /\ Goto(w, "publish", "unlink")
  /\ taskState' = [taskState EXCEPT ![task[w]] = to[w]]
  /\ queue' = [queue EXCEPT ![to[w]] = @ \cup {task[w]}]
  /\ UNCHANGED <<allTasks, stamped, stateMachine, count>>

Unlink(w) ==
  /\ Goto(w, "unlink", "count")
  /\ queue' = [queue EXCEPT !["running"] = @ \ {task[w]}]
  /\ UNCHANGED <<allTasks, stamped, stateMachine, taskState, count>>

\* Mutant: the running counter is not lowered.
CountMutant(w) ==
  /\ pc[w] = "count"
  /\ count' = [count EXCEPT ![to[w]] = @ + 1]
  /\ IF to[w] \in Cleanable THEN Goto(w, "count", "stamp") ELSE Return(w)
  /\ UNCHANGED <<queue, allTasks, stamped, stateMachine, taskState>>

Count(w) ==
  /\ pc[w] = "count"
  /\ count' = [count EXCEPT !["running"] = @ - 1, ![to[w]] = @ + 1]
  /\ IF to[w] \in Cleanable THEN Goto(w, "count", "stamp") ELSE Return(w)
  /\ UNCHANGED <<queue, allTasks, stamped, stateMachine, taskState>>

\* completeTime and failedTime are guarded by historyLock alone.
Stamp(w) ==
  /\ pc[w] = "stamp"
  /\ ~HistoryLocked
  /\ stamped' = [stamped EXCEPT ![to[w]] = @ \cup {task[w]}]
  /\ Return(w)
  /\ UNCHANGED <<queue, allTasks, stateMachine, taskState, count>>
-----------------------------------------------------------------------------
(* Clean, one aged task after the other: out of the map of its outcome,    *)
(* out of the index, off the counter, each a step that lookups, reports    *)
(* and Cancel may come between.  Ages are abstracted: any stamped task may *)
(* be old.  Whether historyLock is given back between two tasks, and the   *)
(* time stamps go one by one or together, only this lock's holders could   *)
(* tell.                                                                   *)

CleanMap(w, t, s) ==
  /\ pc[w] = "idle"
  /\ ~HistoryLocked
  /\ t \in stamped[s]
  /\ queue' = [queue EXCEPT ![s] = @ \ {t}]
  /\ Begin(w, t, s, "forget")
  /\ UNCHANGED <<allTasks, stamped, stateMachine, taskState, count, mu>>

CleanIndex(w) ==
  /\ Goto(w, "forget", "uncount")
  /\ allTasks' = allTasks \ {task[w]}
  /\ UNCHANGED <<queue, stamped, stateMachine, taskState, count>>

CleanCount(w) ==
  /\ pc[w] = "uncount"
  /\ count' = [count EXCEPT ![to[w]] = @ - 1]
  /\ stamped' = [stamped EXCEPT ![to[w]] = @ \ {task[w]}]
  /\ Return(w)
  /\ UNCHANGED <<queue, allTasks, stateMachine, taskState>>

Operation(w) ==
  \/ \E t \in Tasks : \/ MoveToRunning(w, t)
                      \/ MoveToComplete(w, t)
                      \/ MoveToFailed(w, t)
                      \/ CancelRunning(w, t)
                      \/ \E s \in Cleanable : CleanMap(w, t, s)
  \/ StoreRunning(w) \/ CountRunning(w)
  \/ Win(w) \/ Lose(w) \/ Publish(w) \/ Unlink(w) \/ Count(w) \/ Stamp(w)
  \/ CleanIndex(w) \/ CleanCount(w)

Next ==
  \/ \E t \in Tasks : Submit(t) \/ CancelPending(t)
  \/ \E w \in Workers : Operation(w)

Spec == Init /\ [][Next]_vars
-----------------------------------------------------------------------------
(* Properties.                                                             *)

\* The state machine let w through, and w has not finished publishing; or w cleans t away.
Owns(w, t) ==
  task[w] = t /\ pc[w] \in {"store", "publish", "unlink", "count", "stamp"} \cup Cleaning

\* The cleaner is between its two deletes for t.
BeingForgotten(t) == \E w \in Workers : task[w] = t /\ pc[w] = "forget"

InFlight(t) == \E w \in Workers : Owns(w, t)

\* The structures that describe task t tell the same story.
Agrees(t) ==
  /\ taskState[t] = stateMachine[t]
  /\ \A s \in TaskState : t \in queue[s] => s = stateMachine[t]
  /\ t \in allTasks => \E s \in TaskState : t \in queue[s]
  /\ stateMachine[t] \in {"pending", "running", "stopped"} => t \in allTasks

\* However the reports of several slaves, a user's Cancel and the cleaner
\* interleave, a task never has two outcomes: at most one of the complete,
\* failed and stopped maps holds it, the one of its state machine's state.
OneOutcome ==
  \A t \in Tasks, s \in Terminal : t \in queue[s] => stateMachine[t] = s

\* Once no operation is in flight on a task, the structures that describe it
\* agree: its State field, its state machine and the map or ring it is in.
\* Only a task the cleaner dropped is in no map.
SettledAgreement == \A t \in Tasks : ~InFlight(t) => Agrees(t)

\* Whenever the lock is free, the index answers for exactly the tasks that
\* are in the ring or in a map: the lock-free MoveToComplete and MoveToFailed
\* leave no gap in which a task is in none, and no map keeps a task that the
\* index has lost.  The one exception the code makes is the cleaner: between
\* its two deletes the index still answers for a task that is in no map.
AlwaysFindable ==
  mu = NoWorker =>
    \A t \in Tasks :
      t \in allTasks <=> (\E s \in TaskState : t \in queue[s]) \/ BeingForgotten(t)

\* The counters that Stats reports are the sizes of the maps whenever no
\* operation is in flight: no lost or double update survives the races.
CountersSettle ==
  (\A w \in Workers : pc[w] \in {"idle", "loaded"}) =>
    \A s \in TaskState : count[s] = Cardinality(queue[s])

\* The outcome a reader of the task's State field has seen is final.
OutcomeFinal ==
  [][\A t \in Tasks : taskState[t] \in Terminal => taskState'[t] = taskState[t]]_vars

\* The queue implements TaskLifecycle: the state machines move as promised,
\* and the index forgets only completed and failed tasks.
Lifecycle == INSTANCE TaskLifecycle WITH state <- stateMachine, known <- allTasks
ImplementsLifecycle == Lifecycle!Spec
=============================================================================
