-------------------------- MODULE TaskQueueProofs --------------------------
(***************************************************************************)
(* Proofs about TaskQueue for any set of tasks and any number of callers.  *)
(*                                                                         *)
(* OneOutcome and SettledAgreement are not inductive: they say nothing of  *)
(* a task while an operation is publishing it.  IInv adds what each step   *)
(* of an operation knows about its task (WorkerInv), that no two           *)
(* operations are ever let through for one task (UniqueOwner), and that    *)
(* the cleaner's time stamps name only tasks that are done (TaskInv).      *)
(* CountingInv says how far each counter is behind its map: by as many as  *)
(* the workers that are between the two.                                   *)
(***************************************************************************)
EXTENDS TaskQueue, FiniteSetTheorems, TLAPS

\* A worker inside an operation has a task: what TypeOK needs to be inductive.
BusyHasTask == \A w \in Workers : pc[w] # "idle" => task[w] \in Tasks

\* What holds at each step of worker w.
WorkerInv(w) ==
  LET t == task[w] IN
  /\ pc[w] \in {"store", "started"} => mu = w
  /\ pc[w] = "store" => /\ stateMachine[t] = "running"
                        /\ taskState[t] = "pending"
                        /\ t \in allTasks
                        /\ \A s \in TaskState : t \notin queue[s]
                        /\ \A s \in Cleanable : t \notin stamped[s]
  /\ pc[w] = "loaded" => /\ to[w] \in Terminal
                         /\ taskState[t] \notin {"none", "pending"}
  /\ pc[w] \in {"publish", "unlink", "count", "stamp"} =>
        /\ to[w] \in Terminal
        /\ stateMachine[t] = to[w]
        /\ t \in allTasks
        /\ \A s \in Cleanable : t \notin stamped[s]
        /\ \A s \in Terminal : t \in queue[s] <=> (s = to[w] /\ pc[w] # "publish")
        /\ t \in queue["running"] <=> pc[w] \in {"publish", "unlink"}
        /\ t \notin queue["pending"]
        /\ taskState[t] = IF pc[w] = "publish" THEN "running" ELSE to[w]
  /\ pc[w] = "stamp" => to[w] \in Cleanable
  /\ pc[w] \in Cleaning => /\ to[w] \in Cleanable
                           /\ stateMachine[t] = to[w]
                           /\ taskState[t] = to[w]
                           /\ t \in allTasks <=> pc[w] = "forget"
                           /\ \A s \in TaskState : t \notin queue[s]
                           /\ t \in stamped[to[w]]

UniqueOwner ==
  \A v, w \in Workers, t \in Tasks : Owns(v, t) /\ Owns(w, t) => v = w

\* What holds of task t between the operations on it.
TaskInv(t) ==
  /\ ~InFlight(t) => Agrees(t)
  /\ \A s \in Cleanable : t \in stamped[s] => stateMachine[t] = s /\ (InFlight(t) \/ t \in queue[s])
  /\ \A s \in TaskState : t \in queue[s] => t \in allTasks

IInv ==
  /\ TypeOK
  /\ BusyHasTask
  /\ \A w \in Workers : WorkerInv(w)
  /\ \A t \in Tasks : TaskInv(t)
  /\ UniqueOwner

-----------------------------------------------------------------------------
(* Type correctness.                                                       *)

LEMMA InitTypeOK == Init => TypeOK /\ BusyHasTask
BY DEF Init, TypeOK, BusyHasTask, TaskState, Cleanable, Steps

LEMMA StepTypeOK == TypeOK /\ BusyHasTask /\ [Next]_vars => (TypeOK /\ BusyHasTask)'
<1> SUFFICES ASSUME TypeOK, BusyHasTask, [Next]_vars
             PROVE  (TypeOK /\ BusyHasTask)'
  OBVIOUS
<1> USE DEF TypeOK, BusyHasTask, TaskState, Cleanable, Cleaning, Terminal, Steps
<1>1. ASSUME NEW t \in Tasks, Submit(t)
      PROVE  (TypeOK /\ BusyHasTask)'
  BY <1>1 DEF Submit, workerVars
<1>2. ASSUME NEW t \in Tasks, CancelPending(t)
      PROVE  (TypeOK /\ BusyHasTask)'
  BY <1>2 DEF CancelPending, TransitionTo, workerVars
<1>3. ASSUME NEW w \in Workers, NEW t \in Tasks, MoveToRunning(w, t)
      PROVE  (TypeOK /\ BusyHasTask)'
  BY <1>3 DEF MoveToRunning, TransitionTo, Begin
<1>4. ASSUME NEW w \in Workers, NEW t \in Tasks,
             MoveToComplete(w, t) \/ MoveToFailed(w, t) \/ CancelRunning(w, t)
      PROVE  (TypeOK /\ BusyHasTask)'
  BY <1>4 DEF MoveToComplete, MoveToFailed, CancelRunning, Load, Begin
<1>5. ASSUME NEW w \in Workers, StoreRunning(w) \/ Publish(w) \/ Unlink(w) \/ Win(w)
      PROVE  (TypeOK /\ BusyHasTask)'
  BY <1>5 DEF StoreRunning, Publish, Unlink, Win, TransitionTo, Goto
<1>6. ASSUME NEW w \in Workers, CountRunning(w) \/ Lose(w) \/ Count(w) \/ Stamp(w)
      PROVE  (TypeOK /\ BusyHasTask)'
  BY <1>6 DEF CountRunning, Lose, Count, Stamp, Goto, Return
<1>7. ASSUME NEW w \in Workers,
             CleanIndex(w) \/ CleanCount(w) \/ \E t \in Tasks, s \in Cleanable : CleanMap(w, t, s)
      PROVE  (TypeOK /\ BusyHasTask)'
  BY <1>7 DEF CleanMap, CleanIndex, CleanCount, Begin, Goto, Return
<1>8. CASE UNCHANGED vars
  BY <1>8 DEF vars
<1> QED
  BY <1>1, <1>2, <1>3, <1>4, <1>5, <1>6, <1>7, <1>8 DEF Next, Operation

\* Every variable keeps the shape its Go field has.
THEOREM TypeCorrect == Spec => []TypeOK
BY InitTypeOK, StepTypeOK, PTL DEF Spec

USE DEF Cleaning
-----------------------------------------------------------------------------
(* The inductive invariant, one lemma per action.  An action changes what  *)
(* is recorded of one task, its own, and where one worker stands; the      *)
(* frame lemmas carry the invariant over for all the others.               *)

\* The step changes nothing of what the queue records about task t.
SameTask(t) ==
  /\ stateMachine'[t] = stateMachine[t]
  /\ taskState'[t] = taskState[t]
  /\ t \in allTasks' <=> t \in allTasks
  /\ \A s \in TaskState : t \in queue'[s] <=> t \in queue[s]
  /\ \A s \in Cleanable : t \in stamped'[s] <=> t \in stamped[s]

\* A worker that does not move keeps its invariant, if its task is left alone.
LEMMA WorkerFrame ==
  ASSUME NEW v \in Workers, WorkerInv(v),
         pc'[v] = pc[v], task'[v] = task[v], to'[v] = to[v],
         pc[v] \in {"store", "started"} => mu' = mu,
         pc[v] = "loaded" => taskState'[task[v]] \notin {"none", "pending"},
         Owns(v, task[v]) => SameTask(task[v])
  PROVE  WorkerInv(v)'
<1>1. CASE pc[v] \in {"idle", "started"}
  BY <1>1 DEF WorkerInv
<1>2. CASE pc[v] = "loaded"
  BY <1>2 DEF WorkerInv
<1>3. CASE pc[v] = "store"
  BY <1>3 DEF WorkerInv, Owns, SameTask, TaskState, Cleanable
<1>4. CASE pc[v] \in {"publish", "unlink", "count", "stamp"}
  BY <1>4 DEF WorkerInv, Owns, SameTask, TaskState, Cleanable, Cleaning, Terminal
<1>5. CASE pc[v] \in Cleaning
  BY <1>5 DEF WorkerInv, Owns, SameTask, TaskState, Cleanable, Cleaning
<1> QED
  BY <1>1, <1>2, <1>3, <1>4, <1>5 DEF WorkerInv

\* A task that is left alone and is not released keeps its invariant.
LEMMA TaskFrame ==
  ASSUME NEW t \in Tasks, TaskInv(t), SameTask(t), InFlight(t) => InFlight(t)'
  PROVE  TaskInv(t)'
BY DEF TaskInv, SameTask, Agrees, Cleanable, TaskState

\* A step in which worker w (NoWorker: none) works on task x, the others stand
\* still and the other tasks are left alone: what is left to prove about it.
LEMMA StepFrame ==
  ASSUME IInv, (TypeOK /\ BusyHasTask)',
         NEW w \in Workers \cup {NoWorker}, NEW x \in Tasks,
         \A v \in Workers \ {w} : pc'[v] = pc[v] /\ task'[v] = task[v] /\ to'[v] = to[v],
         mu' = mu \/ mu = NoWorker \/ mu = w,
         \A t \in Tasks \ {x} : SameTask(t),
         w \in Workers => \A t \in Tasks \ {x} : ~Owns(w, t) /\ ~Owns(w, t)',
         w \in Workers => (Owns(w, x)' => Owns(w, x) \/ ~InFlight(x)),
         SameTask(x) \/ \A v \in Workers \ {w} : ~Owns(v, x),
         taskState[x] \notin {"none", "pending"} => taskState'[x] \notin {"none", "pending"},
         w \in Workers => WorkerInv(w)',
         TaskInv(x)'
  PROVE  IInv'
<1> USE TaskQueueAssumption
<1>1. ASSUME NEW v \in Workers \ {w}
      PROVE  WorkerInv(v)'
  <2>1. pc[v] \in {"store", "started"} => mu' = mu
    BY DEF IInv, WorkerInv
  <2>2. pc[v] # "idle" => task[v] \in Tasks
    BY DEF IInv, BusyHasTask
  <2>3. Owns(v, task[v]) => SameTask(task[v])
    BY <2>2 DEF Owns
  <2>4. pc[v] = "loaded" => taskState'[task[v]] \notin {"none", "pending"}
    BY <2>2 DEF IInv, WorkerInv, SameTask
  <2> QED
    BY <2>1, <2>3, <2>4, WorkerFrame DEF IInv
<1>2. ASSUME NEW t \in Tasks \ {x}
      PROVE  TaskInv(t)'
  <2>1. InFlight(t) => InFlight(t)'
    BY DEF InFlight, Owns
  <2> QED
    BY <2>1, TaskFrame DEF IInv
<1>3. UniqueOwner'
  <2> SUFFICES ASSUME NEW v \in Workers, NEW u \in Workers, NEW t \in Tasks,
                      Owns(v, t)', Owns(u, t)'
               PROVE  v = u
    BY DEF UniqueOwner
  <2>1. \A y \in Workers \ {w} : Owns(y, t)' => Owns(y, t)
    BY DEF Owns
  <2>2. w \in Workers /\ Owns(w, t)' => t = x
    BY DEF Owns
  <2> QED
    BY <2>1, <2>2 DEF IInv, UniqueOwner, InFlight
<1> QED
  BY <1>1, <1>2, <1>3 DEF IInv

LEMMA SubmitInv ==
  ASSUME IInv, NEW x \in Tasks, Submit(x)
  PROVE  IInv'
<1>1. (TypeOK /\ BusyHasTask)'
  BY StepTypeOK DEF Next, IInv
<1>2. /\ stateMachine[x] = "none" /\ \A t \in Tasks \ {x} : SameTask(t)
      /\ UNCHANGED <<mu, pc, task, to, stamped>>
  BY DEF Submit, IInv, TypeOK, SameTask, workerVars, TaskState
<1>3. ~InFlight(x) /\ taskState[x] = "none"
  BY <1>2 DEF IInv, WorkerInv, InFlight, Owns, TaskInv, Agrees, Terminal, Cleanable
<1>4. Agrees(x) /\ \A s \in Cleanable : x \notin stamped[s]
  BY <1>2, <1>3 DEF IInv, TaskInv, Cleanable
<1>5. Agrees(x)'
  BY <1>2, <1>4 DEF Submit, Agrees, IInv, TypeOK, TaskState
<1>6. TaskInv(x)'
  BY <1>1, <1>2, <1>4, <1>5 DEF TaskInv, Agrees, Submit, IInv
<1> QED
  BY <1>1, <1>2, <1>3, <1>6, TaskQueueAssumption, StepFrame DEF InFlight

LEMMA CancelPendingInv ==
  ASSUME IInv, NEW x \in Tasks, CancelPending(x)
  PROVE  IInv'
<1>1. (TypeOK /\ BusyHasTask)'
  BY StepTypeOK DEF Next, IInv
<1>2. /\ x \in queue["pending"] /\ stateMachine[x] = "pending"
      /\ \A t \in Tasks \ {x} : SameTask(t)
      /\ UNCHANGED <<mu, pc, task, to, stamped>>
  <2>1. x \in queue["pending"] /\ stateMachine[x] = "pending"
    <3>1. x \in queue["pending"] /\ <<stateMachine[x], "stopped">> \in AllowedTransitions
      BY DEF CancelPending, TransitionTo
    <3>2. ~InFlight(x)
      BY <3>1 DEF IInv, WorkerInv, InFlight, Owns, TaskState
    <3> QED
      BY <3>1, <3>2 DEF IInv, TaskInv, Agrees, TaskState
  <2>2. \A t \in Tasks \ {x} : SameTask(t)
    BY DEF CancelPending, TransitionTo, IInv, TypeOK, SameTask, TaskState
  <2> QED
    BY <2>1, <2>2 DEF CancelPending, workerVars
<1>3. ~InFlight(x)
  BY <1>2 DEF IInv, WorkerInv, InFlight, Owns, TaskState
<1>4. Agrees(x) /\ \A s \in Cleanable : x \notin stamped[s]
  BY <1>2, <1>3 DEF IInv, TaskInv, Cleanable
<1>5. Agrees(x)'
  BY <1>2, <1>4 DEF CancelPending, TransitionTo, Agrees, IInv, TypeOK, TaskState
<1>6. TaskInv(x)'
  BY <1>1, <1>2, <1>4, <1>5 DEF TaskInv, Agrees, CancelPending, IInv
<1>7. taskState'[x] \notin {"none", "pending"}
  BY DEF CancelPending, IInv, TypeOK
<1> QED
  BY <1>1, <1>2, <1>3, <1>6, <1>7, TaskQueueAssumption, StepFrame DEF InFlight

LEMMA MoveToRunningInv ==
  ASSUME IInv, NEW w \in Workers, NEW x \in Tasks, MoveToRunning(w, x)
  PROVE  IInv'
<1>1. (TypeOK /\ BusyHasTask)'
  BY StepTypeOK DEF Next, Operation, IInv
<1>2. /\ pc[w] = "idle" /\ mu = NoWorker /\ x \in queue["pending"]
      /\ pc'[w] = "store" /\ task'[w] = x /\ mu' = w
      /\ \A v \in Workers \ {w} : pc'[v] = pc[v] /\ task'[v] = task[v] /\ to'[v] = to[v]
      /\ UNCHANGED <<allTasks, taskState, stamped>>
  BY DEF MoveToRunning, Begin, IInv, TypeOK
<1>3. ~InFlight(x)
  BY <1>2 DEF IInv, WorkerInv, InFlight, Owns, TaskState
<1>4. /\ stateMachine[x] = "pending" /\ taskState[x] = "pending" /\ x \in allTasks
      /\ \A s \in Cleanable : x \notin stamped[s]
      /\ \A s \in TaskState : x \in queue[s] => s = "pending"
  BY <1>2, <1>3 DEF IInv, TaskInv, Agrees, TaskState, Cleanable
<1>5. /\ stateMachine'[x] = "running"
      /\ \A s \in TaskState : x \notin queue'[s]
      /\ \A t \in Tasks \ {x} : SameTask(t)
  BY <1>2, <1>4 DEF MoveToRunning, TransitionTo, IInv, TypeOK, SameTask, TaskState
<1>6. WorkerInv(w)'
  BY <1>2, <1>4, <1>5 DEF WorkerInv
<1>7. TaskInv(x)'
  BY <1>2, <1>4 DEF TaskInv, InFlight, Owns
<1>8. \A t \in Tasks \ {x} : ~Owns(w, t) /\ ~Owns(w, t)'
  BY <1>2 DEF Owns
<1>9. \A v \in Workers : ~Owns(v, x)
  BY <1>3 DEF InFlight
<1> QED
  BY <1>1, <1>2, <1>3, <1>5, <1>6, <1>7, <1>8, <1>9, StepFrame

LEMMA StoreRunningInv ==
  ASSUME IInv, NEW w \in Workers, StoreRunning(w)
  PROVE  IInv'
<1> DEFINE x == task[w]
<1>1. (TypeOK /\ BusyHasTask)'
  BY StepTypeOK DEF Next, Operation, IInv
<1>2. /\ pc[w] = "store" /\ x \in Tasks /\ pc'[w] = "started"
      /\ UNCHANGED <<allTasks, stateMachine, stamped, task, to, mu>>
      /\ \A v \in Workers \ {w} : pc'[v] = pc[v]
  BY DEF StoreRunning, Goto, IInv, TypeOK, BusyHasTask
<1>3. /\ mu = w /\ stateMachine[x] = "running" /\ x \in allTasks
      /\ \A s \in TaskState : x \notin queue[s]
      /\ \A s \in Cleanable : x \notin stamped[s]
  BY <1>2 DEF IInv, WorkerInv
<1>4. /\ taskState'[x] = "running"
      /\ \A s \in TaskState : x \in queue'[s] <=> s = "running"
      /\ \A t \in Tasks \ {x} : SameTask(t)
  BY <1>2, <1>3 DEF StoreRunning, IInv, TypeOK, SameTask, TaskState
<1>5. \A v \in Workers \ {w} : ~Owns(v, x)
  BY <1>2 DEF IInv, UniqueOwner, Owns
<1>6. WorkerInv(w)'
  BY <1>2, <1>3 DEF WorkerInv
<1>7. TaskInv(x)'
  BY <1>2, <1>3, <1>4 DEF TaskInv, Agrees, TaskState
<1> QED
  BY <1>1, <1>2, <1>4, <1>5, <1>6, <1>7, StepFrame DEF Owns

LEMMA CountRunningInv ==
  ASSUME IInv, NEW w \in Workers, CountRunning(w)
  PROVE  IInv'
<1>1. (TypeOK /\ BusyHasTask)'
  BY StepTypeOK DEF Next, Operation, IInv
<1>2. PICK x \in Tasks : x = task[w]
  BY DEF CountRunning, IInv, BusyHasTask
<1>3. /\ pc[w] = "started" /\ pc'[w] = "idle"
      /\ UNCHANGED <<queue, allTasks, stateMachine, taskState, stamped>>
      /\ \A v \in Workers \ {w} : pc'[v] = pc[v] /\ task'[v] = task[v] /\ to'[v] = to[v]
      /\ mu' = mu \/ mu = w
  BY DEF CountRunning, Return, IInv, TypeOK
<1>4. \A t \in Tasks : SameTask(t)
  BY <1>3 DEF SameTask
<1>5. InFlight(x) => InFlight(x)'
  BY <1>3 DEF InFlight, Owns
<1>6. TaskInv(x)'
  BY <1>4, <1>5, TaskFrame DEF IInv
<1>7. WorkerInv(w)'
  BY <1>3 DEF WorkerInv
<1> QED
  BY <1>1, <1>3, <1>4, <1>6, <1>7, StepFrame DEF Owns, SameTask

LEMMA LoadInv ==
  ASSUME IInv, NEW w \in Workers, NEW x \in Tasks, NEW s \in Terminal, Load(w, x, s),
         (TypeOK /\ BusyHasTask)',
         mu' = mu \/ mu = NoWorker
  PROVE  IInv'
<1>1. /\ pc[w] = "idle" /\ x \in queue["running"] /\ pc'[w] = "loaded"
      /\ task'[w] = x /\ to'[w] = s
      /\ UNCHANGED <<queue, allTasks, stateMachine, taskState, stamped>>
      /\ \A v \in Workers \ {w} : pc'[v] = pc[v] /\ task'[v] = task[v] /\ to'[v] = to[v]
  BY DEF Load, Begin, IInv, TypeOK
<1>2. \A t \in Tasks : SameTask(t)
  BY <1>1 DEF SameTask
<1>3. InFlight(x) => InFlight(x)'
  BY <1>1 DEF InFlight, Owns
<1>4. TaskInv(x)'
  BY <1>2, <1>3, TaskFrame DEF IInv
<1>5. taskState[x] \notin {"none", "pending"}
  <2>1. CASE InFlight(x)
    BY <1>1, <2>1 DEF IInv, WorkerInv, InFlight, Owns, TaskState, Terminal
  <2>2. CASE ~InFlight(x)
    BY <1>1, <2>2 DEF IInv, TaskInv, Agrees, TaskState
  <2> QED
    BY <2>1, <2>2
<1>6. WorkerInv(w)'
  BY <1>1, <1>5 DEF WorkerInv
<1> QED
  BY <1>1, <1>2, <1>4, <1>6, StepFrame DEF Owns, SameTask

LEMMA LoseInv ==
  ASSUME IInv, NEW w \in Workers, Lose(w)
  PROVE  IInv'
<1>1. (TypeOK /\ BusyHasTask)'
  BY StepTypeOK DEF Next, Operation, IInv
<1>2. PICK x \in Tasks : x = task[w]
  BY DEF Lose, IInv, BusyHasTask
<1>3. /\ pc[w] = "loaded" /\ pc'[w] = "idle"
      /\ UNCHANGED <<queue, allTasks, stateMachine, taskState, stamped>>
      /\ \A v \in Workers \ {w} : pc'[v] = pc[v] /\ task'[v] = task[v] /\ to'[v] = to[v]
      /\ mu' = mu \/ mu = w
  BY DEF Lose, Return, IInv, TypeOK
<1>4. \A t \in Tasks : SameTask(t)
  BY <1>3 DEF SameTask
<1>5. InFlight(x) => InFlight(x)'
  BY <1>3 DEF InFlight, Owns
<1>6. TaskInv(x)'
  BY <1>4, <1>5, TaskFrame DEF IInv
<1>7. WorkerInv(w)'
  BY <1>3 DEF WorkerInv
<1> QED
  BY <1>1, <1>3, <1>4, <1>6, <1>7, StepFrame DEF Owns, SameTask

\* The step that makes the state machine the arbiter: its task was running
\* and settled, so no other operation owns it.
LEMMA WinInv ==
  ASSUME IInv, NEW w \in Workers, Win(w)
  PROVE  IInv'
<1>1. (TypeOK /\ BusyHasTask)'
  BY StepTypeOK DEF Next, Operation, IInv
<1>2. PICK x \in Tasks : x = task[w]
  BY DEF Win, Goto, IInv, BusyHasTask
<1>3. /\ pc[w] = "loaded" /\ pc'[w] = "publish"
      /\ UNCHANGED <<queue, allTasks, taskState, stamped, task, to, mu>>
      /\ \A v \in Workers \ {w} : pc'[v] = pc[v]
  BY DEF Win, Goto, IInv, TypeOK
<1>4. to[w] \in Terminal /\ taskState[x] \notin {"none", "pending"}
  BY <1>2, <1>3 DEF IInv, WorkerInv
<1>5. stateMachine[x] = "running"
  <2>1. stateMachine[x] \in {"pending", "running"}
    BY <1>2 DEF Win, TransitionTo, AllowedTransitions
  <2>2. stateMachine[x] = "pending" => ~InFlight(x)
    BY DEF IInv, WorkerInv, InFlight, Owns, Terminal, Cleanable
  <2> QED
    BY <1>4, <2>1, <2>2 DEF IInv, TaskInv, Agrees
<1>6. /\ stateMachine'[x] = to[w]
      /\ \A t \in Tasks \ {x} : SameTask(t)
  BY <1>2, <1>3 DEF Win, TransitionTo, IInv, TypeOK, SameTask
<1>7. ~InFlight(x)
  BY <1>4, <1>5 DEF IInv, WorkerInv, InFlight, Owns, Terminal, Cleanable
<1>8. /\ taskState[x] = "running" /\ x \in allTasks
      /\ x \in queue["running"]
      /\ \A s \in TaskState : x \in queue[s] => s = "running"
      /\ \A s \in Cleanable : x \notin stamped[s]
  BY <1>5, <1>7 DEF IInv, TaskInv, Agrees, TaskState, Cleanable
<1>9. WorkerInv(w)'
  BY <1>2, <1>3, <1>4, <1>6, <1>8 DEF WorkerInv, TaskState, Terminal
<1>10. TaskInv(x)'
  BY <1>2, <1>3, <1>8 DEF TaskInv, InFlight, Owns
<1>11. \A v \in Workers : ~Owns(v, x)
  BY <1>7 DEF InFlight
<1>12. \A t \in Tasks \ {x} : ~Owns(w, t) /\ ~Owns(w, t)'
  BY <1>2, <1>3 DEF Owns
<1> QED
  BY <1>1, <1>3, <1>6, <1>7, <1>9, <1>10, <1>11, <1>12, StepFrame

\* The steps between Win and Return: only the owner touches the task.
LEMMA PublishInv ==
  ASSUME IInv, NEW w \in Workers, Publish(w)
  PROVE  IInv'
<1>1. (TypeOK /\ BusyHasTask)'
  BY StepTypeOK DEF Next, Operation, IInv
<1>2. PICK x \in Tasks : x = task[w]
  BY DEF Publish, Goto, IInv, BusyHasTask
<1>3. /\ pc[w] = "publish" /\ pc'[w] = "unlink"
      /\ UNCHANGED <<allTasks, stateMachine, stamped, task, to, mu>>
      /\ \A v \in Workers \ {w} : pc'[v] = pc[v]
  BY DEF Publish, Goto, IInv, TypeOK
<1>4. /\ to[w] \in Terminal /\ stateMachine[x] = to[w] /\ x \in allTasks
      /\ \A s \in Cleanable : x \notin stamped[s]
      /\ \A s \in Terminal : x \notin queue[s]
      /\ x \in queue["running"] /\ x \notin queue["pending"]
  BY <1>2, <1>3 DEF IInv, WorkerInv
<1>5. /\ taskState'[x] = to[w]
      /\ \A s \in TaskState : x \in queue'[s] <=> s = to[w] \/ x \in queue[s]
      /\ \A t \in Tasks \ {x} : SameTask(t)
  BY <1>2, <1>3, <1>4 DEF Publish, IInv, TypeOK, SameTask, TaskState, Terminal
<1>6. WorkerInv(w)'
  BY <1>2, <1>3, <1>4, <1>5 DEF WorkerInv, TaskState, Terminal
<1>7. TaskInv(x)'
  BY <1>2, <1>3, <1>4 DEF TaskInv, InFlight, Owns
<1>8. \A v \in Workers \ {w} : ~Owns(v, x)
  BY <1>2, <1>3 DEF IInv, UniqueOwner, Owns
<1>9. \A t \in Tasks \ {x} : ~Owns(w, t) /\ ~Owns(w, t)'
  BY <1>2, <1>3 DEF Owns
<1>10. Owns(w, x) /\ taskState'[x] \notin {"none", "pending"}
  BY <1>2, <1>3, <1>4, <1>5 DEF Owns, Terminal
<1> QED
  BY <1>1, <1>3, <1>5, <1>6, <1>7, <1>8, <1>9, <1>10, StepFrame

LEMMA UnlinkInv ==
  ASSUME IInv, NEW w \in Workers, Unlink(w)
  PROVE  IInv'
<1>1. (TypeOK /\ BusyHasTask)'
  BY StepTypeOK DEF Next, Operation, IInv
<1>2. PICK x \in Tasks : x = task[w]
  BY DEF Unlink, Goto, IInv, BusyHasTask
<1>3. /\ pc[w] = "unlink" /\ pc'[w] = "count"
      /\ UNCHANGED <<allTasks, stateMachine, taskState, stamped, task, to, mu>>
      /\ \A v \in Workers \ {w} : pc'[v] = pc[v]
  BY DEF Unlink, Goto, IInv, TypeOK
<1>4. /\ to[w] \in Terminal /\ stateMachine[x] = to[w] /\ x \in allTasks
      /\ \A s \in Cleanable : x \notin stamped[s]
      /\ \A s \in Terminal : x \in queue[s] <=> s = to[w]
      /\ x \notin queue["pending"] /\ taskState[x] = to[w]
  BY <1>2, <1>3 DEF IInv, WorkerInv
<1>5. /\ \A s \in TaskState : x \in queue'[s] <=> x \in queue[s] /\ s # "running"
      /\ \A t \in Tasks \ {x} : SameTask(t)
  BY <1>2, <1>3 DEF Unlink, IInv, TypeOK, SameTask, TaskState
<1>6. WorkerInv(w)'
  BY <1>2, <1>3, <1>4, <1>5 DEF WorkerInv, TaskState, Terminal
<1>7. TaskInv(x)'
  BY <1>2, <1>3, <1>4 DEF TaskInv, InFlight, Owns
<1>8. \A v \in Workers \ {w} : ~Owns(v, x)
  BY <1>2, <1>3 DEF IInv, UniqueOwner, Owns
<1>9. \A t \in Tasks \ {x} : ~Owns(w, t) /\ ~Owns(w, t)'
  BY <1>2, <1>3 DEF Owns
<1>10. Owns(w, x)
  BY <1>2, <1>3 DEF Owns
<1> QED
  BY <1>1, <1>3, <1>5, <1>6, <1>7, <1>8, <1>9, <1>10, StepFrame

LEMMA CountInv ==
  ASSUME IInv, NEW w \in Workers, Count(w)
  PROVE  IInv'
<1>1. (TypeOK /\ BusyHasTask)'
  BY StepTypeOK DEF Next, Operation, IInv
<1>2. PICK x \in Tasks : x = task[w]
  BY DEF Count, IInv, BusyHasTask
<1>3. /\ pc[w] = "count"
      /\ UNCHANGED <<queue, allTasks, stateMachine, taskState, stamped>>
      /\ \A v \in Workers \ {w} : pc'[v] = pc[v] /\ task'[v] = task[v] /\ to'[v] = to[v]
      /\ mu' = mu \/ mu = w
  BY DEF Count, Goto, Return, IInv, TypeOK
<1>4. /\ to[w] \in Terminal /\ stateMachine[x] = to[w] /\ x \in allTasks
      /\ \A s \in Cleanable : x \notin stamped[s]
      /\ \A s \in Terminal : x \in queue[s] <=> s = to[w]
      /\ x \notin queue["running"] /\ x \notin queue["pending"] /\ taskState[x] = to[w]
  BY <1>2, <1>3 DEF IInv, WorkerInv
<1>5. \/ pc'[w] = "stamp" /\ to[w] \in Cleanable /\ UNCHANGED <<task, to>>
      \/ pc'[w] = "idle"
  BY DEF Count, Goto, Return, IInv, TypeOK
<1>6. \A t \in Tasks : SameTask(t)
  BY <1>3 DEF SameTask
<1>7. WorkerInv(w)'
  BY <1>2, <1>3, <1>4, <1>5 DEF WorkerInv, TaskState, Terminal
<1>8. Agrees(x) /\ Agrees(x)'
  BY <1>3, <1>4 DEF Agrees, TaskState, Terminal
<1>9. TaskInv(x)'
  BY <1>3, <1>4, <1>8 DEF TaskInv
<1>10. \A t \in Tasks \ {x} : ~Owns(w, t) /\ ~Owns(w, t)'
  BY <1>2, <1>5 DEF Owns
<1>11. Owns(w, x) /\ SameTask(x) /\ (taskState[x] \notin {"none", "pending"} => taskState'[x] \notin {"none", "pending"})
  BY <1>2, <1>3, <1>6 DEF Owns
<1> QED
  BY <1>1, <1>3, <1>6, <1>7, <1>9, <1>10, <1>11, StepFrame

LEMMA StampInv ==
  ASSUME IInv, NEW w \in Workers, Stamp(w)
  PROVE  IInv'
<1>1. (TypeOK /\ BusyHasTask)'
  BY StepTypeOK DEF Next, Operation, IInv
<1>2. PICK x \in Tasks : x = task[w]
  BY DEF Stamp, IInv, BusyHasTask
<1>3. /\ pc[w] = "stamp" /\ pc'[w] = "idle"
      /\ UNCHANGED <<queue, allTasks, stateMachine, taskState>>
      /\ \A v \in Workers \ {w} : pc'[v] = pc[v] /\ task'[v] = task[v] /\ to'[v] = to[v]
      /\ mu' = mu \/ mu = w
  BY DEF Stamp, Return, IInv, TypeOK
<1>4. /\ to[w] \in Terminal /\ stateMachine[x] = to[w] /\ x \in allTasks
      /\ \A s \in Cleanable : x \notin stamped[s]
      /\ \A s \in Terminal : x \in queue[s] <=> s = to[w]
      /\ x \notin queue["running"] /\ x \notin queue["pending"] /\ taskState[x] = to[w]
  BY <1>2, <1>3 DEF IInv, WorkerInv
<1>5. /\ \A s \in Cleanable : x \in stamped'[s] => s = to[w]
      /\ \A t \in Tasks \ {x} : SameTask(t)
  BY <1>2, <1>3, <1>4 DEF Stamp, IInv, TypeOK, SameTask, Cleanable
<1>6. WorkerInv(w)'
  BY <1>3 DEF WorkerInv
<1>7. Agrees(x)'
  BY <1>3, <1>4 DEF Agrees, TaskState, Terminal
<1>8. TaskInv(x)'
  BY <1>3, <1>4, <1>5, <1>7 DEF TaskInv
<1>9. \A v \in Workers \ {w} : ~Owns(v, x)
  BY <1>2, <1>3 DEF IInv, UniqueOwner, Owns
<1>10. /\ \A t \in Tasks \ {x} : ~Owns(w, t) /\ ~Owns(w, t)'
       /\ Owns(w, x)
  BY <1>2, <1>3 DEF Owns
<1> QED
  BY <1>1, <1>3, <1>5, <1>6, <1>8, <1>9, <1>10, StepFrame

\* The cleaner takes a stamped task, and no operation is in flight on one: its
\* owner would not have stamped it yet, or be a cleaner that holds historyLock.
LEMMA CleanMapInv ==
  ASSUME IInv, NEW w \in Workers, NEW x \in Tasks, NEW s \in Cleanable, CleanMap(w, x, s)
  PROVE  IInv'
<1>1. (TypeOK /\ BusyHasTask)'
  BY StepTypeOK DEF Next, Operation, IInv
<1>2. /\ pc[w] = "idle" /\ pc'[w] = "forget" /\ task'[w] = x /\ to'[w] = s
      /\ x \in stamped[s] /\ ~HistoryLocked
      /\ UNCHANGED <<allTasks, stateMachine, taskState, stamped, mu>>
      /\ \A v \in Workers \ {w} : pc'[v] = pc[v] /\ task'[v] = task[v] /\ to'[v] = to[v]
  BY DEF CleanMap, Begin, IInv, TypeOK
<1>3. stateMachine[x] = s /\ \A r \in Cleanable : x \in stamped[r] => r = s
  BY <1>2 DEF IInv, TaskInv
<1>4. ~InFlight(x)
  <2> SUFFICES ASSUME NEW v \in Workers, Owns(v, x)
               PROVE  FALSE
    BY DEF InFlight
  <2>1. pc[v] \notin Cleaning
    BY <1>2 DEF HistoryLocked
  <2> QED
    BY <1>2, <2>1 DEF IInv, WorkerInv, Owns
<1>5. /\ Agrees(x) /\ taskState[x] = s
      /\ \A r \in TaskState : x \in queue[r] => r = s
  BY <1>3, <1>4 DEF IInv, TaskInv, Agrees
<1>6. x \in allTasks
  BY <1>2, <1>4 DEF IInv, TaskInv, Cleanable, TaskState
<1>7. /\ \A r \in TaskState : x \notin queue'[r]
      /\ \A t \in Tasks \ {x} : SameTask(t)
  BY <1>2, <1>5 DEF CleanMap, IInv, TypeOK, SameTask, TaskState, Cleanable
<1>8. WorkerInv(w)'
  BY <1>2, <1>3, <1>5, <1>6, <1>7 DEF WorkerInv, Cleaning, Cleanable
<1>9. TaskInv(x)'
  BY <1>1, <1>2, <1>3, <1>7 DEF TaskInv, InFlight, Owns, Cleaning
<1>10. \A t \in Tasks \ {x} : ~Owns(w, t) /\ ~Owns(w, t)'
  BY <1>2 DEF Owns, Cleaning
<1>11. \A v \in Workers : ~Owns(v, x)
  BY <1>4 DEF InFlight
<1> QED
  BY <1>1, <1>2, <1>4, <1>7, <1>8, <1>9, <1>10, <1>11, StepFrame

LEMMA CleanIndexInv ==
  ASSUME IInv, NEW w \in Workers, CleanIndex(w)
  PROVE  IInv'
<1>1. (TypeOK /\ BusyHasTask)'
  BY StepTypeOK DEF Next, Operation, IInv
<1>2. PICK x \in Tasks : x = task[w]
  BY DEF CleanIndex, Goto, IInv, BusyHasTask
<1>3. /\ pc[w] = "forget" /\ pc'[w] = "uncount"
      /\ UNCHANGED <<queue, stateMachine, taskState, stamped, task, to, mu>>
      /\ allTasks' = allTasks \ {x}
      /\ \A v \in Workers \ {w} : pc'[v] = pc[v]
  BY <1>2 DEF CleanIndex, Goto, IInv, TypeOK
<1>4. /\ to[w] \in Cleanable /\ stateMachine[x] = to[w] /\ taskState[x] = to[w]
      /\ x \in stamped[to[w]] /\ \A s \in TaskState : x \notin queue[s]
  BY <1>2, <1>3 DEF IInv, WorkerInv, Cleaning
<1>5. \A t \in Tasks \ {x} : SameTask(t)
  BY <1>3 DEF SameTask
<1>6. WorkerInv(w)'
  BY <1>2, <1>3, <1>4 DEF WorkerInv, Cleaning
<1>7. TaskInv(x)'
  <2>1. InFlight(x)'
    BY <1>2, <1>3 DEF InFlight, Owns, Cleaning
  <2> QED
    BY <1>3, <1>4, <2>1 DEF TaskInv, IInv
<1>8. \A v \in Workers \ {w} : ~Owns(v, x)
  BY <1>2, <1>3 DEF IInv, UniqueOwner, Owns, Cleaning
<1>9. \A t \in Tasks \ {x} : ~Owns(w, t) /\ ~Owns(w, t)'
  BY <1>2, <1>3 DEF Owns
<1>10. Owns(w, x)
  BY <1>2, <1>3 DEF Owns, Cleaning
<1> QED
  BY <1>1, <1>3, <1>5, <1>6, <1>7, <1>8, <1>9, <1>10, StepFrame

LEMMA CleanCountInv ==
  ASSUME IInv, NEW w \in Workers, CleanCount(w)
  PROVE  IInv'
<1>1. (TypeOK /\ BusyHasTask)'
  BY StepTypeOK DEF Next, Operation, IInv
<1>2. PICK x \in Tasks : x = task[w]
  BY DEF CleanCount, IInv, BusyHasTask
<1>3. /\ pc[w] = "uncount" /\ pc'[w] = "idle"
      /\ UNCHANGED <<queue, allTasks, stateMachine, taskState>>
      /\ \A v \in Workers \ {w} : pc'[v] = pc[v] /\ task'[v] = task[v] /\ to'[v] = to[v]
      /\ mu' = mu \/ mu = w
  BY DEF CleanCount, Return, IInv, TypeOK
<1>4. /\ to[w] \in Cleanable /\ stateMachine[x] = to[w] /\ taskState[x] = to[w]
      /\ x \notin allTasks /\ \A s \in TaskState : x \notin queue[s]
  BY <1>2, <1>3 DEF IInv, WorkerInv, Cleaning
<1>5. /\ \A s \in Cleanable : x \notin stamped'[s]
      /\ \A t \in Tasks \ {x} : SameTask(t)
  <2>1. \A s \in Cleanable \ {to[w]} : x \notin stamped[s]
    BY <1>4 DEF IInv, TaskInv
  <2>2. stamped' = [stamped EXCEPT ![to[w]] = @ \ {x}]
    BY <1>2 DEF CleanCount
  <2> QED
    BY <1>3, <1>4, <2>1, <2>2 DEF IInv, TypeOK, SameTask
<1>6. WorkerInv(w)'
  BY <1>3 DEF WorkerInv, Cleaning
<1>7. Agrees(x)'
  BY <1>3, <1>4 DEF Agrees, Cleanable
<1>8. TaskInv(x)'
  BY <1>3, <1>4, <1>5, <1>7 DEF TaskInv, IInv
<1>9. \A v \in Workers \ {w} : ~Owns(v, x)
  BY <1>2, <1>3 DEF IInv, UniqueOwner, Owns, Cleaning
<1>10. /\ \A t \in Tasks \ {x} : ~Owns(w, t) /\ ~Owns(w, t)'
       /\ Owns(w, x)
  BY <1>2, <1>3 DEF Owns, Cleaning
<1> QED
  BY <1>1, <1>3, <1>5, <1>6, <1>8, <1>9, <1>10, StepFrame
-----------------------------------------------------------------------------
(* The theorems.                                                           *)

LEMMA InitIInv == Init => IInv
<1> SUFFICES ASSUME Init
             PROVE  IInv
  OBVIOUS
<1>1. TypeOK /\ BusyHasTask
  BY InitTypeOK
<1>2. \A w \in Workers : WorkerInv(w)
  BY DEF Init, WorkerInv
<1>3. \A t \in Tasks : TaskInv(t)
  BY DEF Init, TaskInv, Agrees, Cleanable, TaskState
<1>4. UniqueOwner
  BY DEF Init, UniqueOwner, Owns
<1> QED
  BY <1>1, <1>2, <1>3, <1>4 DEF IInv

LEMMA NextIInv == IInv /\ [Next]_vars => IInv'
<1> SUFFICES ASSUME IInv, [Next]_vars
             PROVE  IInv'
  OBVIOUS
<1>1. ASSUME NEW x \in Tasks, Submit(x) \/ CancelPending(x)
      PROVE  IInv'
  BY <1>1, SubmitInv, CancelPendingInv
<1>2. ASSUME NEW w \in Workers, NEW x \in Tasks, MoveToRunning(w, x)
      PROVE  IInv'
  BY <1>2, MoveToRunningInv
<1>3. ASSUME NEW w \in Workers, NEW x \in Tasks,
             MoveToComplete(w, x) \/ MoveToFailed(w, x) \/ CancelRunning(w, x)
      PROVE  IInv'
  <2>1. (TypeOK /\ BusyHasTask)'
    BY <1>3, StepTypeOK DEF Next, Operation, IInv
  <2> QED
    BY <1>3, <2>1, LoadInv DEF MoveToComplete, MoveToFailed, CancelRunning, Terminal
<1>4. ASSUME NEW w \in Workers,
             StoreRunning(w) \/ CountRunning(w) \/ Win(w) \/ Lose(w)
      PROVE  IInv'
  BY <1>4, StoreRunningInv, CountRunningInv, WinInv, LoseInv
<1>5. ASSUME NEW w \in Workers,
             Publish(w) \/ Unlink(w) \/ Count(w) \/ Stamp(w)
      PROVE  IInv'
  BY <1>5, PublishInv, UnlinkInv, CountInv, StampInv
<1>6. ASSUME NEW w \in Workers,
             CleanIndex(w) \/ CleanCount(w) \/ \E t \in Tasks, s \in Cleanable : CleanMap(w, t, s)
      PROVE  IInv'
  BY <1>6, CleanMapInv, CleanIndexInv, CleanCountInv
<1>7. CASE UNCHANGED vars
  BY <1>7 DEF vars, IInv, TypeOK, BusyHasTask, WorkerInv, TaskInv, Agrees, UniqueOwner,
              InFlight, Owns
<1> QED
  BY <1>1, <1>2, <1>3, <1>4, <1>5, <1>6, <1>7 DEF Next, Operation

LEMMA IInvImplies ==
  ASSUME IInv
  PROVE  OneOutcome /\ SettledAgreement /\ AlwaysFindable
<1>1. OneOutcome
  <2> SUFFICES ASSUME NEW t \in Tasks, NEW s \in Terminal, t \in queue[s]
               PROVE  stateMachine[t] = s
    BY DEF OneOutcome
  <2>1. CASE InFlight(t)
    BY <2>1 DEF IInv, WorkerInv, InFlight, Owns, Terminal, TaskState
  <2>2. CASE ~InFlight(t)
    BY <2>2 DEF IInv, TaskInv, Agrees, Terminal, TaskState
  <2> QED
    BY <2>1, <2>2
<1>2. SettledAgreement
  BY DEF SettledAgreement, IInv, TaskInv
<1>3. AlwaysFindable
  <2> SUFFICES ASSUME mu = NoWorker, NEW t \in Tasks
               PROVE  t \in allTasks <=> (\E s \in TaskState : t \in queue[s]) \/ BeingForgotten(t)
    BY DEF AlwaysFindable
  <2>1. (\E s \in TaskState : t \in queue[s]) => t \in allTasks
    BY DEF IInv, TaskInv
  <2>2. BeingForgotten(t) => t \in allTasks
    BY DEF BeingForgotten, IInv, WorkerInv, Cleaning
  <2>3. CASE ~InFlight(t)
    BY <2>1, <2>2, <2>3 DEF IInv, TaskInv, Agrees
  <2>4. ASSUME NEW w \in Workers, Owns(w, t), t \in allTasks
        PROVE  (\E s \in TaskState : t \in queue[s]) \/ BeingForgotten(t)
    <3>1. CASE pc[w] \in {"publish", "unlink", "count", "stamp"}
      BY <2>4, <3>1 DEF IInv, WorkerInv, Owns, Terminal, TaskState
    <3>2. CASE pc[w] \in Cleaning
      BY <2>4, <3>2 DEF IInv, WorkerInv, Owns, BeingForgotten
    <3>3. pc[w] # "store"
      BY TaskQueueAssumption DEF IInv, WorkerInv
    <3> QED
      BY <2>4, <3>1, <3>2, <3>3 DEF Owns
  <2> QED
    BY <2>1, <2>2, <2>3, <2>4 DEF InFlight
<1> QED
  BY <1>1, <1>2, <1>3

\* No race gives a task two outcomes, for any number of tasks and callers.
THEOREM OneOutcomeAlways == Spec => []OneOutcome
BY InitIInv, NextIInv, IInvImplies, PTL DEF Spec

\* The queue's structures agree about every task no operation is in flight on.
THEOREM SettledAgreementAlways == Spec => []SettledAgreement
BY InitIInv, NextIInv, IInvImplies, PTL DEF Spec

\* The lock-free operations leave no gap in which a known task is in no map, and no map
\* keeps a forgotten one: the cleaner's two deletes are the only window between the two.
THEOREM AlwaysFindableAlways == Spec => []AlwaysFindable
BY InitIInv, NextIInv, IInvImplies, PTL DEF Spec

LEMMA StepOutcomeFinal ==
  ASSUME IInv, [Next]_vars, NEW t \in Tasks, taskState[t] \in Terminal
  PROVE  taskState'[t] = taskState[t]
<1> USE DEF Terminal
<1>1. ASSUME NEW x \in Tasks, Submit(x) \/ CancelPending(x)
      PROVE  taskState'[t] = taskState[t]
  <2>1. ~InFlight(x)
    <3>1. stateMachine[x] = "none" \/ x \in queue["pending"]
      BY <1>1 DEF Submit, CancelPending
    <3> QED
      BY <3>1 DEF IInv, WorkerInv, InFlight, Owns, TaskState, Cleanable
  <2>2. stateMachine[x] \in {"none", "pending"}
    BY <1>1, <2>1 DEF Submit, CancelPending, IInv, TaskInv, Agrees, TaskState
  <2>3. t # x
    BY <2>1, <2>2 DEF IInv, TaskInv, Agrees
  <2> QED
    BY <1>1, <2>3 DEF Submit, CancelPending, IInv, TypeOK
<1>2. ASSUME NEW w \in Workers, StoreRunning(w) \/ Publish(w)
      PROVE  taskState'[t] = taskState[t]
  <2>1. task[w] # t
    BY <1>2 DEF StoreRunning, Publish, Goto, IInv, WorkerInv
  <2> QED
    BY <1>2, <2>1 DEF StoreRunning, Publish, IInv, TypeOK
<1>3. ASSUME UNCHANGED taskState
      PROVE  taskState'[t] = taskState[t]
  BY <1>3
<1> QED
  BY <1>1, <1>2, <1>3 DEF Next, Operation, MoveToRunning, MoveToComplete, MoveToFailed,
     CancelRunning, Load, CountRunning, Win, Lose, Unlink, Count, Stamp,
     CleanMap, CleanIndex, CleanCount, vars

\* A task whose State field shows an outcome keeps that outcome for good.
THEOREM OutcomeFinalAlways == Spec => OutcomeFinal
<1>1. IInv /\ [Next]_vars =>
        [\A t \in Tasks : taskState[t] \in Terminal => taskState'[t] = taskState[t]]_vars
  BY StepOutcomeFinal
<1> QED
  BY <1>1, InitIInv, NextIInv, PTL DEF Spec, OutcomeFinal
-----------------------------------------------------------------------------
(* The counters.  An operation counts a task after it has moved it, so the *)
(* size of a map and its counter differ by the tasks in between: a started *)
(* task is not yet counted as running, an unlinked one still is, one that  *)
(* was published is not yet counted under its outcome, and one that is     *)
(* being cleaned away is so still.  The running                            *)
(* task of a slow MoveToRunning may even be ended before it is counted.    *)

At(step) == {t \in Tasks : \E w \in Workers : pc[w] = step /\ task[w] = t}

Uncounted(s) ==
  {t \in Tasks : \E w \in Workers : pc[w] \in {"unlink", "count"} /\ task[w] = t /\ to[w] = s}

\* The tasks the cleaner has taken out of the map of s and not yet off its counter.
Leaving(s) ==
  {t \in Tasks : \E w \in Workers : pc[w] \in Cleaning /\ task[w] = t /\ to[w] = s}

PendingCounted == count["pending"] = Cardinality(queue["pending"])
RunningCounted ==
  count["running"] = Cardinality(queue["running"]) - Cardinality(At("started")) + Cardinality(At("count"))
OutcomeCounted(s) == count[s] = Cardinality((queue[s] \ Uncounted(s)) \cup Leaving(s))

\* Without the last part the cleaner could lower a counter for a task that is not in the map.
CountingInv ==
  /\ PendingCounted /\ RunningCounted
  /\ \A s \in Terminal : OutcomeCounted(s)
  /\ \A s \in Cleanable : stamped[s] \subseteq queue[s] \cup Leaving(s)

LEMMA FiniteTasks == \A S \in SUBSET Tasks : IsFiniteSet(S) /\ Cardinality(S) \in Nat
BY TaskQueueAssumption, FS_Subset, FS_CardinalityType

LEMMA AddOne ==
  ASSUME NEW S \in SUBSET Tasks, NEW t \in Tasks, t \notin S
  PROVE  Cardinality(S \cup {t}) = Cardinality(S) + 1
BY FiniteTasks, FS_AddElement

LEMMA TakeOne ==
  ASSUME NEW S \in SUBSET Tasks, NEW t \in S
  PROVE  Cardinality(S \ {t}) = Cardinality(S) - 1
BY FiniteTasks, FS_RemoveElement

LEMMA Numbers ==
  ASSUME IInv
  PROVE  /\ \A st \in TaskState : count[st] \in Int /\ Cardinality(queue[st]) \in Int
         /\ \A step \in Steps : At(step) \in SUBSET Tasks /\ Cardinality(At(step)) \in Int
<1>1. \A st \in TaskState : count[st] \in Int /\ queue[st] \in SUBSET Tasks
  BY DEF IInv, TypeOK
<1>2. \A step \in Steps : At(step) \in SUBSET Tasks
  BY DEF At
<1> QED
  BY <1>1, <1>2, FiniteTasks

LEMMA NoneCounted == Cardinality({}) = 0
BY FS_EmptySet

\* A step that no counter depends on.
LEMMA NotCounted ==
  ASSUME CountingInv, UNCHANGED <<queue, count>>,
         UNCHANGED <<At("started"), At("count")>>, \A s \in Terminal : Uncounted(s)' = Uncounted(s) /\ Leaving(s)' = Leaving(s),
         \A s \in Cleanable : stamped'[s] \subseteq queue'[s] \cup Leaving(s)'
  PROVE  CountingInv'
BY DEF CountingInv, PendingCounted, RunningCounted, OutcomeCounted

\* Workers that are, before and after, at no step that matters, or stay as they are.
Still(w) ==
  \/ UNCHANGED <<pc[w], task[w], to[w]>>
  \/ {pc[w], pc'[w]} \cap ({"started", "unlink", "count"} \cup Cleaning) = {}

LEMMA SameSets ==
  ASSUME \A w \in Workers : Still(w)
  PROVE  /\ UNCHANGED <<At("started"), At("count")>>
         /\ \A s \in Terminal : Uncounted(s)' = Uncounted(s) /\ Leaving(s)' = Leaving(s)
<1>1. ASSUME NEW t \in Tasks, NEW w \in Workers, NEW step \in {"started", "count"}
      PROVE  (pc[w] = step /\ task[w] = t) <=> (pc'[w] = step /\ task'[w] = t)
  BY DEF Still
<1>2. UNCHANGED At("started") /\ UNCHANGED At("count")
  BY <1>1 DEF At
<1>3. ASSUME NEW t \in Tasks, NEW w \in Workers, NEW s \in Terminal
      PROVE  (pc[w] \in {"unlink", "count"} /\ task[w] = t /\ to[w] = s)
               <=> (pc'[w] \in {"unlink", "count"} /\ task'[w] = t /\ to'[w] = s)
  BY DEF Still
<1>4. \A s \in Terminal : Uncounted(s)' = Uncounted(s)
  BY <1>3 DEF Uncounted
<1>5. ASSUME NEW t \in Tasks, NEW w \in Workers, NEW s \in Terminal
      PROVE  (pc[w] \in Cleaning /\ task[w] = t /\ to[w] = s)
               <=> (pc'[w] \in Cleaning /\ task'[w] = t /\ to'[w] = s)
  BY DEF Still
<1>6. \A s \in Terminal : Leaving(s)' = Leaving(s)
  BY <1>5 DEF Leaving
<1> QED
  BY <1>2, <1>4, <1>6

\* A step of a worker that is not cleaning.
LEMMA LeavingFrame ==
  ASSUME NEW w \in Workers, pc[w] \notin Cleaning, pc'[w] \notin Cleaning,
         \A v \in Workers \ {w} : pc'[v] = pc[v] /\ task'[v] = task[v] /\ to'[v] = to[v]
  PROVE  \A s \in Terminal : Leaving(s)' = Leaving(s)
<1>1. ASSUME NEW t \in Tasks, NEW v \in Workers, NEW s \in Terminal
      PROVE  (pc[v] \in Cleaning /\ task[v] = t /\ to[v] = s)
               <=> (pc'[v] \in Cleaning /\ task'[v] = t /\ to'[v] = s)
  OBVIOUS
<1> QED
  BY <1>1 DEF Leaving


LEMMA SubmitCounts ==
  ASSUME IInv, CountingInv, NEW x \in Tasks, Submit(x)
  PROVE  CountingInv'
<1>1. /\ UNCHANGED <<pc, task, to, stamped>>
      /\ queue' = [queue EXCEPT !["pending"] = @ \cup {x}]
      /\ count' = [count EXCEPT !["pending"] = @ + 1]
  BY DEF Submit, workerVars
<1>2. /\ queue'["pending"] = queue["pending"] \cup {x} /\ count'["pending"] = count["pending"] + 1
      /\ \A s \in TaskState \ {"pending"} : queue'[s] = queue[s] /\ count'[s] = count[s]
  BY <1>1 DEF IInv, TypeOK, TaskState
<1>3. x \notin queue["pending"]
  <2>1. ~InFlight(x)
    BY DEF Submit, IInv, WorkerInv, InFlight, Owns, Terminal, Cleanable
  <2> QED
    BY <2>1 DEF Submit, IInv, TaskInv, Agrees, TaskState
<1>4. PendingCounted'
  BY <1>2, <1>3, AddOne DEF CountingInv, PendingCounted, IInv, TypeOK, TaskState
<1>5. \A w \in Workers : Still(w)
  BY <1>1 DEF Still
<1> QED
  BY <1>1, <1>2, <1>4, <1>5, SameSets
     DEF CountingInv, RunningCounted, OutcomeCounted, Terminal, TaskState, Cleanable

LEMMA MoveToRunningCounts ==
  ASSUME IInv, CountingInv, NEW w \in Workers, NEW x \in Tasks, MoveToRunning(w, x)
  PROVE  CountingInv'
<1>1. /\ x \in queue["pending"] /\ UNCHANGED stamped
      /\ queue' = [queue EXCEPT !["pending"] = @ \ {x}]
      /\ count' = [count EXCEPT !["pending"] = @ - 1]
  BY DEF MoveToRunning
<1>2. /\ queue'["pending"] = queue["pending"] \ {x} /\ count'["pending"] = count["pending"] - 1
      /\ \A s \in TaskState \ {"pending"} : queue'[s] = queue[s] /\ count'[s] = count[s]
  BY <1>1 DEF IInv, TypeOK, TaskState
<1>3. PendingCounted'
  BY <1>1, <1>2, TakeOne DEF CountingInv, PendingCounted, IInv, TypeOK, TaskState
<1>4. \A v \in Workers : Still(v)
  BY DEF Still, MoveToRunning, Begin, IInv, TypeOK, Cleaning
<1> QED
  BY <1>1, <1>2, <1>3, <1>4, SameSets
     DEF CountingInv, RunningCounted, OutcomeCounted, Terminal, TaskState, Cleanable

LEMMA CancelPendingCounts ==
  ASSUME IInv, CountingInv, NEW x \in Tasks, CancelPending(x)
  PROVE  CountingInv'
<1>1. /\ x \in queue["pending"] /\ ~InTerminalState(x) /\ UNCHANGED <<pc, task, to, stamped>>
      /\ queue' = [queue EXCEPT !["pending"] = @ \ {x}, !["stopped"] = @ \cup {x}]
      /\ count' = [count EXCEPT !["pending"] = @ - 1, !["stopped"] = @ + 1]
  BY DEF CancelPending, workerVars
<1>2. /\ queue'["pending"] = queue["pending"] \ {x} /\ count'["pending"] = count["pending"] - 1
      /\ queue'["stopped"] = queue["stopped"] \cup {x} /\ count'["stopped"] = count["stopped"] + 1
      /\ \A s \in {"running", "completed", "failed"} : queue'[s] = queue[s] /\ count'[s] = count[s]
  BY <1>1 DEF IInv, TypeOK, TaskState
<1>3. x \notin Uncounted("stopped") /\ x \notin queue["stopped"] /\ x \notin Leaving("stopped")
  BY <1>1 DEF Uncounted, Leaving, IInv, WorkerInv, InTerminalState, Terminal, TaskState
<1>4. PendingCounted'
  BY <1>1, <1>2, TakeOne DEF CountingInv, PendingCounted, IInv, TypeOK, TaskState
<1>5. \A w \in Workers : Still(w)
  BY <1>1 DEF Still
<1>6. UNCHANGED <<At("started"), At("count")>> /\ \A s \in Terminal : Uncounted(s)' = Uncounted(s) /\ Leaving(s)' = Leaving(s)
  BY <1>5, SameSets
<1>7. OutcomeCounted("stopped")'
  <2> DEFINE S == (queue["stopped"] \ Uncounted("stopped")) \cup Leaving("stopped")
  <2>1. /\ (queue'["stopped"] \ Uncounted("stopped")') \cup Leaving("stopped")' = S \cup {x}
        /\ x \notin S
    BY <1>2, <1>3, <1>6 DEF Terminal
  <2>2. S \in SUBSET Tasks
    BY DEF IInv, TypeOK, TaskState, Leaving
  <2>3. Cardinality(S \cup {x}) = Cardinality(S) + 1
    BY <2>1, <2>2, AddOne
  <2> QED
    BY <1>2, <2>1, <2>3 DEF CountingInv, OutcomeCounted, Terminal
<1> QED
  BY <1>1, <1>2, <1>4, <1>6, <1>7
     DEF CountingInv, RunningCounted, OutcomeCounted, Terminal, Cleanable

LEMMA StoreRunningCounts ==
  ASSUME IInv, CountingInv, NEW w \in Workers, StoreRunning(w)
  PROVE  CountingInv'
<1>1. PICK x \in Tasks : x = task[w]
  BY DEF StoreRunning, Goto, IInv, BusyHasTask
<1>2. /\ pc[w] = "store" /\ pc' = [pc EXCEPT ![w] = "started"] /\ UNCHANGED <<task, to, stamped, count>>
      /\ queue' = [queue EXCEPT !["running"] = @ \cup {x}]
  BY <1>1 DEF StoreRunning, Goto
<1>3. /\ queue'["running"] = queue["running"] \cup {x}
      /\ \A s \in TaskState \ {"running"} : queue'[s] = queue[s]
  BY <1>2 DEF IInv, TypeOK, TaskState
<1>4. mu = w /\ x \notin queue["running"]
  BY <1>1, <1>2 DEF IInv, WorkerInv, TaskState
<1>5. At("started") = {} /\ At("started")' = {x}
  <2>1. \A v \in Workers : pc[v] # "started"
    BY <1>2, <1>4 DEF IInv, WorkerInv
  <2>2. \A v \in Workers : pc'[v] = "started" <=> v = w
    BY <1>2, <2>1 DEF IInv, TypeOK
  <2> QED
    BY <1>1, <1>2, <2>1, <2>2 DEF At
<1>6. \A v \in Workers : pc'[v] \in {"unlink", "count"} <=> pc[v] \in {"unlink", "count"}
  BY <1>2 DEF IInv, TypeOK
<1>7. At("count")' = At("count")
  BY <1>2 DEF At, IInv, TypeOK
<1>0. \A s \in Terminal : Leaving(s)' = Leaving(s)
  BY <1>2, LeavingFrame DEF Cleaning, IInv, TypeOK
<1>8. \A s \in Terminal : Uncounted(s)' = Uncounted(s)
  BY <1>2, <1>6 DEF Uncounted
<1>9. RunningCounted'
  <2>1. Cardinality(queue["running"] \cup {x}) = Cardinality(queue["running"]) + 1
    BY <1>4, AddOne DEF IInv, TypeOK, TaskState
  <2>2. Cardinality({x}) = 1
    BY FS_Singleton
  <2>3. Cardinality(At("count")) \in Int /\ Cardinality(queue["running"]) \in Int
    BY Numbers DEF TaskState, Steps
  <2>4. count["running"] = Cardinality(queue["running"]) - Cardinality({}) + Cardinality(At("count"))
    BY <1>5 DEF CountingInv, RunningCounted
  <2>5. count'["running"] = Cardinality(queue'["running"]) - Cardinality({x}) + Cardinality(At("count"))
    <3>1. count'["running"] = count["running"] /\ queue'["running"] = queue["running"] \cup {x}
      BY <1>2, <1>3
    <3>2. Cardinality(queue'["running"]) = Cardinality(queue["running"]) + 1
      BY <2>1, <3>1
    <3> QED
      BY <2>2, <2>3, <2>4, <3>1, <3>2, NoneCounted
  <2> QED
    BY <1>5, <1>7, <2>5 DEF RunningCounted
<1> QED
  BY <1>0, <1>2, <1>3, <1>8, <1>9
     DEF CountingInv, PendingCounted, OutcomeCounted, Terminal, TaskState, Cleanable

LEMMA CountRunningCounts ==
  ASSUME IInv, CountingInv, NEW w \in Workers, CountRunning(w)
  PROVE  CountingInv'
<1>1. PICK x \in Tasks : x = task[w]
  BY DEF CountRunning, IInv, BusyHasTask
<1>2. /\ pc[w] = "started" /\ pc' = [pc EXCEPT ![w] = "idle"] /\ UNCHANGED <<queue, stamped>>
      /\ count' = [count EXCEPT !["running"] = @ + 1]
      /\ \A v \in Workers \ {w} : task'[v] = task[v] /\ to'[v] = to[v]
  BY DEF CountRunning, Return, IInv, TypeOK
<1>3. /\ count'["running"] = count["running"] + 1 /\ count["running"] \in Int
      /\ \A s \in TaskState \ {"running"} : count'[s] = count[s]
  BY <1>2 DEF IInv, TypeOK, TaskState
<1>4. \A v \in Workers : pc[v] = "started" <=> v = w
  BY <1>2 DEF IInv, WorkerInv
<1>5. \A v \in Workers : pc'[v] # "started" /\ (v # w => pc'[v] = pc[v]) /\ pc'[w] = "idle"
  BY <1>2, <1>4 DEF IInv, TypeOK
<1>6. At("started") = {x} /\ At("started")' = {}
  BY <1>1, <1>4, <1>5 DEF At
<1>7. At("count")' = At("count")
  BY <1>2, <1>5 DEF At
<1>0. \A s \in Terminal : Leaving(s)' = Leaving(s)
  BY <1>2, <1>5, LeavingFrame DEF Cleaning
<1>8. \A s \in Terminal : Uncounted(s)' = Uncounted(s)
  BY <1>2, <1>5 DEF Uncounted
<1>9. RunningCounted'
  <2>1. Cardinality({x}) = 1
    BY FS_Singleton
  <2>2. At("count") \in SUBSET Tasks /\ queue["running"] \in SUBSET Tasks
    BY DEF At, IInv, TypeOK, TaskState
  <2>3. Cardinality(At("count")) \in Nat /\ Cardinality(queue["running"]) \in Nat
    BY <2>2, FiniteTasks
  <2>4. RunningCounted
    BY DEF CountingInv
  <2>5. count["running"] = Cardinality(queue["running"]) - Cardinality({x}) + Cardinality(At("count"))
    BY <1>6, <2>4 DEF RunningCounted
  <2>6. count'["running"] = Cardinality(queue'["running"]) - Cardinality({}) + Cardinality(At("count"))
    BY <1>2, <1>3, <2>1, <2>3, <2>5, NoneCounted
  <2> QED
    BY <1>6, <1>7, <2>6 DEF RunningCounted
<1> QED
  BY <1>0, <1>2, <1>3, <1>8, <1>9
     DEF CountingInv, PendingCounted, OutcomeCounted, Terminal, TaskState, Cleanable

LEMMA PublishCounts ==
  ASSUME IInv, CountingInv, NEW w \in Workers, Publish(w)
  PROVE  CountingInv'
<1>1. PICK x \in Tasks : x = task[w]
  BY DEF Publish, Goto, IInv, BusyHasTask
<1>2. /\ pc[w] = "publish" /\ pc' = [pc EXCEPT ![w] = "unlink"] /\ UNCHANGED <<task, to, stamped, count>>
      /\ queue' = [queue EXCEPT ![to[w]] = @ \cup {x}]
  BY <1>1 DEF Publish, Goto
<1>3. to[w] \in Terminal /\ \A s \in Terminal : x \notin queue[s]
  BY <1>1, <1>2 DEF IInv, WorkerInv
<1>4. /\ queue'[to[w]] = queue[to[w]] \cup {x}
      /\ \A s \in TaskState \ {to[w]} : queue'[s] = queue[s]
  BY <1>2, <1>3 DEF IInv, TypeOK, TaskState, Terminal
<1>5. \A v \in Workers : pc'[v] = IF v = w THEN "unlink" ELSE pc[v]
  BY <1>2 DEF IInv, TypeOK
<1>6. UNCHANGED At("started") /\ UNCHANGED At("count")
  BY <1>2, <1>5 DEF At
<1>7. \A s \in Terminal : queue'[s] \ Uncounted(s)' = queue[s] \ Uncounted(s)
  <2>1. PICK o \in Terminal : o = to[w]
    BY <1>3
  <2>2. Uncounted(o)' = Uncounted(o) \cup {x}
    BY <1>1, <1>2, <1>5, <2>1 DEF Uncounted
  <2>3. \A s \in Terminal \ {o} : Uncounted(s)' = Uncounted(s)
    BY <1>2, <1>5, <2>1 DEF Uncounted
  <2>4. queue'[o] = queue[o] \cup {x} /\ Uncounted(o)' = Uncounted(o) \cup {x}
    BY <1>4, <2>2, <2>1 DEF Terminal, TaskState
  <2>5. \A s \in Terminal \ {o} : queue'[s] = queue[s] /\ Uncounted(s)' = Uncounted(s)
    BY <1>4, <2>3, <2>1 DEF Terminal, TaskState
  <2>6. x \notin queue[o]
    BY <1>3, <2>1
  <2> QED
    BY <2>4, <2>5, <2>6
<1>0. \A s \in Terminal : Leaving(s)' = Leaving(s)
  BY <1>2, <1>5, LeavingFrame DEF Cleaning
<1>8. PendingCounted' /\ RunningCounted'
  BY <1>2, <1>3, <1>4, <1>6 DEF CountingInv, PendingCounted, RunningCounted, Terminal, TaskState
<1>9. \A s \in Cleanable : stamped'[s] \subseteq queue'[s] \cup Leaving(s)'
  BY <1>0, <1>2, <1>4 DEF CountingInv, Cleanable, Terminal, TaskState
<1> QED
  BY <1>0, <1>2, <1>7, <1>8, <1>9 DEF CountingInv, OutcomeCounted

LEMMA UnlinkCounts ==
  ASSUME IInv, CountingInv, NEW w \in Workers, Unlink(w)
  PROVE  CountingInv'
<1>1. PICK x \in Tasks : x = task[w]
  BY DEF Unlink, Goto, IInv, BusyHasTask
<1>2. /\ pc[w] = "unlink" /\ pc' = [pc EXCEPT ![w] = "count"] /\ UNCHANGED <<task, to, stamped, count>>
      /\ queue' = [queue EXCEPT !["running"] = @ \ {x}]
  BY <1>1 DEF Unlink, Goto
<1>3. x \in queue["running"]
  BY <1>1, <1>2 DEF IInv, WorkerInv
<1>4. /\ queue'["running"] = queue["running"] \ {x}
      /\ \A s \in TaskState \ {"running"} : queue'[s] = queue[s]
  BY <1>2 DEF IInv, TypeOK, TaskState
<1>5. \A v \in Workers : pc'[v] = IF v = w THEN "count" ELSE pc[v]
  BY <1>2 DEF IInv, TypeOK
<1>6. At("started")' = At("started")
  BY <1>2, <1>5 DEF At
<1>7. At("count")' = At("count") \cup {x} /\ x \notin At("count")
  <2>1. \A v \in Workers : pc[v] = "count" => task[v] # x
    BY <1>1, <1>2 DEF IInv, UniqueOwner, Owns
  <2> QED
    BY <1>1, <1>2, <1>5, <2>1 DEF At
<1>0. \A s \in Terminal : Leaving(s)' = Leaving(s)
  BY <1>2, LeavingFrame DEF Cleaning, IInv, TypeOK
<1>8. \A s \in Terminal : Uncounted(s)' = Uncounted(s)
  BY <1>2, <1>5 DEF Uncounted
<1>9. RunningCounted'
  <2>1. /\ At("count") \in SUBSET Tasks /\ queue["running"] \in SUBSET Tasks
        /\ Cardinality(At("count")) \in Int /\ Cardinality(queue["running"]) \in Int
        /\ Cardinality(At("started")) \in Int /\ count["running"] \in Int
    BY Numbers DEF Steps, IInv, TypeOK, TaskState
  <2>2. count["running"] = Cardinality(queue["running"]) - Cardinality(At("started"))
                             + Cardinality(At("count"))
    BY DEF CountingInv, RunningCounted
  <2>3. Cardinality(queue["running"] \ {x}) = Cardinality(queue["running"]) - 1
    BY <1>3, <2>1, TakeOne
  <2>4. Cardinality(At("count") \cup {x}) = Cardinality(At("count")) + 1
    BY <1>7, <2>1, AddOne
  <2>5. count'["running"] = Cardinality(queue'["running"]) - Cardinality(At("started"))
                              + Cardinality(At("count") \cup {x})
    <3>1. count'["running"] = count["running"] /\ queue'["running"] = queue["running"] \ {x}
      BY <1>2, <1>4
    <3> QED
      BY <2>1, <2>2, <2>3, <2>4, <3>1
  <2> QED
    BY <1>6, <1>7, <2>5 DEF RunningCounted
<1> QED
  BY <1>0, <1>2, <1>4, <1>8, <1>9
     DEF CountingInv, PendingCounted, OutcomeCounted, Terminal, TaskState, Cleanable

LEMMA CountCounts ==
  ASSUME IInv, CountingInv, NEW w \in Workers, Count(w)
  PROVE  CountingInv'
<1>1. PICK x \in Tasks : x = task[w]
  BY DEF Count, IInv, BusyHasTask
<1>2. /\ pc[w] = "count" /\ UNCHANGED <<queue, stamped>>
      /\ \A v \in Workers \ {w} : pc'[v] = pc[v] /\ task'[v] = task[v] /\ to'[v] = to[v]
      /\ count' = [count EXCEPT !["running"] = @ - 1, ![to[w]] = @ + 1]
      /\ pc'[w] \in {"idle", "stamp"}
  BY DEF Count, Goto, Return, IInv, TypeOK
<1>0. PICK o \in Terminal : o = to[w]
  BY <1>2 DEF IInv, WorkerInv
<1>3. x \in queue[o] /\ x \notin Leaving(o)
  <2>1. x \in queue[o]
    BY <1>0, <1>1, <1>2 DEF IInv, WorkerInv
  <2> QED
    BY <2>1 DEF IInv, WorkerInv, Leaving, Terminal, TaskState
<1>13. \A s \in Terminal : Leaving(s)' = Leaving(s)
  BY <1>2, LeavingFrame DEF Cleaning
<1>4. /\ count'["running"] = count["running"] - 1 /\ count'[o] = count[o] + 1
      /\ \A s \in TaskState \ {"running", o} : count'[s] = count[s]
      /\ \A s \in TaskState : count[s] \in Int
  BY <1>0, <1>2 DEF IInv, TypeOK, TaskState, Terminal
<1>5. \A v \in Workers \ {w} : pc[v] \in {"unlink", "count"} => task[v] # x
  BY <1>1, <1>2 DEF IInv, UniqueOwner, Owns
<1>6. At("started")' = At("started")
  <2>1. \A v \in Workers : (pc[v] = "started" <=> pc'[v] = "started")
                           /\ (pc[v] = "started" => task'[v] = task[v])
    BY <1>2
  <2> QED
    BY <2>1 DEF At
<1>7. At("count")' = At("count") \ {x} /\ x \in At("count")
  <2>1. ASSUME NEW t \in Tasks PROVE t \in At("count")' <=> t \in At("count") /\ t # x
    <3>1. ASSUME NEW v \in Workers, pc'[v] = "count" /\ task'[v] = t
          PROVE  t \in At("count") /\ t # x
      BY <1>2, <1>5, <3>1 DEF At
    <3>2. ASSUME NEW v \in Workers, pc[v] = "count" /\ task[v] = t, t # x
          PROVE  t \in At("count")'
      BY <1>1, <1>2, <3>2 DEF At
    <3> QED
      BY <3>1, <3>2 DEF At
  <2> QED
    BY <1>1, <1>2, <2>1 DEF At
<1>8. Uncounted(o)' = Uncounted(o) \ {x} /\ x \in Uncounted(o)
  <2>1. ASSUME NEW t \in Tasks
        PROVE  t \in Uncounted(o)' <=> t \in Uncounted(o) /\ t # x
    <3>1. ASSUME NEW v \in Workers, pc'[v] \in {"unlink", "count"} /\ task'[v] = t /\ to'[v] = o
          PROVE  t \in Uncounted(o) /\ t # x
      BY <1>2, <1>5, <3>1 DEF Uncounted
    <3>2. ASSUME NEW v \in Workers, pc[v] \in {"unlink", "count"} /\ task[v] = t /\ to[v] = o, t # x
          PROVE  \E u \in Workers : pc'[u] \in {"unlink", "count"} /\ task'[u] = t /\ to'[u] = o
      BY <1>0, <1>1, <1>2, <3>2
    <3> QED
      BY <3>1, <3>2 DEF Uncounted
  <2> QED
    BY <1>0, <1>1, <1>2, <2>1 DEF Uncounted
<1>9. \A s \in Terminal \ {o} : Uncounted(s)' = Uncounted(s)
  <2>1. ASSUME NEW s \in Terminal \ {o}, NEW v \in Workers, NEW t \in Tasks
        PROVE  (pc[v] \in {"unlink", "count"} /\ task[v] = t /\ to[v] = s)
                 <=> (pc'[v] \in {"unlink", "count"} /\ task'[v] = t /\ to'[v] = s)
    BY <1>0, <1>2
  <2> QED
    BY <2>1 DEF Uncounted
<1>10. RunningCounted'
  <2>1. /\ At("count") \in SUBSET Tasks /\ queue["running"] \in SUBSET Tasks
        /\ Cardinality(At("count")) \in Int /\ Cardinality(queue["running"]) \in Int
        /\ Cardinality(At("started")) \in Int /\ count["running"] \in Int
    BY Numbers DEF Steps, IInv, TypeOK, TaskState
  <2>2. count["running"] = Cardinality(queue["running"]) - Cardinality(At("started"))
                             + Cardinality(At("count"))
    BY DEF CountingInv, RunningCounted
  <2>3. Cardinality(At("count") \ {x}) = Cardinality(At("count")) - 1
    BY <1>7, <2>1, TakeOne
  <2>5. count'["running"] = Cardinality(queue'["running"]) - Cardinality(At("started"))
                              + Cardinality(At("count") \ {x})
    BY <1>2, <1>4, <2>1, <2>2, <2>3
  <2> QED
    BY <1>6, <1>7, <2>5 DEF RunningCounted
<1>11. OutcomeCounted(o)'
  <2> DEFINE S == (queue[o] \ Uncounted(o)) \cup Leaving(o)
             T == (queue[o] \ (Uncounted(o) \ {x})) \cup Leaving(o)
  <2>1. T = S \cup {x} /\ x \notin S /\ S \in SUBSET Tasks
    BY <1>3, <1>8 DEF IInv, TypeOK, TaskState, Terminal, Leaving
  <2>2. Cardinality(T) = Cardinality(S) + 1
    BY <2>1, AddOne
  <2>3. count[o] = Cardinality(S)
    BY <1>3 DEF CountingInv, OutcomeCounted
  <2>4. (queue'[o] \ Uncounted(o)') \cup Leaving(o)' = T
    BY <1>2, <1>8, <1>13
  <2> QED
    BY <1>4, <2>2, <2>3, <2>4 DEF OutcomeCounted
<1>12. \A s \in Terminal \ {o} : OutcomeCounted(s)'
  BY <1>2, <1>4, <1>9, <1>13 DEF CountingInv, OutcomeCounted, Terminal, TaskState
<1> QED
  BY <1>2, <1>13, <1>3, <1>4, <1>10, <1>11, <1>12
     DEF CountingInv, PendingCounted, Terminal, TaskState, Cleanable

LEMMA StampCounts ==
  ASSUME IInv, CountingInv, NEW w \in Workers, Stamp(w)
  PROVE  CountingInv'
<1>1. /\ pc[w] = "stamp" /\ UNCHANGED <<queue, count>>
      /\ stamped' = [stamped EXCEPT ![to[w]] = @ \cup {task[w]}]
  BY DEF Stamp
<1>2. task[w] \in queue[to[w]] /\ to[w] \in Cleanable
  BY <1>1 DEF IInv, WorkerInv
<1>4. \A v \in Workers : Still(v)
  BY DEF Still, Stamp, Return, IInv, TypeOK, Cleaning
<1>3. \A s \in Cleanable : stamped'[s] \subseteq queue'[s] \cup Leaving(s)'
  BY <1>1, <1>2, <1>4, SameSets DEF CountingInv, IInv, TypeOK, Cleanable, Terminal
<1> QED
  BY <1>1, <1>3, <1>4, SameSets, NotCounted

\* The steps before an operation has won its task leave everything but the workers alone.
LEMMA EarlyCounts ==
  ASSUME IInv, CountingInv, NEW w \in Workers,
         Win(w) \/ Lose(w) \/ \E t \in Tasks, s \in Terminal : Load(w, t, s)
  PROVE  CountingInv'
<1>1. UNCHANGED <<queue, count, stamped>>
  BY DEF Win, Lose, Load
<1>2. \A v \in Workers : Still(v)
  BY DEF Still, Win, Lose, Load, Goto, Begin, Return, IInv, TypeOK, Cleaning
<1>3. \A s \in Cleanable : stamped'[s] \subseteq queue'[s] \cup Leaving(s)'
  BY <1>1, <1>2, SameSets DEF CountingInv, Cleanable, Terminal
<1> QED
  BY <1>1, <1>2, <1>3, SameSets, NotCounted

\* What the cleaner takes is in its map, and was counted there; it stays counted until
\* CleanCount.
LEMMA CleanMapCounts ==
  ASSUME IInv, CountingInv, NEW w \in Workers, NEW x \in Tasks, NEW o \in Cleanable, CleanMap(w, x, o)
  PROVE  CountingInv'
<1>1. /\ pc[w] = "idle" /\ x \in stamped[o] /\ ~HistoryLocked /\ UNCHANGED <<stamped, count>>
      /\ queue' = [queue EXCEPT ![o] = @ \ {x}]
      /\ \A v \in Workers \ {w} : pc'[v] = pc[v] /\ task'[v] = task[v] /\ to'[v] = to[v]
      /\ pc'[w] = "forget" /\ task'[w] = x /\ to'[w] = o
  BY DEF CleanMap, Begin, IInv, TypeOK
<1>2. /\ queue'[o] = queue[o] \ {x}
      /\ \A s \in TaskState \ {o} : queue'[s] = queue[s]
  BY <1>1 DEF IInv, TypeOK, TaskState, Cleanable
<1>3. \A s \in Terminal : Leaving(s) = {}
  BY <1>1 DEF Leaving, HistoryLocked
<1>4. Leaving(o)' = {x} /\ \A s \in Terminal \ {o} : Leaving(s)' = {}
  <2>1. \A v \in Workers : pc'[v] \in Cleaning <=> v = w
    BY <1>1 DEF HistoryLocked, Cleaning
  <2> QED
    BY <1>1, <2>1 DEF Leaving
<1>5. UNCHANGED <<At("started"), At("count")>> /\ \A s \in Terminal : Uncounted(s)' = Uncounted(s)
  <2>1. ASSUME NEW t \in Tasks, NEW v \in Workers, NEW s \in Terminal
        PROVE  (pc[v] \in {"unlink", "count"} /\ task[v] = t /\ to[v] = s)
                 <=> (pc'[v] \in {"unlink", "count"} /\ task'[v] = t /\ to'[v] = s)
    BY <1>1
  <2>2. ASSUME NEW t \in Tasks, NEW v \in Workers, NEW step \in {"started", "count"}
        PROVE  (pc[v] = step /\ task[v] = t) <=> (pc'[v] = step /\ task'[v] = t)
    BY <1>1
  <2>3. UNCHANGED At("started") /\ UNCHANGED At("count")
    BY <2>2 DEF At
  <2>4. \A s \in Terminal : Uncounted(s)' = Uncounted(s)
    BY <2>1 DEF Uncounted
  <2> QED
    BY <2>3, <2>4
<1>6. x \in queue[o] /\ x \notin Uncounted(o)
  <2>1. x \in queue[o]
    BY <1>1, <1>3 DEF CountingInv, Cleanable, Terminal
  <2>2. x \notin Uncounted(o)
    BY <1>1 DEF IInv, WorkerInv, Uncounted
  <2> QED
    BY <2>1, <2>2
<1>7. OutcomeCounted(o)'
  <2>1. (queue'[o] \ Uncounted(o)') \cup Leaving(o)' = (queue[o] \ Uncounted(o)) \cup Leaving(o)
    BY <1>2, <1>3, <1>4, <1>5, <1>6 DEF Cleanable, Terminal
  <2> QED
    BY <1>1, <2>1 DEF CountingInv, OutcomeCounted, Cleanable, Terminal
<1>8. \A s \in Terminal \ {o} : OutcomeCounted(s)'
  BY <1>1, <1>2, <1>3, <1>4, <1>5 DEF CountingInv, OutcomeCounted, Terminal, TaskState
<1>9. PendingCounted' /\ RunningCounted'
  BY <1>1, <1>2, <1>5 DEF CountingInv, PendingCounted, RunningCounted, Cleanable, TaskState
<1>10. \A s \in Cleanable : stamped'[s] \subseteq queue'[s] \cup Leaving(s)'
  BY <1>1, <1>2, <1>3, <1>4 DEF CountingInv, Cleanable, Terminal, TaskState
<1> QED
  BY <1>7, <1>8, <1>9, <1>10 DEF CountingInv

LEMMA CleanIndexCounts ==
  ASSUME IInv, CountingInv, NEW w \in Workers, CleanIndex(w)
  PROVE  CountingInv'
<1>1. /\ UNCHANGED <<queue, stamped, count, task, to>>
      /\ pc[w] = "forget" /\ pc'[w] = "uncount"
      /\ \A v \in Workers \ {w} : pc'[v] = pc[v]
  BY DEF CleanIndex, Goto, IInv, TypeOK
<1>2. \A v \in Workers : /\ pc[v] \in Cleaning <=> pc'[v] \in Cleaning
                         /\ pc[v] \in {"unlink", "count"} <=> pc'[v] \in {"unlink", "count"}
                         /\ pc[v] = "started" <=> pc'[v] = "started"
                         /\ pc[v] = "count" <=> pc'[v] = "count"
  BY <1>1 DEF Cleaning
<1>3. UNCHANGED At("started") /\ UNCHANGED At("count")
  BY <1>1, <1>2 DEF At
<1>4. \A s \in Terminal : Uncounted(s)' = Uncounted(s) /\ Leaving(s)' = Leaving(s)
  BY <1>1, <1>2 DEF Uncounted, Leaving
<1>5. \A s \in Cleanable : stamped'[s] \subseteq queue'[s] \cup Leaving(s)'
  BY <1>1, <1>4 DEF CountingInv, Cleanable, Terminal
<1> QED
  BY <1>1, <1>3, <1>4, <1>5, NotCounted

LEMMA CleanCountCounts ==
  ASSUME IInv, CountingInv, NEW w \in Workers, CleanCount(w)
  PROVE  CountingInv'
<1>1. PICK x \in Tasks : x = task[w]
  BY DEF CleanCount, IInv, BusyHasTask
<1>2. /\ pc[w] = "uncount" /\ pc'[w] = "idle" /\ UNCHANGED queue
      /\ \A v \in Workers \ {w} : pc'[v] = pc[v] /\ task'[v] = task[v] /\ to'[v] = to[v]
      /\ count' = [count EXCEPT ![to[w]] = @ - 1]
      /\ stamped' = [stamped EXCEPT ![to[w]] = @ \ {x}]
  BY <1>1 DEF CleanCount, Return, IInv, TypeOK
<1>3. PICK o \in Cleanable : o = to[w]
  BY <1>2 DEF IInv, WorkerInv, Cleaning
<1>4. /\ count'[o] = count[o] - 1 /\ count[o] \in Int
      /\ \A s \in TaskState \ {o} : count'[s] = count[s]
      /\ stamped'[o] = stamped[o] \ {x} /\ \A s \in Cleanable \ {o} : stamped'[s] = stamped[s]
  BY <1>2, <1>3 DEF IInv, TypeOK, TaskState, Cleanable
<1>5. x \in Leaving(o) /\ x \notin queue[o]
  BY <1>1, <1>2, <1>3 DEF Leaving, IInv, WorkerInv, Cleaning, Cleanable, TaskState
<1>6. \A v \in Workers \ {w} : pc[v] \in Cleaning => task[v] # x
  BY <1>1, <1>2 DEF IInv, UniqueOwner, Owns, Cleaning
<1>7. Leaving(o)' = Leaving(o) \ {x}
  <2>1. ASSUME NEW t \in Tasks
        PROVE  t \in Leaving(o)' <=> t \in Leaving(o) /\ t # x
    <3>1. ASSUME NEW v \in Workers, pc'[v] \in Cleaning /\ task'[v] = t /\ to'[v] = o
          PROVE  t \in Leaving(o) /\ t # x
      BY <1>2, <1>6, <3>1 DEF Leaving, Cleaning
    <3>2. ASSUME NEW v \in Workers, pc[v] \in Cleaning /\ task[v] = t /\ to[v] = o, t # x
          PROVE  \E u \in Workers : pc'[u] \in Cleaning /\ task'[u] = t /\ to'[u] = o
      BY <1>1, <1>2, <3>2
    <3> QED
      BY <3>1, <3>2 DEF Leaving
  <2> QED
    BY <2>1 DEF Leaving
<1>8. \A s \in Terminal \ {o} : Leaving(s)' = Leaving(s)
  <2>1. ASSUME NEW s \in Terminal \ {o}, NEW v \in Workers, NEW t \in Tasks
        PROVE  (pc[v] \in Cleaning /\ task[v] = t /\ to[v] = s)
                 <=> (pc'[v] \in Cleaning /\ task'[v] = t /\ to'[v] = s)
    BY <1>2, <1>3 DEF Cleaning
  <2> QED
    BY <2>1 DEF Leaving
<1>9. UNCHANGED <<At("started"), At("count")>> /\ \A s \in Terminal : Uncounted(s)' = Uncounted(s)
  <2>1. ASSUME NEW t \in Tasks, NEW v \in Workers, NEW s \in Terminal
        PROVE  (pc[v] \in {"unlink", "count"} /\ task[v] = t /\ to[v] = s)
                 <=> (pc'[v] \in {"unlink", "count"} /\ task'[v] = t /\ to'[v] = s)
    BY <1>2
  <2>2. ASSUME NEW t \in Tasks, NEW v \in Workers, NEW step \in {"started", "count"}
        PROVE  (pc[v] = step /\ task[v] = t) <=> (pc'[v] = step /\ task'[v] = t)
    BY <1>2
  <2>3. UNCHANGED At("started") /\ UNCHANGED At("count")
    BY <2>2 DEF At
  <2>4. \A s \in Terminal : Uncounted(s)' = Uncounted(s)
    BY <2>1 DEF Uncounted
  <2> QED
    BY <2>3, <2>4
<1>10. OutcomeCounted(o)'
  <2> DEFINE S == (queue[o] \ Uncounted(o)) \cup Leaving(o)
  <2>1. S \in SUBSET Tasks /\ x \in S
    BY <1>5 DEF IInv, TypeOK, TaskState, Cleanable, Leaving
  <2>2. Cardinality(S \ {x}) = Cardinality(S) - 1
    BY <2>1, TakeOne
  <2>3. (queue'[o] \ Uncounted(o)') \cup Leaving(o)' = S \ {x}
    BY <1>2, <1>5, <1>7, <1>9 DEF Cleanable, Terminal
  <2>4. count[o] = Cardinality(S)
    BY DEF CountingInv, OutcomeCounted, Cleanable, Terminal
  <2> QED
    BY <1>4, <2>2, <2>3, <2>4 DEF OutcomeCounted
<1>11. \A s \in Terminal \ {o} : OutcomeCounted(s)'
  BY <1>2, <1>4, <1>8, <1>9 DEF CountingInv, OutcomeCounted, Terminal, TaskState
<1>12. \A s \in Cleanable : stamped'[s] \subseteq queue'[s] \cup Leaving(s)'
  BY <1>2, <1>4, <1>7, <1>8 DEF CountingInv, Cleanable, Terminal
<1> QED
  BY <1>2, <1>4, <1>9, <1>10, <1>11, <1>12
     DEF CountingInv, PendingCounted, RunningCounted, Cleanable, TaskState

LEMMA InitCounts == Init => CountingInv
<1> SUFFICES ASSUME Init PROVE CountingInv
  OBVIOUS
<1>1. At("started") = {} /\ At("count") = {}
  BY DEF Init, At
<1>2. \A s \in Terminal : (queue[s] \ Uncounted(s)) \cup Leaving(s) = {} /\ count[s] = 0
  BY DEF Init, Terminal, TaskState, Leaving, Cleaning
<1>3. PendingCounted /\ RunningCounted
  BY <1>1, NoneCounted DEF Init, PendingCounted, RunningCounted, TaskState
<1> QED
  BY <1>2, <1>3, NoneCounted DEF CountingInv, OutcomeCounted, Init

LEMMA NextCounts == IInv /\ CountingInv /\ [Next]_vars => CountingInv'
<1> SUFFICES ASSUME IInv, CountingInv, [Next]_vars PROVE CountingInv'
  OBVIOUS
<1>1. ASSUME NEW x \in Tasks, Submit(x) \/ CancelPending(x) PROVE CountingInv'
  BY <1>1, SubmitCounts, CancelPendingCounts
<1>2. ASSUME NEW w \in Workers, NEW x \in Tasks, MoveToRunning(w, x) PROVE CountingInv'
  BY <1>2, MoveToRunningCounts
<1>3. ASSUME NEW w \in Workers, NEW x \in Tasks,
             MoveToComplete(w, x) \/ MoveToFailed(w, x) \/ CancelRunning(w, x)
      PROVE  CountingInv'
  BY <1>3, EarlyCounts DEF MoveToComplete, MoveToFailed, CancelRunning, Terminal
<1>4. ASSUME NEW w \in Workers, StoreRunning(w) \/ CountRunning(w) \/ Win(w) \/ Lose(w)
      PROVE  CountingInv'
  BY <1>4, StoreRunningCounts, CountRunningCounts, EarlyCounts
<1>5. ASSUME NEW w \in Workers, Publish(w) \/ Unlink(w) \/ Count(w) \/ Stamp(w)
      PROVE  CountingInv'
  BY <1>5, PublishCounts, UnlinkCounts, CountCounts, StampCounts
<1>6. ASSUME NEW w \in Workers,
             CleanIndex(w) \/ CleanCount(w) \/ \E t \in Tasks, s \in Cleanable : CleanMap(w, t, s)
      PROVE  CountingInv'
  BY <1>6, CleanMapCounts, CleanIndexCounts, CleanCountCounts
<1>7. CASE UNCHANGED vars
  <2>1. \A w \in Workers : Still(w)
    BY <1>7 DEF Still, vars
  <2>2. UNCHANGED <<queue, count, stamped>>
    BY <1>7 DEF vars
  <2>3. \A s \in Cleanable : stamped'[s] \subseteq queue'[s] \cup Leaving(s)'
    BY <2>1, <2>2, SameSets DEF CountingInv, Cleanable, Terminal
  <2> QED
    BY <2>1, <2>2, <2>3, SameSets, NotCounted
<1> QED
  BY <1>1, <1>2, <1>3, <1>4, <1>5, <1>6, <1>7 DEF Next, Operation

\* When no operation is in flight no task is between its map and its counter, so the
\* counters that Stats reports are exact: no interleaving of the lock-free operations loses
\* or doubles an update, for any number of tasks and callers.
THEOREM CountersSettleAlways == Spec => []CountersSettle
<1>1. ASSUME IInv, CountingInv PROVE CountersSettle
  <2> SUFFICES ASSUME \A w \in Workers : pc[w] \in {"idle", "loaded"}
               PROVE  \A s \in TaskState : count[s] = Cardinality(queue[s])
    BY DEF CountersSettle
  <2>1. /\ At("started") = {} /\ At("count") = {}
        /\ \A s \in Terminal : Uncounted(s) = {} /\ Leaving(s) = {}
    BY DEF At, Uncounted, Leaving, Cleaning
  <2>2. \A s \in Terminal : count[s] = Cardinality(queue[s])
    <3>1. \A s \in Terminal : (queue[s] \ Uncounted(s)) \cup Leaving(s) = queue[s]
      BY <2>1
    <3> QED
      BY <1>1, <3>1 DEF CountingInv, OutcomeCounted
  <2>3. count["running"] = Cardinality(queue["running"])
    <3>1. Cardinality(queue["running"]) \in Int
      BY <1>1, Numbers DEF TaskState
    <3>2. RunningCounted
      BY <1>1 DEF CountingInv
    <3>3. count["running"] = Cardinality(queue["running"]) - Cardinality({}) + Cardinality({})
      BY <2>1, <3>2 DEF RunningCounted
    <3> QED
      BY <3>1, <3>3, NoneCounted
  <2>4. count["pending"] = Cardinality(queue["pending"])
    BY <1>1 DEF CountingInv, PendingCounted
  <2> QED
    BY <2>2, <2>3, <2>4 DEF TaskState, Terminal
<1> QED
  BY <1>1, InitIInv, NextIInv, InitCounts, NextCounts, PTL DEF Spec
-----------------------------------------------------------------------------
(* Refinement: every step of the queue is a step of TaskLifecycle or does  *)
(* not change what it describes.                                           *)

LEMMA TransitionIsMove ==
  ASSUME NEW x \in Tasks, NEW s \in TaskState, TransitionTo(x, s), UNCHANGED allTasks
  PROVE  Lifecycle!Next
BY DEF TransitionTo, AllowedTransitions, TaskState, Lifecycle!Next, Lifecycle!Move,
       Lifecycle!Allowed, Lifecycle!TaskState

LEMMA StepLifecycle ==
  ASSUME IInv, [Next]_vars
  PROVE  [Lifecycle!Next]_<<stateMachine, allTasks>>
<1>1. ASSUME NEW x \in Tasks, Submit(x)
      PROVE  Lifecycle!Next
  BY <1>1 DEF Submit, Lifecycle!Next, Lifecycle!Submit
<1>2. ASSUME NEW x \in Tasks, CancelPending(x) \/ \E w \in Workers : MoveToRunning(w, x)
      PROVE  Lifecycle!Next
  BY <1>2, TransitionIsMove DEF CancelPending, MoveToRunning, TaskState
<1>3. ASSUME NEW w \in Workers, Win(w)
      PROVE  Lifecycle!Next
  <2>1. task[w] \in Tasks /\ to[w] \in TaskState
    BY <1>3 DEF Win, Goto, IInv, BusyHasTask, WorkerInv, Terminal, TaskState
  <2> QED
    BY <1>3, <2>1, TransitionIsMove DEF Win
<1>4. ASSUME NEW w \in Workers, CleanIndex(w)
      PROVE  Lifecycle!Next
  <2>1. PICK x \in Tasks : x = task[w]
    BY <1>4 DEF CleanIndex, Goto, IInv, BusyHasTask
  <2>2. allTasks' = allTasks \ {x} /\ UNCHANGED stateMachine /\ pc[w] = "forget"
    BY <1>4, <2>1 DEF CleanIndex, Goto
  <2>3. stateMachine[x] \in {"completed", "failed"} /\ x \in allTasks
    BY <2>1, <2>2 DEF IInv, WorkerInv, Cleaning, Cleanable
  <2>4. Lifecycle!Forget({x})
    BY <2>2, <2>3 DEF Lifecycle!Forget
  <2> QED
    BY <2>4 DEF Lifecycle!Next
<1>5. ASSUME UNCHANGED <<stateMachine, allTasks>>
      PROVE  [Lifecycle!Next]_<<stateMachine, allTasks>>
  BY <1>5
<1> QED
  BY <1>1, <1>2, <1>3, <1>4, <1>5 DEF Next, Operation, MoveToComplete, MoveToFailed,
     CancelRunning, Load, StoreRunning, CountRunning, Lose, Publish, Unlink, Count, Stamp, CleanMap,
     CleanCount, vars

\* The queue keeps the promises of TaskLifecycle, whatever runs concurrently.
THEOREM QueueImplementsLifecycle == Spec => ImplementsLifecycle
<1>1. Init => Lifecycle!Init
  BY DEF Init, Lifecycle!Init
<1>2. IInv /\ [Next]_vars => [Lifecycle!Next]_<<stateMachine, allTasks>>
  BY StepLifecycle
<1> QED
  BY <1>1, <1>2, InitIInv, NextIInv, PTL
     DEF Spec, ImplementsLifecycle, Lifecycle!Spec, Lifecycle!lifecycleVars
=============================================================================
