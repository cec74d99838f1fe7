------------------------------ MODULE Dispatch ------------------------------
(***************************************************************************)
(* Starting, running, completing and stopping tasks: the master's          *)
(* controller (distributed/master/master.go, the task handlers of          *)
(* http_server.go and service.go) and the task life of the slaves          *)
(* (distributed/slave/slave.go, service.go).                               *)
(*                                                                         *)
(* The master's queue is TaskLifecycle, which TaskQueue implements: its    *)
(* operations are one step here, and one that fails changes nothing.       *)
(* Which slaves a start picks is left open (any of them, the pool's view   *)
(* is always a little old).  A remote call is the step of its handler; the *)
(* caller acts on the answer in a later step.  A slave's handlers and the  *)
(* goroutine of each run share its fields without a lock, so the accesses  *)
(* that other steps can come between are steps of their own.               *)
(***************************************************************************)
EXTENDS Integers, FiniteSets

CONSTANTS
  Tasks,     \* task IDs
  Starts,    \* requests to start a task, each with the goroutine that serves it
  Slaves,    \* slave IDs
  NoTask,    \* the empty task ID
  NoStart,   \* a cancelFunc of no run: nil, or the slave's own before its first run
  MaxFaults  \* how many lost messages, lost answers and crashes to explore

ASSUME DispatchAssumption ==
  /\ NoTask \notin Tasks
  /\ NoStart \notin Starts
  /\ MaxFaults \in Nat

VARIABLES
  state, known,  \* the master's queue
  assigned,      \* AssignedSlaves of each task
  start,         \* per start: how far its goroutine is
  target,        \* per start: its task
  chosen,        \* per start: the slaves it picked
  call,          \* per start and slave: the ExecuteTask call
  stop,          \* per task: the StopTask request
  stopCalls,     \* per task: the slaves the request has yet to tell
  up,            \* the slaves whose process runs
  current,       \* per slave: currentTaskID
  slaveState,    \* per slave: info.State
  cancelFunc,    \* per slave: the start whose run cancelFunc cancels
  run,           \* per start and slave: the goroutine that runs the task
  faults         \* the faults that occurred

queueVars  == <<state, known>>
startVars  == <<start, target, chosen, assigned>>
stopVars   == <<stop, stopCalls>>
fieldVars  == <<current, slaveState, cancelFunc>>
slaveVars  == <<up, fieldVars, run>>
vars == <<queueVars, startVars, stopVars, call, slaveVars, faults>>

Queue == INSTANCE TaskLifecycle

\* A goroutine of a run that has its slave's fields still to clear.
Busy == {"active", "cancelled", "succeeded", "failed", "reported", "reportedError"}

\* One that has reported.
Reported == {"reported", "cleared", "over"}
ReportedError == {"reportedError", "clearedError", "returned", "overError"}

RunStep == Busy \cup Reported \cup ReportedError \cup {"none", "lost"}

MasterTypeOK ==
  /\ state \in [Tasks -> Queue!TaskState \cup {"none"}]
  /\ known \subseteq Tasks
  /\ assigned \in [Tasks -> SUBSET Slaves]
  /\ start \in [Starts -> {"none", "chosen", "assigned", "dispatching", "done"}]
  /\ target \in [Starts -> Tasks \cup {NoTask}]
  /\ chosen \in [Starts -> SUBSET Slaves]
  /\ stop \in [Tasks -> {"none", "sent", "answered"}]
  /\ stopCalls \in [Tasks -> SUBSET Slaves]

SlaveTypeOK ==
  /\ call \in [Starts -> [Slaves -> {"none", "sent", "checked", "claimed", "accepted", "refused"}]]
  /\ up \subseteq Slaves
  /\ current \in [Slaves -> Tasks \cup {NoTask}]
  /\ slaveState \in [Slaves -> {"idle", "running", "error"}]
  /\ cancelFunc \in [Slaves -> Starts \cup {NoStart}]
  /\ run \in [Starts -> [Slaves -> RunStep]]
  /\ faults \in 0 .. MaxFaults

TypeOK == MasterTypeOK /\ SlaveTypeOK

Init ==
  /\ Queue!Init
  /\ assigned = [t \in Tasks |-> {}]
  /\ start = [r \in Starts |-> "none"]
  /\ target = [r \in Starts |-> NoTask]
  /\ chosen = [r \in Starts |-> {}]
  /\ call = [r \in Starts |-> [s \in Slaves |-> "none"]]
  /\ stop = [t \in Tasks |-> "none"]
  /\ stopCalls = [t \in Tasks |-> {}]
  /\ up = Slaves
  /\ current = [s \in Slaves |-> NoTask]
  /\ slaveState = [s \in Slaves |-> "idle"]
  /\ cancelFunc = [s \in Slaves |-> NoStart]
  /\ run = [r \in Starts |-> [s \in Slaves |-> "none"]]
  /\ faults = 0

\* An operation of the queue whose error the caller only logs.
Try(t, s) ==
  IF <<state[t], s>> \in Queue!Allowed THEN Queue!Move(t, s) ELSE UNCHANGED queueVars

Fault == faults < MaxFaults /\ faults' = faults + 1

Step(r, from, next) == start[r] = from /\ start' = [start EXCEPT ![r] = next]

Call(r, s, from, next) ==
  /\ call[r][s] \in from
  /\ call' = [call EXCEPT ![r][s] = next]

Run(r, s, from, next) ==
  /\ run[r][s] = from
  /\ run' = [run EXCEPT ![r][s] = next]
-----------------------------------------------------------------------------
(* The master: submitting and starting.                                    *)

\* handleTasks and handleTaskRetry submit a task; nothing starts it yet.
Submit(t) ==
  /\ Queue!Submit(t)
  /\ UNCHANGED <<startVars, stopVars, call, slaveVars, faults>>

\* StartTaskWithOptions checks the state and picks slaves; the goroutine that
\* it starts comes to change the state only later.
StartTask(r, t) ==
  /\ Step(r, "none", "chosen")
  /\ t \in known
  /\ state[t] = "pending"
  /\ target' = [target EXCEPT ![r] = t]
  /\ \E picked \in SUBSET Slaves \ {{}} : chosen' = [chosen EXCEPT ![r] = picked]
  /\ UNCHANGED <<queueVars, assigned, stopVars, call, slaveVars, faults>>

\* processTaskWithSlaves records the slaves of the task ...
Assign(r) ==
  /\ Step(r, "chosen", "assigned")
  /\ assigned' = [assigned EXCEPT ![target[r]] = chosen[r]]
  /\ UNCHANGED <<queueVars, target, chosen, stopVars, call, slaveVars, faults>>

\* Mutant: the subtasks are sent before the queue moves the task to running.
DispatchMutant(r) ==
  /\ Step(r, "assigned", "dispatching")
  /\ \E part \in SUBSET chosen[r] \ {{}} :
       call' = [call EXCEPT ![r] = [s \in Slaves |-> IF s \in part THEN "sent" ELSE "none"]]
  /\ UNCHANGED <<queueVars, target, chosen, assigned, stopVars, slaveVars, faults>>

\* ... moves it to running, ignoring an error, and sends out the subtasks.
\* The splitter gives work to some of the slaves, at least to one.
Dispatch(r) ==
  /\ Step(r, "assigned", "dispatching")
  /\ Try(target[r], "running")
  /\ \E part \in SUBSET chosen[r] \ {{}} :
       call' = [call EXCEPT ![r] = [s \in Slaves |-> IF s \in part THEN "sent" ELSE "none"]]
  /\ UNCHANGED <<target, chosen, assigned, stopVars, slaveVars, faults>>

AnyAccepted(r) == \E s \in Slaves : call[r][s] = "accepted"

\* Every call has ended; the task fails if no slave accepted.
Finish(r) ==
  /\ Step(r, "dispatching", "done")
  /\ \A s \in Slaves : call[r][s] \in {"none", "accepted", "refused"}
  /\ IF AnyAccepted(r) THEN UNCHANGED queueVars ELSE Try(target[r], "failed")
  /\ UNCHANGED <<target, chosen, assigned, stopVars, call, slaveVars, faults>>
-----------------------------------------------------------------------------
(* The slave: ExecuteTask.                                                 *)

Check(r, s) ==
  /\ s \in up
  /\ Call(r, s, {"sent"}, IF current[s] = NoTask THEN "checked" ELSE "refused")
  /\ UNCHANGED <<queueVars, startVars, stopVars, slaveVars, faults>>

Claim(r, s) ==
  /\ Call(r, s, {"checked"}, "claimed")
  /\ current' = [current EXCEPT ![s] = target[r]]
  /\ slaveState' = [slaveState EXCEPT ![s] = "running"]
  /\ UNCHANGED <<queueVars, startVars, stopVars, up, cancelFunc, run, faults>>

Launch(r, s) ==
  /\ Call(r, s, {"claimed"}, "accepted")
  /\ cancelFunc' = [cancelFunc EXCEPT ![s] = r]
  /\ Run(r, s, "none", "active")
  /\ UNCHANGED <<queueVars, startVars, stopVars, up, current, slaveState, faults>>

\* The call cannot reach a slave that is down.
Unreachable(r, s) ==
  /\ s \notin up
  /\ Call(r, s, {"sent"}, "refused")
  /\ UNCHANGED <<queueVars, startVars, stopVars, slaveVars, faults>>

\* The answer is late or lost: the slave runs what the master counts as refused.
LoseAnswer(r, s) ==
  /\ Fault
  /\ start[r] = "dispatching"
  /\ Call(r, s, {"accepted"}, "refused")
  /\ UNCHANGED <<queueVars, startVars, stopVars, slaveVars>>
-----------------------------------------------------------------------------
(* The slave: the goroutine of a run.                                      *)

\* RunTask returns, with an error or without; a cancelled run usually without.
End(r, s) ==
  /\ \E from \in {"active", "cancelled"}, result \in {"succeeded", "failed"} :
       Run(r, s, from, result)
  /\ UNCHANGED <<queueVars, startVars, stopVars, call, up, fieldVars, faults>>

\* Mutant: the master completes the task whatever the report says.
ReportMutant(r, s) ==
  /\ \/ Run(r, s, "succeeded", "reported") /\ Try(target[r], "completed")
     \/ Run(r, s, "failed", "reportedError") /\ Try(target[r], "completed")
  /\ UNCHANGED <<startVars, stopVars, call, up, fieldVars, faults>>

\* Mutant: a run that failed is not reported.
SilentReportMutant(r, s) ==
  /\ \/ Run(r, s, "succeeded", "reported") /\ Try(target[r], "completed")
     \/ Run(r, s, "failed", "reportedError") /\ UNCHANGED queueVars
  /\ UNCHANGED <<startVars, stopVars, call, up, fieldVars, faults>>

\* reportTaskCompletion: the master's handler ends the task for all its slaves.
Report(r, s) ==
  /\ \/ Run(r, s, "succeeded", "reported") /\ Try(target[r], "completed")
     \/ Run(r, s, "failed", "reportedError") /\ Try(target[r], "failed")
  /\ UNCHANGED <<startVars, stopVars, call, up, fieldVars, faults>>

\* The report is lost; the slave only logs it.
LoseReport(r, s) ==
  /\ Fault
  /\ Run(r, s, "succeeded", "reported") \/ Run(r, s, "failed", "reportedError")
  /\ UNCHANGED <<queueVars, startVars, stopVars, call, up, fieldVars>>

\* Mutant: the task ID is left for the next heartbeat to see.
ClearMutant(r, s) ==
  /\ \/ Run(r, s, "reported", "cleared")
     \/ Run(r, s, "reportedError", "clearedError")
  /\ UNCHANGED <<queueVars, startVars, stopVars, call, up, fieldVars, faults>>

\* The goroutine frees the slave, whichever task holds it by now ...
Clear(r, s) ==
  /\ \/ Run(r, s, "reported", "cleared")
     \/ Run(r, s, "reportedError", "clearedError")
  /\ current' = [current EXCEPT ![s] = NoTask]
  /\ UNCHANGED <<queueVars, startVars, stopVars, call, up, slaveState, cancelFunc, faults>>

\* ... and drops the cancel function, whichever run it belongs to.
Reset(r, s) ==
  /\ \/ Run(r, s, "cleared", "over")
     \/ Run(r, s, "clearedError", "returned")
  /\ slaveState' = [slaveState EXCEPT ![s] = "idle"]
  /\ cancelFunc' = [cancelFunc EXCEPT ![s] = NoStart]
  /\ UNCHANGED <<queueVars, startVars, stopVars, call, up, current, faults>>

\* Mutant: the slave goes to a state that none of its states is.
OnErrorMutant(r, s) ==
  /\ Run(r, s, "returned", "overError")
  /\ current' = [current EXCEPT ![s] = NoTask]
  /\ slaveState' = [slaveState EXCEPT ![s] = "failed"]
  /\ cancelFunc' = [cancelFunc EXCEPT ![s] = NoStart]
  /\ UNCHANGED <<queueVars, startVars, stopVars, call, up, faults>>

\* OnError: the error the goroutine returned leaves the slave in the error state.
OnError(r, s) ==
  /\ Run(r, s, "returned", "overError")
  /\ current' = [current EXCEPT ![s] = NoTask]
  /\ slaveState' = [slaveState EXCEPT ![s] = "error"]
  /\ cancelFunc' = [cancelFunc EXCEPT ![s] = NoStart]
  /\ UNCHANGED <<queueVars, startVars, stopVars, call, up, faults>>
-----------------------------------------------------------------------------
(* Stopping a task.                                                        *)

\* StopTask of the master takes the slaves assigned by now.
RequestStop(t) ==
  /\ stop[t] = "none"
  /\ t \in known
  /\ stop' = [stop EXCEPT ![t] = "sent"]
  /\ stopCalls' = [stopCalls EXCEPT ![t] = assigned[t]]
  /\ UNCHANGED <<queueVars, startVars, call, slaveVars, faults>>

\* The slave's fields after it stopped its current task.
Freed(s) ==
  /\ current' = [current EXCEPT ![s] = NoTask]
  /\ slaveState' = [slaveState EXCEPT ![s] = "idle"]
  /\ cancelFunc' = [cancelFunc EXCEPT ![s] = NoStart]

\* StopTask of a slave: cancels what its cancelFunc cancels, if t is current.
StopOnSlave(t, s) ==
  /\ s \in stopCalls[t]
  /\ stopCalls' = [stopCalls EXCEPT ![t] = @ \ {s}]
  /\ IF s \in up /\ current[s] = t
     THEN /\ Freed(s)
          /\ run' = [r \in Starts |->
                      IF r = cancelFunc[s] /\ run[r][s] = "active"
                      THEN [run[r] EXCEPT ![s] = "cancelled"] ELSE run[r]]
     ELSE UNCHANGED <<fieldVars, run>>
  /\ UNCHANGED <<queueVars, startVars, stop, call, up, faults>>

\* The slaves were told, with or without success: the queue cancels the task,
\* and the request is answered "Task stopped" even if it could not.
AnswerStop(t) ==
  /\ stop[t] = "sent"
  /\ stopCalls[t] = {}
  /\ stop' = [stop EXCEPT ![t] = "answered"]
  /\ Try(t, "stopped")
  /\ UNCHANGED <<startVars, stopCalls, call, slaveVars, faults>>
-----------------------------------------------------------------------------
(* Slaves crash; the master's cleaner.                                     *)

\* Everything a slave knows is in its process.  It does not come back: the
\* pool keeps its entry, so a new process is refused registration by that ID.
Crash(s) ==
  /\ Fault
  /\ s \in up
  /\ up' = up \ {s}
  /\ Freed(s)
  /\ run' = [r \in Starts |->
              [run[r] EXCEPT ![s] = CASE @ = "none" -> "none"
                                      [] @ \in Reported -> "over"
                                      [] @ \in ReportedError -> "overError"
                                      [] OTHER -> "lost"]]
  /\ call' = [r \in Starts |->
               IF call[r][s] \in {"checked", "claimed"}
               THEN [call[r] EXCEPT ![s] = "refused"] ELSE call[r]]
  /\ UNCHANGED <<queueVars, startVars, stopVars>>

Clean(old) ==
  /\ Queue!Forget(old)
  /\ UNCHANGED <<startVars, stopVars, call, slaveVars, faults>>
-----------------------------------------------------------------------------

Serve(r) == Assign(r) \/ Dispatch(r) \/ Finish(r)

Handle(r, s) == Check(r, s) \/ Claim(r, s) \/ Launch(r, s) \/ Unreachable(r, s)

AfterRun(r, s) == Report(r, s) \/ Clear(r, s) \/ Reset(r, s) \/ OnError(r, s)

Work(r, s) == End(r, s) \/ AfterRun(r, s)

Next ==
  \/ \E t \in Tasks : Submit(t) \/ RequestStop(t) \/ AnswerStop(t)
  \/ \E r \in Starts, t \in Tasks : StartTask(r, t)
  \/ \E r \in Starts : Serve(r)
  \/ \E r \in Starts, s \in Slaves :
       Handle(r, s) \/ Work(r, s) \/ LoseAnswer(r, s) \/ LoseReport(r, s)
  \/ \E t \in Tasks, s \in Slaves : StopOnSlave(t, s)
  \/ \E s \in Slaves : Crash(s)
  \/ \E old \in SUBSET Tasks : Clean(old)

Spec == Init /\ [][Next]_vars

\* Goroutines and handlers run on, and the calls between master and slaves have
\* timeouts.  That a run ends is not assumed: a request may wait for ever
\* (websocket.go:139 reads without a deadline, and the timeout of http.go:68-72
\* is not passed on to the request of http.go:85).
Fairness ==
  /\ \A r \in Starts : WF_vars(Serve(r))
  /\ \A r \in Starts, s \in Slaves : WF_vars(Handle(r, s)) /\ WF_vars(AfterRun(r, s))

FairSpec == Spec /\ Fairness
-----------------------------------------------------------------------------
(* Properties.                                                             *)

\* No slave runs a task that the master still counts as pending: a completion
\* report, however early, finds the task past "pending" and is not dropped.
NoEarlyRun ==
  \A r \in Starts, s \in Slaves :
    run[r][s] # "none" => state[target[r]] \notin {"none", "pending"}

\* The outcome the master shows was caused by the slaves: a completed task has
\* a slave that reported success, a failed task has one that reported an
\* error or a start that no slave accepted.
OutcomeHasCause ==
  \A t \in Tasks :
    LET of == {r \in Starts : target[r] = t}
    IN  /\ state[t] = "completed" => \E r \in of, s \in Slaves : run[r][s] \in Reported
        /\ state[t] = "failed" =>
             \E r \in of : \/ start[r] = "done" /\ ~AnyAccepted(r)
                           \/ \E s \in Slaves : run[r][s] \in ReportedError

\* A slave that refuses tasks because it is busy has a handler or a goroutine
\* that will free it, whatever stops, completions and starts overlapped.
NoWedge ==
  \A s \in Slaves : current[s] # NoTask =>
    \E r \in Starts : /\ target[r] = current[s]
                      /\ call[r][s] = "claimed" \/ run[r][s] \in Busy

\* The task is being run, and none of its runs has come to an end.
NoRunOfItEnded(t) ==
  LET executing == {"active", "cancelled"}
      of == {r \in Starts : target[r] = t}
  IN  /\ \E r \in of, s \in Slaves : run[r][s] \in executing
      /\ \A r \in of, s \in Slaves : run[r][s] \in executing \cup {"none"}

\* A task stays running for ever only if a report or an answer was lost, a slave
\* crashed, or each of the runs that slaves began of it never ends by itself: one
\* run that ends, on whichever slave and of whichever start, ends the task.
RunningEnds ==
  \A t \in Tasks :
    <>[](state[t] = "running") => <>(faults > 0) \/ <>[]NoRunOfItEnded(t)

\* http_server.go answers "Task stopped" after telling all slaves: from then
\* on no slave begins to run the task.
StopIsEffective ==
  [][\A r \in Starts, s \in Slaves :
       run[r][s] = "none" /\ run'[r][s] = "active" => stop[target[r]] # "answered"]_vars

\* master.go gives "all subtasks failed" as the reason for failing a task: no
\* slave is executing any of them when it fails with that reason.
FailedMeansNoneRuns ==
  [][\A r \in Starts :
       start[r] = "dispatching" /\ start'[r] = "done" /\ state'[target[r]] # state[target[r]] =>
         \A q \in Starts, s \in Slaves :
           target[q] = target[r] => run[q][s] # "active"]_vars
=============================================================================
