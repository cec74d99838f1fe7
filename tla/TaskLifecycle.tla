--------------------------- MODULE TaskLifecycle ---------------------------
(***************************************************************************)
(* What the master's task queue promises its callers, with every operation *)
(* one indivisible step: a task is submitted once, moves only along the    *)
(* transitions that its state machine allows, and is forgotten only after  *)
(* it completed or failed.  TaskQueue.tla is the detailed specification    *)
(* that implements this one; Dispatch.tla is built on it.                  *)
(***************************************************************************)
CONSTANT Tasks

VARIABLES
  state,    \* the state each task's state machine is in, "none" before Submit
  known     \* the tasks the master's index answers for

lifecycleVars == <<state, known>>

TaskState == {"pending", "running", "completed", "failed", "stopped"}

\* The transitions a task's state machine is configured with.
Allowed == { <<"pending", "running">>,   <<"pending", "stopped">>,
             <<"running", "completed">>, <<"running", "failed">>,
             <<"running", "stopped">> }

Terminal == {"completed", "failed", "stopped"}

Init ==
  /\ state = [t \in Tasks |-> "none"]
  /\ known = {}

\* A new task enters the queue: task IDs are generated and never reused.
Submit(t) ==
  /\ state[t] = "none"
  /\ state' = [state EXCEPT ![t] = "pending"]
  /\ known' = known \cup {t}

\* One transition of the task's state machine.
Move(t, to) ==
  /\ <<state[t], to>> \in Allowed
  /\ state' = [state EXCEPT ![t] = to]
  /\ UNCHANGED known

\* The cleaner drops finished tasks.  A stopped task is never dropped.
Forget(old) ==
  /\ old # {}
  /\ old \subseteq known
  /\ \A t \in old : state[t] \in {"completed", "failed"}
  /\ known' = known \ old
  /\ UNCHANGED state

Next ==
  \/ \E t \in Tasks : Submit(t) \/ \E to \in TaskState : Move(t, to)
  \/ \E old \in SUBSET Tasks : Forget(old)

Spec == Init /\ [][Next]_lifecycleVars
=============================================================================
