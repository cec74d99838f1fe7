---------------------------- MODULE Distribution ----------------------------
(***************************************************************************)
(* How the load of one task is shared out: the master builds the task from *)
(* the configuration (http_server.go:buildTask), picks slaves and splits   *)
(* the workers among them (Selection), and sends each slave its part       *)
(* (master.go:dispatchSubTask, slave/service.go); each slave runs what it  *)
(* was sent (slave.go:ExecuteTask).  Faults and stops are the subject of   *)
(* Dispatch.tla.                                                           *)
(***************************************************************************)
EXTENDS Selection

CONSTANTS
  Pool,             \* the slaves of the pool, a list without repeated IDs
  WorkersPerSlave,  \* of NewMaster's configuration, 100 by default, and positive
  MinSlaveCount     \* 1 by default, and positive

IDs == {Pool[i].id : i \in DOMAIN Pool}
MaxWorkers == 4 \* bound on the concurrency to explore

VARIABLES
  config,    \* of the task: concurrency
  subTasks,  \* what processTaskWithSlaves made of it: [slave, workers, config]
  calls,     \* slaves whose part is under way
  running    \* per slave: the workers of its scheduler

vars == <<config, subTasks, calls, running>>

Init ==
  /\ config \in [concurrency : 1 .. MaxWorkers]
  /\ subTasks = << >>
  /\ calls = {}
  /\ running = [s \in IDs |-> 0]

\* The task's TotalWorkers is the configured concurrency, and every part carries the whole
\* configuration along with its WorkerCount.
Distribute(slaves) ==
  /\ subTasks = << >> /\ slaves # << >>
  /\ LET parts == EqualSplit(slaves, config.concurrency)
     IN /\ subTasks' = [i \in DOMAIN parts |-> [config |-> config] @@ parts[i]]
        /\ calls' = {parts[i].slave : i \in DOMAIN parts}
  /\ UNCHANGED <<config, running>>

StartTask ==
  \/ \E slaves \in DefaultStart(Pool, config.concurrency, WorkersPerSlave, MinSlaveCount) : Distribute(slaves)
  \/ \E ids \in SUBSET IDs, region \in {NoRegion} \cup {Pool[i].region : i \in DOMAIN Pool} :
       (ids # {} \/ region # NoRegion) /\ Distribute(filterSlaves(Pool, ids, region))

\* The slave unmarshals the configuration and runs it as it is: the scheduler starts as many
\* workers as it says.  The part's WorkerCount is logged.
ExecuteTask(i) ==
  /\ subTasks[i].slave \in calls
  /\ calls' = calls \ {subTasks[i].slave}
  /\ running' = [running EXCEPT ![subTasks[i].slave] = subTasks[i].config.concurrency]
  /\ UNCHANGED <<config, subTasks>>

Next == StartTask \/ \E i \in DOMAIN subTasks : ExecuteTask(i)
Spec == Init /\ [][Next]_vars

-----------------------------------------------------------------------------
\* What docs/DISTRIBUTED_MODE.md says of the equal distribution: of a concurrency of 1000,
\* each of four slaves runs 250.
EachRunsItsPart ==
  \A i \in DOMAIN subTasks : running[subTasks[i].slave] \in {0, subTasks[i].workers}
=============================================================================
