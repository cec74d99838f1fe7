----------------------------- MODULE SlavePool ------------------------------
(***************************************************************************)
(* What the master knows of its slaves: the pool (distributed/master/      *)
(* pool.go), the health checker (health.go), the handlers of registration  *)
(* and heartbeats (service.go), and the slave's side of both               *)
(* (distributed/slave/slave.go: Start, Stop, the heartbeat loop).          *)
(*                                                                         *)
(* Time is counted in rounds of the health checker: the age of an entry is *)
(* the number of rounds since its LastHeartbeat, and it is late when more  *)
(* rounds passed than fit in the heartbeat timeout.  A heartbeat that is   *)
(* delayed or lost is one that rounds overtake.                            *)
(*                                                                         *)
(* An entry is a shared record: the checker works on the records that were *)
(* in the pool when its round began, but marks what is in the pool by now  *)
(* under their IDs.  Update of the toolbox's map is taken to be atomic.    *)
(***************************************************************************)
EXTENDS Integers

CONSTANTS
  Slaves,      \* slave IDs
  Timeout,     \* HeartbeatTimeout / HeartbeatInterval, 3 by default
  MaxFailures, \* of NewMaster's configuration, 3 by default
  MaxRestarts  \* how many restarts of the master to explore

ASSUME SlavePoolAssumption ==
  /\ Timeout \in Nat \ {0}
  /\ MaxFailures \in Nat \ {0}
  /\ MaxRestarts \in Nat

VARIABLES
  entry,        \* the State of each slave's entry in the pool, "none" without one
  age,          \* rounds since the entry's LastHeartbeat, up to Timeout + 1
  failureCount, \* the checker's count, up to MaxFailures
  check,        \* the current round's check of each slave
  process,      \* each slave's process
  slaveState,   \* its info.State
  call,         \* its heartbeat or registration that is under way
  status,       \* the state that heartbeat carries
  offer,        \* a task the master sends to the slave
  restarts

masterVars == <<entry, age, failureCount, check>>
slaveVars  == <<process, slaveState>>
callVars   == <<call, status>>
vars == <<masterVars, slaveVars, callVars, offer, restarts>>

Reported == {"idle", "running", "error"}

TypeOK ==
  /\ entry \in [Slaves -> Reported \cup {"busy", "none"}]
  /\ age \in [Slaves -> 0 .. Timeout + 1]
  /\ failureCount \in [Slaves -> 0 .. MaxFailures]
  /\ check \in [Slaves -> {"none", "due", "late", "fresh"}]
  /\ process \in [Slaves -> {"down", "starting", "up", "stopping"}]
  /\ slaveState \in [Slaves -> Reported]
  /\ call \in [Slaves -> {"none", "beat", "beaten", "register", "absent"}]
  /\ status \in [Slaves -> Reported]
  /\ offer \in [Slaves -> {"none", "sent", "accepted"}]
  /\ restarts \in 0 .. MaxRestarts

Init ==
  /\ entry = [s \in Slaves |-> "none"]
  /\ age = [s \in Slaves |-> 0]
  /\ failureCount = [s \in Slaves |-> 0]
  /\ check = [s \in Slaves |-> "none"]
  /\ process = [s \in Slaves |-> "down"]
  /\ slaveState = [s \in Slaves |-> "idle"]
  /\ call = [s \in Slaves |-> "none"]
  /\ status = [s \in Slaves |-> "idle"]
  /\ offer = [s \in Slaves |-> "none"]
  /\ restarts = 0

Registered(s) == entry[s] # "none"

SetEntry(s, state) == entry' = [entry EXCEPT ![s] = state]

\* UpdateSlaveState and the like: an ID without an entry is an error that the
\* callers ignore.
UpdateEntry(s, state) ==
  IF Registered(s) THEN SetEntry(s, state) ELSE UNCHANGED entry

Call(s, from, next) == call[s] = from /\ call' = [call EXCEPT ![s] = next]

Process(s, from, next) == process[s] \in from /\ process' = [process EXCEPT ![s] = next]

Late(s) == age[s] > Timeout

\* The record of s leaves the pool: a check of the round still sees it.
Detach(s) ==
  check' = [check EXCEPT ![s] = IF @ # "due" THEN @ ELSE IF Late(s) THEN "late" ELSE "fresh"]
-----------------------------------------------------------------------------
(* Registration.                                                           *)

\* A slave's process starts and registers; no call of an older one is left.
Start(s) ==
  /\ call[s] = "none"
  /\ Process(s, {"down"}, "starting")
  /\ slaveState' = [slaveState EXCEPT ![s] = "idle"]
  /\ call' = [call EXCEPT ![s] = "register"]
  /\ UNCHANGED <<masterVars, status, offer, restarts>>

\* Register refuses an ID that has an entry; a Start that is refused fails.
Refuse(s) ==
  /\ Registered(s)
  /\ Call(s, "register", "none")
  /\ process' = [process EXCEPT ![s] = IF @ = "starting" THEN "down" ELSE @]
  /\ UNCHANGED <<masterVars, slaveState, status, offer, restarts>>

\* It looks the ID up ...
Admit(s) ==
  /\ ~Registered(s)
  /\ Call(s, "register", "absent")
  /\ UNCHANGED <<masterVars, slaveVars, status, offer, restarts>>

\* Mutant: the entry is stored without a state.
StoreMutant(s) ==
  /\ Call(s, "absent", "none")
  /\ SetEntry(s, "")
  /\ age' = [age EXCEPT ![s] = 0]
  /\ Detach(s)
  /\ process' = [process EXCEPT ![s] = IF @ = "starting" THEN "up" ELSE @]
  /\ UNCHANGED <<failureCount, slaveState, status, offer, restarts>>

\* ... and stores an idle entry, whatever is there by now.
Store(s) ==
  /\ Call(s, "absent", "none")
  /\ SetEntry(s, "idle")
  /\ age' = [age EXCEPT ![s] = 0]
  /\ Detach(s)
  /\ process' = [process EXCEPT ![s] = IF @ = "starting" THEN "up" ELSE @]
  /\ UNCHANGED <<failureCount, slaveState, status, offer, restarts>>

\* Stop unregisters first; the heartbeat loop is never stopped ...
Unregister(s) ==
  /\ Process(s, {"up"}, "stopping")
  /\ SetEntry(s, "none")
  /\ Detach(s)
  /\ UNCHANGED <<age, failureCount, slaveState, callVars, offer, restarts>>

\* A call that has not reached the master when its process or the master
\* ends may be lost.
MayLose(s) ==
  call' \in {call} \cup
    {[call EXCEPT ![s] = "none"] : c \in {call[s]} \cap {"beat", "register"}}

\* ... until the connection closes and the process ends.  A process may also
\* crash at any time.
Exit(s) ==
  /\ Process(s, {"starting", "up", "stopping"}, "down")
  /\ MayLose(s)
  /\ UNCHANGED <<masterVars, slaveState, status, offer, restarts>>
-----------------------------------------------------------------------------
(* Heartbeats.                                                             *)

\* One loop per slave: the next heartbeat is sent after the last call ended.
Beat(s) ==
  /\ process[s] \in {"up", "stopping"}
  /\ Call(s, "none", "beat")
  /\ status' = [status EXCEPT ![s] = slaveState[s]]
  /\ UNCHANGED <<masterVars, slaveVars, offer, restarts>>

UpdateHeartbeat(s) ==
  /\ Registered(s)
  /\ Call(s, "beat", "beaten")
  /\ age' = [age EXCEPT ![s] = 0]
  /\ UNCHANGED <<entry, failureCount, check, slaveVars, status, offer, restarts>>

UpdateState(s) ==
  /\ Call(s, "beaten", "none")
  /\ UpdateEntry(s, status[s])
  /\ UNCHANGED <<age, failureCount, check, slaveVars, status, offer, restarts>>

\* Mutant: a slave the master does not know is only logged.
RejectMutant(s) ==
  /\ ~Registered(s)
  /\ Call(s, "beat", "none")
  /\ UNCHANGED <<masterVars, slaveVars, status, offer, restarts>>

\* The master does not know the slave: the loop registers again.
Reject(s) ==
  /\ ~Registered(s)
  /\ Call(s, "beat", IF process[s] = "down" THEN "none" ELSE "register")
  /\ UNCHANGED <<masterVars, slaveVars, status, offer, restarts>>
-----------------------------------------------------------------------------
(* The health checker.                                                     *)

\* checkAll takes the entries of now; another interval has passed.
Round ==
  /\ \A s \in Slaves : check[s] = "none"
  /\ \E s \in Slaves : Registered(s)
  /\ check' = [s \in Slaves |-> IF Registered(s) THEN "due" ELSE "none"]
  /\ age' = [s \in Slaves |-> IF Registered(s) /\ ~Late(s) THEN age[s] + 1 ELSE age[s]]
  /\ UNCHANGED <<entry, failureCount, slaveVars, callVars, offer, restarts>>

CheckSlave(s) ==
  /\ check[s] = "due"
  /\ check' = [check EXCEPT ![s] = IF Late(s) THEN "late" ELSE "fresh"]
  /\ UNCHANGED <<entry, age, failureCount, slaveVars, callVars, offer, restarts>>

CountFailure(s) ==
  failureCount' = [failureCount EXCEPT ![s] = IF @ < MaxFailures THEN @ + 1 ELSE @]

\* Mutant: a slave is marked only when the count reaches the limit, once.
HandleFailureMutant(s) ==
  /\ check[s] = "late"
  /\ check' = [check EXCEPT ![s] = "none"]
  /\ CountFailure(s)
  /\ IF failureCount[s] = MaxFailures - 1 THEN UpdateEntry(s, "error") ELSE UNCHANGED entry
  /\ UNCHANGED <<age, slaveVars, callVars, offer, restarts>>

HandleFailure(s) ==
  /\ check[s] = "late"
  /\ check' = [check EXCEPT ![s] = "none"]
  /\ CountFailure(s)
  /\ IF failureCount'[s] >= MaxFailures THEN UpdateEntry(s, "error") ELSE UNCHANGED entry
  /\ UNCHANGED <<age, slaveVars, callVars, offer, restarts>>

\* Mutant: the count is reset, but the entry stays unhealthy.
HandleSuccessMutant(s) ==
  /\ check[s] = "fresh"
  /\ check' = [check EXCEPT ![s] = "none"]
  /\ failureCount' = [failureCount EXCEPT ![s] = 0]
  /\ UNCHANGED <<entry, age, slaveVars, callVars, offer, restarts>>

\* MarkHealthy revives an unhealthy entry, if there were failures before.
HandleSuccess(s) ==
  /\ check[s] = "fresh"
  /\ check' = [check EXCEPT ![s] = "none"]
  /\ failureCount' = [failureCount EXCEPT ![s] = 0]
  /\ IF failureCount[s] > 0 /\ entry[s] = "error"
     THEN UpdateEntry(s, "idle") ELSE UNCHANGED entry
  /\ UNCHANGED <<age, slaveVars, callVars, offer, restarts>>
-----------------------------------------------------------------------------
(* Tasks, as far as the pool's view of a slave depends on them.            *)

\* GetHealthy offers the slaves that are neither offline nor in error.
Select(s) ==
  /\ offer[s] = "none"
  /\ entry[s] \notin {"none", "error"}
  /\ offer' = [offer EXCEPT ![s] = "sent"]
  /\ UNCHANGED <<masterVars, slaveVars, callVars, restarts>>

\* The slave refuses if it is busy or gone; a stopping one serves until Exit.
ExecuteTask(s) ==
  /\ offer[s] = "sent"
  /\ IF process[s] \in {"up", "stopping"} /\ slaveState[s] # "running"
     THEN /\ slaveState' = [slaveState EXCEPT ![s] = "running"]
          /\ offer' = [offer EXCEPT ![s] = "accepted"]
     ELSE /\ offer' = [offer EXCEPT ![s] = "none"]
          /\ UNCHANGED slaveState
  /\ UNCHANGED <<masterVars, process, callVars, restarts>>

\* The answer arrives: the entry is busy until a heartbeat says otherwise.
AddTask(s) ==
  /\ offer[s] = "accepted"
  /\ offer' = [offer EXCEPT ![s] = "none"]
  /\ UpdateEntry(s, "busy")
  /\ UNCHANGED <<age, failureCount, check, slaveVars, callVars, restarts>>

\* The run ends, idle at first, and then in error if it failed, which no one
\* clears but the next run; heartbeats between the two writes are passed over.
EndRun(s) ==
  /\ process[s] # "down" /\ slaveState[s] = "running"
  /\ \E state \in {"idle", "error"} : slaveState' = [slaveState EXCEPT ![s] = state]
  /\ UNCHANGED <<masterVars, process, callVars, offer, restarts>>
-----------------------------------------------------------------------------

\* The master restarts: it keeps nothing, and calls under way fail.
MasterRestart ==
  /\ restarts < MaxRestarts
  /\ restarts' = restarts + 1
  /\ entry' = [s \in Slaves |-> "none"]
  /\ age' = [s \in Slaves |-> 0]
  /\ failureCount' = [s \in Slaves |-> 0]
  /\ check' = [s \in Slaves |-> "none"]
  /\ call' = [s \in Slaves |-> "none"]
  /\ offer' = [s \in Slaves |-> "none"]
  /\ process' = [s \in Slaves |-> IF process[s] = "starting" THEN "down" ELSE process[s]]
  /\ UNCHANGED <<slaveState, status>>

Handle(s) == Refuse(s) \/ Admit(s) \/ Store(s) \/ UpdateHeartbeat(s) \/ UpdateState(s) \/ Reject(s)

Examine(s) == CheckSlave(s) \/ HandleFailure(s) \/ HandleSuccess(s)

Dispatch(s) == ExecuteTask(s) \/ AddTask(s)

Next ==
  \/ \E s \in Slaves : \/ Start(s) \/ Unregister(s) \/ Exit(s)
                       \/ Beat(s) \/ Handle(s) \/ Examine(s)
                       \/ Select(s) \/ Dispatch(s) \/ EndRun(s)
  \/ Round \/ MasterRestart

\* The tickers of the checker and of the heartbeats go on, calls have
\* timeouts and handlers do not block.
Fairness ==
  /\ WF_vars(Round)
  /\ \A s \in Slaves : /\ WF_vars(Beat(s)) /\ WF_vars(Handle(s))
                       /\ WF_vars(Examine(s)) /\ WF_vars(Dispatch(s))

Spec == Init /\ [][Next]_vars /\ Fairness
-----------------------------------------------------------------------------
(* Properties.                                                             *)

\* An entry is in error, so that its slave gets no more tasks, for one of two
\* reasons only: enough rounds found it late, or the last heartbeat that was
\* handled said so.  A slave that is well and beats is not shut out.
ErrorHasCause ==
  \A s \in Slaves :
    entry[s] = "error" /\ process[s] = "up" /\ call[s] \notin {"beat", "beaten"} =>
      failureCount[s] = MaxFailures \/ status[s] = "error"

\* A slave that is gone for good, by a crash or a Stop that its own heartbeats
\* raced, is in the end never selected: late handlers and answers may revive
\* its entry, but not for ever.
DeadIsDropped ==
  \A s \in Slaves : <>[](process[s] = "down") => <>[](entry[s] \in {"none", "error"})

\* A slave that is up becomes known with the state it is in, over and over:
\* also after a restart of the master, which forgot it, and after rounds of
\* the checker that found it late.
PoolLearns ==
  \A s \in Slaves, state \in Reported :
    <>[](process[s] = "up" /\ slaveState[s] = state) => []<>(entry[s] = state)
=============================================================================
