--------------------------- MODULE DispatchProofs ---------------------------
(***************************************************************************)
(* Proofs about Dispatch, for any sets of tasks, requests and slaves and   *)
(* any number of faults: what the master shows of a task and what a slave  *)
(* holds agree with the runs there are.                                    *)
(*                                                                         *)
(* None of the three properties is inductive.  IInv adds what a start that *)
(* has come to each of its steps may rely on (StartInv).                   *)
(***************************************************************************)
EXTENDS Dispatch, TLAPS

\* Before the subtasks are sent nobody works for the start, and from then on its task is no
\* longer pending; a start that is done has no call under way.
StartOf(r) ==
  /\ start[r] # "none" => target[r] \in Tasks /\ state[target[r]] # "none"
  /\ start[r] \in {"none", "chosen", "assigned"} =>
       \A s \in Slaves : call[r][s] = "none" /\ run[r][s] = "none"
  /\ start[r] \in {"dispatching", "done"} => state[target[r]] # "pending"
  /\ start[r] = "done" => \A s \in Slaves : call[r][s] \in {"none", "accepted", "refused"}

StartInv == \A r \in Starts : StartOf(r)

IInv == TypeOK /\ StartInv /\ OutcomeHasCause /\ NoWedge

\* Abbreviations, expanded everywhere.
USE DEF queueVars, startVars, stopVars, fieldVars, slaveVars

-----------------------------------------------------------------------------
(* The queue and the runs.                                                 *)

\* An operation of the queue changes its own task, along an allowed transition or not at all.
LEMMA TryEffect ==
  ASSUME MasterTypeOK, NEW t \in Tasks, NEW to \in {"running", "completed", "failed", "stopped"},
         Try(t, to)
  PROVE  /\ state' \in [Tasks -> Queue!TaskState \cup {"none"}]
         /\ known' = known
         /\ \A u \in Tasks : state'[u] = state[u] \/ (u = t /\ state'[u] = to)
         /\ \A u \in Tasks : state[u] \in {"none", "completed", "failed", "stopped"} =>
              state'[u] = state[u]
         /\ to = "running" => state'[t] # "pending"
BY DEF MasterTypeOK, Try, Queue!Move, Queue!Allowed, Queue!TaskState

\* A start that someone works for has a task.
LEMMA HasTask ==
  ASSUME TypeOK, StartInv, NEW r \in Starts, NEW s \in Slaves,
         run[r][s] # "none" \/ call[r][s] # "none"
  PROVE  start[r] \in {"dispatching", "done"} /\ target[r] \in Tasks
BY DEF TypeOK, MasterTypeOK, StartInv, StartOf

\* What a run has reported stays reported.
LEMMA ReportsStay ==
  ASSUME SlaveTypeOK, [Next]_vars, NEW q \in Starts, NEW s \in Slaves
  PROVE  /\ run[q][s] \in Reported => run'[q][s] \in Reported
         /\ run[q][s] \in ReportedError => run'[q][s] \in ReportedError
<1> DEFINE Stays == /\ run[q][s] \in Reported => run'[q][s] \in Reported
                    /\ run[q][s] \in ReportedError => run'[q][s] \in ReportedError
<1> USE DEF SlaveTypeOK, Reported, ReportedError, Run
<1>1. CASE run' = run
  BY <1>1
<1>2. ASSUME NEW r \in Starts, NEW x \in Slaves, Launch(r, x) PROVE Stays
  BY <1>2 DEF Launch
<1>3. ASSUME NEW r \in Starts, NEW x \in Slaves, Work(r, x) \/ LoseReport(r, x) PROVE Stays
  BY <1>3 DEF Work, AfterRun, End, Report, Clear, Reset, OnError, LoseReport
<1>4. ASSUME NEW t \in Tasks, NEW x \in Slaves, StopOnSlave(t, x) PROVE Stays
  BY <1>4 DEF StopOnSlave
<1>5. ASSUME NEW x \in Slaves, Crash(x) PROVE Stays
  BY <1>5 DEF Crash
<1>6. QED
  BY <1>1, <1>2, <1>3, <1>4, <1>5
     DEF Next, Serve, Handle, Submit, RequestStop, AnswerStop, StartTask, Assign, Dispatch, Finish,
         Check, Claim, Unreachable, LoseAnswer, Clean, vars

\* Only four steps change what the master shows of a task.
LEMMA StateSteps ==
  ASSUME [Next]_vars
  PROVE  \/ UNCHANGED state
         \/ \E t \in Tasks : Submit(t) \/ AnswerStop(t)
         \/ \E r \in Starts : Dispatch(r) \/ Finish(r)
         \/ \E r \in Starts, s \in Slaves : Report(r, s)
BY DEF Next, Serve, Handle, Work, AfterRun, RequestStop, StartTask, Assign, Check, Claim, Launch,
       Unreachable, LoseAnswer, LoseReport, End, Clear, Reset, OnError, StopOnSlave, Crash,
       Clean, Queue!Forget, vars

-----------------------------------------------------------------------------
(* Types.                                                                  *)

LEMMA MasterTypes == TypeOK /\ StartInv /\ [Next]_vars => MasterTypeOK'
<1> SUFFICES ASSUME TypeOK, StartInv, [Next]_vars PROVE MasterTypeOK'
  OBVIOUS
<1>0. MasterTypeOK
  BY DEF TypeOK
<1> USE DEF MasterTypeOK
<1>1. ASSUME NEW t \in Tasks, Submit(t) PROVE MasterTypeOK'
  BY <1>0, <1>1 DEF Submit, Queue!Submit, Queue!TaskState
<1>2. ASSUME NEW r \in Starts, NEW t \in Tasks, StartTask(r, t) PROVE MasterTypeOK'
  BY <1>0, <1>2 DEF StartTask, Step
<1>3. ASSUME NEW r \in Starts, Assign(r) PROVE MasterTypeOK'
  BY <1>0, <1>3 DEF Assign, Step
<1>4. ASSUME NEW r \in Starts, Dispatch(r) \/ Finish(r) PROVE MasterTypeOK'
  <2>1. target[r] \in Tasks
    BY <1>4 DEF Dispatch, Finish, Step, StartInv, StartOf
  <2>2. UNCHANGED <<state, known>> \/ \E to \in {"running", "failed"} : Try(target[r], to)
    BY <1>4 DEF Dispatch, Finish
  <2>3. state' \in [Tasks -> Queue!TaskState \cup {"none"}] /\ known' = known
    BY <1>0, <2>1, <2>2, TryEffect
  <2>4. start' \in [Starts -> {"none", "chosen", "assigned", "dispatching", "done"}]
    BY <1>0, <1>4 DEF Dispatch, Finish, Step
  <2>5. QED BY <1>0, <1>4, <2>3, <2>4 DEF Dispatch, Finish
<1>5. ASSUME NEW r \in Starts, NEW s \in Slaves, Report(r, s) PROVE MasterTypeOK'
  <2>1. target[r] \in Tasks
    BY <1>5, HasTask DEF Report, Run
  <2>2. \E to \in {"completed", "failed"} : Try(target[r], to)
    BY <1>5 DEF Report
  <2>3. state' \in [Tasks -> Queue!TaskState \cup {"none"}] /\ known' = known
    BY <1>0, <2>1, <2>2, TryEffect
  <2>4. QED BY <1>0, <1>5, <2>3 DEF Report
<1>6. ASSUME NEW t \in Tasks, RequestStop(t) PROVE MasterTypeOK'
  BY <1>0, <1>6 DEF RequestStop
<1>7. ASSUME NEW t \in Tasks, NEW s \in Slaves, StopOnSlave(t, s) PROVE MasterTypeOK'
  BY <1>0, <1>7 DEF StopOnSlave
<1>8. ASSUME NEW t \in Tasks, AnswerStop(t) PROVE MasterTypeOK'
  <2>1. state' \in [Tasks -> Queue!TaskState \cup {"none"}] /\ known' = known
    BY <1>0, <1>8, TryEffect DEF AnswerStop
  <2>2. QED BY <1>0, <1>8, <2>1 DEF AnswerStop
<1>9. ASSUME NEW old \in SUBSET Tasks, Clean(old) PROVE MasterTypeOK'
  BY <1>0, <1>9 DEF Clean, Queue!Forget
<1>10. CASE UNCHANGED <<queueVars, startVars, stopVars>>
  BY <1>0, <1>10
<1>11. QED
  BY <1>1, <1>2, <1>3, <1>4, <1>5, <1>6, <1>7, <1>8, <1>9, <1>10
     DEF Next, Serve, Handle, Work, AfterRun, Check, Claim, Launch, Unreachable, LoseAnswer, LoseReport,
         End, Clear, Reset, OnError, Crash, vars

LEMMA SlaveTypes == TypeOK /\ [Next]_vars => SlaveTypeOK'
<1> SUFFICES ASSUME TypeOK, [Next]_vars PROVE SlaveTypeOK'
  OBVIOUS
<1>0. SlaveTypeOK /\ target \in [Starts -> Tasks \cup {NoTask}]
  BY DEF TypeOK, MasterTypeOK
<1> DEFINE CallType == [Starts -> [Slaves -> {"none", "sent", "checked", "claimed", "accepted", "refused"}]]
           RunType == [Starts -> [Slaves -> RunStep]]
           Fields == /\ current' \in [Slaves -> Tasks \cup {NoTask}]
                     /\ slaveState' \in [Slaves -> {"idle", "running", "error"}]
                     /\ cancelFunc' \in [Slaves -> Starts \cup {NoStart}]
           UpFaults == up' \subseteq Slaves /\ faults' \in 0 .. MaxFaults
<1> USE DispatchAssumption DEF SlaveTypeOK, RunStep, Busy, Reported, ReportedError
<1>1. call' \in CallType
  <2>1. ASSUME NEW r \in Starts, NEW s \in Slaves, NEW next \in {"checked", "claimed", "accepted", "refused"},
               call' = [call EXCEPT ![r][s] = next]
        PROVE  call' \in CallType
    BY <1>0, <2>1
  <2>2. ASSUME NEW r \in Starts, Dispatch(r) PROVE call' \in CallType
    BY <1>0, <2>2 DEF Dispatch
  <2>3. ASSUME NEW s \in Slaves, Crash(s) PROVE call' \in CallType
    BY <1>0, <2>3 DEF Crash
  <2>4. CASE call' = call
    BY <1>0, <2>4
  <2>5. QED
    BY <2>1, <2>2, <2>3, <2>4
       DEF Next, Serve, Handle, Work, AfterRun, Submit, RequestStop, AnswerStop, StartTask, Assign, Finish,
           Check, Claim, Launch, Unreachable, LoseAnswer, LoseReport, End, Report, Clear, Reset,
           OnError, StopOnSlave, Clean, Call, vars
<1>2. run' \in RunType
  <2>1. ASSUME NEW r \in Starts, NEW s \in Slaves, NEW next \in RunStep,
               run' = [run EXCEPT ![r][s] = next]
        PROVE  run' \in RunType
    BY <1>0, <2>1
  <2>2. ASSUME NEW t \in Tasks, NEW s \in Slaves, StopOnSlave(t, s) PROVE run' \in RunType
    <3>1. CASE UNCHANGED run
      BY <1>0, <3>1
    <3>2. CASE run' = [r \in Starts |->
                        IF r = cancelFunc[s] /\ run[r][s] = "active"
                        THEN [run[r] EXCEPT ![s] = "cancelled"] ELSE run[r]]
      <4>1. \A r \in Starts : [run[r] EXCEPT ![s] = "cancelled"] \in [Slaves -> RunStep]
        BY <1>0
      <4>2. QED BY <1>0, <3>2, <4>1
    <3>3. QED BY <2>2, <3>1, <3>2 DEF StopOnSlave
  <2>3. ASSUME NEW s \in Slaves, Crash(s) PROVE run' \in RunType
    BY <1>0, <2>3 DEF Crash
  <2>4. CASE run' = run
    BY <1>0, <2>4
  <2>5. QED
    BY <2>1, <2>2, <2>3, <2>4
       DEF Next, Serve, Handle, Work, AfterRun, Submit, RequestStop, AnswerStop, StartTask, Assign, Dispatch,
           Finish, Check, Claim, Launch, Unreachable, LoseAnswer, LoseReport, End, Report, Clear,
           Reset, OnError, Clean, Run, vars
<1>3. Fields
  <2>1. ASSUME NEW s \in Slaves, Freed(s) PROVE Fields
    BY <1>0, <2>1 DEF Freed
  <2>2. ASSUME NEW r \in Starts, NEW s \in Slaves, Claim(r, s) \/ Launch(r, s) PROVE Fields
    BY <1>0, <2>2 DEF Claim, Launch
  <2>3. ASSUME NEW r \in Starts, NEW s \in Slaves, Clear(r, s) \/ Reset(r, s) \/ OnError(r, s) PROVE Fields
    BY <1>0, <2>3 DEF Clear, Reset, OnError
  <2>4. CASE UNCHANGED fieldVars
    BY <1>0, <2>4
  <2>5. QED
    BY <2>1, <2>2, <2>3, <2>4
       DEF Next, Serve, Handle, Work, AfterRun, Submit, RequestStop, AnswerStop, StartTask, Assign, Dispatch,
           Finish, Check, Unreachable, LoseAnswer, LoseReport, End, Report, StopOnSlave, Crash,
           Clean, vars
<1>4. UpFaults
  <2>1. CASE UNCHANGED <<up, faults>>
    BY <1>0, <2>1
  <2>2. ASSUME Fault, up' \subseteq up PROVE UpFaults
    BY <1>0, <2>2 DEF Fault
  <2>3. QED
    BY <2>1, <2>2
       DEF Next, Serve, Handle, Work, AfterRun, Submit, RequestStop, AnswerStop, StartTask, Assign, Dispatch,
           Finish, Check, Claim, Launch, Unreachable, LoseAnswer, LoseReport, End, Report, Clear,
           Reset, OnError, StopOnSlave, Crash, Clean, vars
<1>5. QED BY <1>1, <1>2, <1>3, <1>4

-----------------------------------------------------------------------------
(* What a start may rely on.                                               *)

LEMMA StateOfTask ==
  ASSUME TypeOK, StartInv, [Next]_vars, NEW t \in Tasks
  PROVE  /\ state[t] # "none" => state'[t] # "none"
         /\ state[t] \notin {"none", "pending"} => state'[t] \notin {"none", "pending"}
<1> DEFINE Goal == /\ state[t] # "none" => state'[t] # "none"
                   /\ state[t] \notin {"none", "pending"} => state'[t] \notin {"none", "pending"}
<1>0. MasterTypeOK
  BY DEF TypeOK
<1>1. ASSUME NEW u \in Tasks, NEW to \in {"running", "completed", "failed", "stopped"}, Try(u, to)
      PROVE  Goal
  BY <1>0, <1>1, TryEffect
<1>2. CASE UNCHANGED state
  BY <1>2
<1>3. ASSUME NEW u \in Tasks, Submit(u) \/ AnswerStop(u) PROVE Goal
  BY <1>0, <1>1, <1>2, <1>3 DEF Submit, Queue!Submit, AnswerStop, MasterTypeOK
<1>4. ASSUME NEW r \in Starts, Dispatch(r) \/ Finish(r) PROVE Goal
  <2>1. target[r] \in Tasks
    BY <1>4 DEF Dispatch, Finish, Step, StartInv, StartOf
  <2>2. QED BY <1>1, <1>2, <1>4, <2>1 DEF Dispatch, Finish
<1>5. ASSUME NEW r \in Starts, NEW s \in Slaves, Report(r, s) PROVE Goal
  <2>1. target[r] \in Tasks
    BY <1>5, HasTask DEF Report, Run
  <2>2. QED BY <1>1, <1>5, <2>1 DEF Report
<1>6. QED BY <1>2, <1>3, <1>4, <1>5, StateSteps

\* Nobody works for a start that has not sent its subtasks, and no call is under way for one
\* that is done.
LEMMA QuietStays ==
  ASSUME TypeOK, StartInv, [Next]_vars, NEW r \in Starts, UNCHANGED <<start, target>>
  PROVE  /\ start[r] \in {"none", "chosen", "assigned"} =>
              \A s \in Slaves : call'[r][s] = "none" /\ run'[r][s] = "none"
         /\ start[r] = "done" => \A s \in Slaves : call'[r][s] \in {"none", "accepted", "refused"}
<1> DEFINE Quiet == /\ start[r] \in {"none", "chosen", "assigned"} =>
                         \A s \in Slaves : call'[r][s] = "none" /\ run'[r][s] = "none"
                    /\ start[r] = "done" =>
                         \A s \in Slaves : call'[r][s] \in {"none", "accepted", "refused"}
<1> USE DEF TypeOK, SlaveTypeOK, StartInv, StartOf
<1>1. CASE UNCHANGED <<call, run>>
  BY <1>1
<1>2. ASSUME NEW q \in Starts, NEW x \in Slaves, Handle(q, x) \/ LoseAnswer(q, x) PROVE Quiet
  <2> DEFINE Under == call[q][x] \in {"sent", "checked", "claimed"}
             Lost == call[q][x] = "accepted" /\ call'[q][x] = "refused"
             Others == \A s \in Slaves : q # r \/ s # x => call'[r][s] = call[r][s] /\ run'[r][s] = run[r][s]
  <2>1. CASE Check(q, x) \/ Unreachable(q, x)
    <3>1. Under /\ Others
      BY <2>1 DEF Check, Unreachable, Call
    <3>2. QED BY <3>1
  <2>2. CASE Claim(q, x)
    <3>1. Under /\ Others
      BY <2>2 DEF Claim, Call
    <3>2. QED BY <3>1
  <2>3. CASE Launch(q, x)
    <3>1. Under /\ Others
      BY <2>3 DEF Launch, Call, Run
    <3>2. QED BY <3>1
  <2>4. CASE LoseAnswer(q, x)
    <3>1. Lost /\ Others /\ UNCHANGED run
      BY <2>4 DEF LoseAnswer, Call
    <3>2. QED BY <3>1
  <2>5. QED BY <1>2, <2>1, <2>2, <2>3, <2>4 DEF Handle
<1>3. ASSUME NEW q \in Starts, NEW x \in Slaves, Work(q, x) \/ LoseReport(q, x) PROVE Quiet
  <2>1. CASE End(q, x)
    BY <2>1 DEF End, Run
  <2>2. CASE Report(q, x)
    BY <2>2 DEF Report, Run
  <2>3. CASE Clear(q, x)
    BY <2>3 DEF Clear, Run
  <2>4. CASE Reset(q, x)
    BY <2>4 DEF Reset, Run
  <2>5. CASE OnError(q, x)
    BY <2>5 DEF OnError, Run
  <2>6. CASE LoseReport(q, x)
    BY <2>6 DEF LoseReport, Run
  <2>7. QED BY <1>3, <2>1, <2>2, <2>3, <2>4, <2>5, <2>6 DEF Work, AfterRun
<1>4. ASSUME NEW t \in Tasks, NEW x \in Slaves, StopOnSlave(t, x) PROVE Quiet
  BY <1>4 DEF StopOnSlave
<1>5. ASSUME NEW x \in Slaves, Crash(x) PROVE Quiet
  <2>1. ASSUME NEW s \in Slaves
        PROVE  /\ run[r][s] = "none" => run'[r][s] = "none"
               /\ call[r][s] = "none" => call'[r][s] = "none"
               /\ call[r][s] \in {"none", "accepted", "refused"} =>
                    call'[r][s] \in {"none", "accepted", "refused"}
    <3>1. CASE s # x
      <4>1. call'[r][s] = call[r][s] /\ run'[r][s] = run[r][s]
        BY <1>5, <3>1 DEF Crash
      <4>2. QED BY <4>1
    <3>2. CASE s = x
      <4>1. run[r][s] = "none" => run'[r][s] = "none"
        BY <1>5, <3>2 DEF Crash, Reported, ReportedError
      <4>2. call'[r][s] \in {call[r][s], "refused"} /\ (call[r][s] = "none" => call'[r][s] = "none")
        BY <1>5, <3>2 DEF Crash
      <4>3. QED BY <4>1, <4>2
    <3>3. QED BY <3>1, <3>2
  <2>2. QED BY <2>1
<1>6. QED
  BY <1>1, <1>2, <1>3, <1>4, <1>5
     DEF Next, Serve, Submit, RequestStop, AnswerStop, StartTask, Assign, Dispatch, Finish, Step,
         MasterTypeOK, Clean, vars

LEMMA StartInvStep == TypeOK /\ StartInv /\ [Next]_vars => StartInv'
<1> SUFFICES ASSUME TypeOK, StartInv, [Next]_vars, NEW r \in Starts PROVE StartOf(r)'
  BY DEF StartInv
<1>1. \A t \in Tasks : /\ state[t] # "none" => state'[t] # "none"
                       /\ state[t] \notin {"none", "pending"} => state'[t] \notin {"none", "pending"}
  BY StateOfTask
<1>2. StartOf(r) /\ MasterTypeOK /\ SlaveTypeOK
  BY DEF StartInv, TypeOK
<1>3. CASE UNCHANGED <<start, target>>
  BY <1>1, <1>2, <1>3, QuietStays DEF StartOf
<1>4. ASSUME NEW q \in Starts, NEW t \in Tasks, StartTask(q, t) PROVE StartOf(r)'
  BY <1>2, <1>4 DEF StartTask, Step, StartOf, MasterTypeOK
<1>5. ASSUME NEW q \in Starts, Assign(q) PROVE StartOf(r)'
  BY <1>2, <1>5 DEF Assign, Step, StartOf, MasterTypeOK
<1>6. ASSUME NEW q \in Starts, Dispatch(q) PROVE StartOf(r)'
  <2>1. target[q] \in Tasks /\ state[target[q]] # "none"
    BY <1>6 DEF Dispatch, Step, StartInv, StartOf
  <2>2. state'[target[q]] \notin {"none", "pending"}
    BY <1>1, <1>2, <1>6, <2>1, TryEffect DEF Dispatch
  <2>3. CASE q = r
    BY <1>2, <1>6, <2>1, <2>2, <2>3 DEF Dispatch, Step, StartOf, MasterTypeOK
  <2>4. CASE q # r
    BY <1>1, <1>2, <1>6, <2>4 DEF Dispatch, Step, StartOf, MasterTypeOK, SlaveTypeOK
  <2>5. QED BY <2>3, <2>4
<1>7. ASSUME NEW q \in Starts, Finish(q) PROVE StartOf(r)'
  BY <1>1, <1>2, <1>7 DEF Finish, Step, StartOf, MasterTypeOK
<1>8. QED
  BY <1>3, <1>4, <1>5, <1>6, <1>7
     DEF Next, Serve, Handle, Work, AfterRun, Submit, RequestStop, AnswerStop, Check, Claim, Launch,
         Unreachable, LoseAnswer, LoseReport, End, Report, Clear, Reset, OnError, StopOnSlave,
         Crash, Clean, vars

-----------------------------------------------------------------------------
(* Outcomes.                                                               *)

Completed(t) == \E r \in Starts, s \in Slaves : target[r] = t /\ run[r][s] \in Reported

Failed(t) ==
  \E r \in Starts : /\ target[r] = t
                    /\ \/ start[r] = "done" /\ ~AnyAccepted(r)
                       \/ \E s \in Slaves : run[r][s] \in ReportedError

LEMMA CausesAre ==
  OutcomeHasCause <=> \A t \in Tasks : /\ state[t] = "completed" => Completed(t)
                                       /\ state[t] = "failed" => Failed(t)
BY DEF OutcomeHasCause, Completed, Failed

\* What causes an outcome is there for good.
LEMMA CausesStay ==
  ASSUME TypeOK, StartInv, [Next]_vars, NEW t \in Tasks
  PROVE  (Completed(t) => Completed(t)') /\ (Failed(t) => Failed(t)')
<1>1. \A r \in Starts, s \in Slaves :
        /\ run[r][s] \in Reported => run'[r][s] \in Reported
        /\ run[r][s] \in ReportedError => run'[r][s] \in ReportedError
  BY ReportsStay DEF TypeOK
<1>2. \A r \in Starts : start[r] # "none" => target'[r] = target[r]
  BY DEF TypeOK, MasterTypeOK, Next, Serve, Handle, Work, AfterRun, Submit, RequestStop, AnswerStop,
         StartTask, Step, Assign, Dispatch, Finish, Check, Claim, Launch, Unreachable, LoseAnswer,
         LoseReport, End, Report, Clear, Reset, OnError, StopOnSlave, Crash, Clean, vars
<1>3. \A r \in Starts, s \in Slaves : run[r][s] \in Reported \cup ReportedError => start[r] # "none"
  BY HasTask DEF Reported, ReportedError
<1>4. Completed(t) => Completed(t)'
  BY <1>1, <1>2, <1>3 DEF Completed
<1>5. ASSUME NEW r \in Starts, start[r] = "done", ~AnyAccepted(r)
      PROVE  start'[r] = "done" /\ ~AnyAccepted(r)'
  <2>1. start'[r] = "done"
    BY <1>5 DEF TypeOK, MasterTypeOK, Next, Serve, Handle, Work, AfterRun, Submit, RequestStop, AnswerStop,
         StartTask, Step, Assign, Dispatch, Finish, Check, Claim, Launch, Unreachable, LoseAnswer,
         LoseReport, End, Report, Clear, Reset, OnError, StopOnSlave, Crash, Clean, vars
  <2>2. \A s \in Slaves : call[r][s] \in {"none", "refused"}
    BY <1>5 DEF StartInv, StartOf, AnyAccepted
  <2>3. ASSUME NEW s \in Slaves PROVE call'[r][s] # "accepted"
    <3>1. CASE call' = call
      BY <2>2, <3>1
    <3>2. ASSUME NEW q \in Starts, NEW x \in Slaves, Handle(q, x) \/ LoseAnswer(q, x)
          PROVE  call'[r][s] # "accepted"
      BY <2>2, <3>2 DEF Handle, Check, Claim, Launch, Unreachable, LoseAnswer, Call, TypeOK, SlaveTypeOK
    <3>3. ASSUME NEW q \in Starts, Dispatch(q) PROVE call'[r][s] # "accepted"
      BY <2>2, <3>3 DEF Dispatch, TypeOK, SlaveTypeOK
    <3>4. ASSUME NEW x \in Slaves, Crash(x) PROVE call'[r][s] # "accepted"
      BY <2>2, <3>4 DEF Crash, TypeOK, SlaveTypeOK
    <3>5. QED
      BY <3>1, <3>2, <3>3, <3>4
         DEF Next, Serve, Work, AfterRun, Submit, RequestStop, AnswerStop, StartTask, Assign, Finish,
             LoseReport, End, Report, Clear, Reset, OnError, StopOnSlave, Clean, vars
  <2>4. QED BY <2>1, <2>3 DEF AnyAccepted
<1>6. Failed(t) => Failed(t)'
  <2> SUFFICES ASSUME Failed(t) PROVE Failed(t)'
    OBVIOUS
  <2>1. PICK r \in Starts : /\ target[r] = t
                            /\ \/ start[r] = "done" /\ ~AnyAccepted(r)
                               \/ \E s \in Slaves : run[r][s] \in ReportedError
    BY DEF Failed
  <2>2. start[r] # "none" /\ target'[r] = t
    BY <1>2, <1>3, <2>1
  <2>3. \/ start'[r] = "done" /\ ~AnyAccepted(r)'
        \/ \E s \in Slaves : run'[r][s] \in ReportedError
    BY <1>1, <1>5, <2>1
  <2>4. QED BY <2>2, <2>3 DEF Failed
<1>7. QED BY <1>4, <1>6

\* Who moves a task to an outcome is its cause.
LEMMA OutcomeStep == TypeOK /\ StartInv /\ OutcomeHasCause /\ [Next]_vars => OutcomeHasCause'
<1> SUFFICES ASSUME TypeOK, StartInv, OutcomeHasCause, [Next]_vars, NEW t \in Tasks
             PROVE  /\ state'[t] = "completed" => Completed(t)'
                    /\ state'[t] = "failed" => Failed(t)'
  BY DEF OutcomeHasCause, Completed, Failed
<1> DEFINE Caused == /\ state'[t] = "completed" => Completed(t)'
                     /\ state'[t] = "failed" => Failed(t)'
<1>0. MasterTypeOK /\ SlaveTypeOK
  BY DEF TypeOK
<1>1. ASSUME state'[t] = state[t] \/ state'[t] \notin {"completed", "failed"} PROVE Caused
  BY <1>1, CausesAre, CausesStay
<1>2. ASSUME NEW u \in Tasks, Submit(u) PROVE Caused
  BY <1>0, <1>1, <1>2 DEF Submit, Queue!Submit, MasterTypeOK
<1>3. ASSUME NEW u \in Tasks, AnswerStop(u) PROVE Caused
  BY <1>0, <1>1, <1>3, TryEffect DEF AnswerStop
<1>4. ASSUME NEW r \in Starts, Dispatch(r) PROVE Caused
  <2>1. target[r] \in Tasks
    BY <1>4 DEF Dispatch, Step, StartInv, StartOf
  <2>2. QED BY <1>0, <1>1, <1>4, <2>1, TryEffect DEF Dispatch
<1>5. ASSUME NEW r \in Starts, Finish(r) PROVE Caused
  <2>1. target[r] \in Tasks
    BY <1>5 DEF Finish, Step, StartInv, StartOf
  <2>2. CASE state'[t] = state[t]
    BY <1>1, <2>2
  <2>3. CASE state'[t] # state[t]
    <3>1. ~AnyAccepted(r) /\ Try(target[r], "failed")
      BY <1>5, <2>3 DEF Finish
    <3>2. t = target[r] /\ state'[t] = "failed"
      BY <1>0, <2>1, <2>3, <3>1, TryEffect
    <3>3. start'[r] = "done" /\ ~AnyAccepted(r)' /\ target'[r] = t
      BY <1>0, <1>5, <3>1, <3>2 DEF Finish, Step, AnyAccepted, MasterTypeOK
    <3>4. QED BY <3>2, <3>3 DEF Failed
  <2>4. QED BY <2>2, <2>3
<1>6. ASSUME NEW r \in Starts, NEW s \in Slaves, Report(r, s) PROVE Caused
  <2>1. target[r] \in Tasks
    BY <1>6, HasTask DEF Report, Run
  <2>2. CASE state'[t] = state[t]
    BY <1>1, <2>2
  <2>3. CASE state'[t] # state[t]
    <3>1. \/ run'[r][s] = "reported" /\ Try(target[r], "completed")
          \/ run'[r][s] = "reportedError" /\ Try(target[r], "failed")
      BY <1>0, <1>6 DEF Report, Run, SlaveTypeOK
    <3>2. /\ t = target[r] /\ target'[r] = t
          /\ \/ run'[r][s] = "reported" /\ state'[t] = "completed"
             \/ run'[r][s] = "reportedError" /\ state'[t] = "failed"
      BY <1>0, <1>6, <2>1, <2>3, <3>1, TryEffect DEF Report
    <3>3. QED BY <3>2 DEF Completed, Failed, Reported, ReportedError
  <2>4. QED BY <2>2, <2>3
<1>7. CASE UNCHANGED state
  BY <1>1, <1>7
<1>8. QED BY <1>2, <1>3, <1>4, <1>5, <1>6, <1>7, StateSteps

-----------------------------------------------------------------------------
(* Slaves that are busy.                                                   *)

\* Who will free slave s, which holds task t.
Holds(r, s, t) == target[r] = t /\ (call[r][s] = "claimed" \/ run[r][s] \in Busy)

\* Until it frees the slave, it stays.
LEMMA HolderStays ==
  ASSUME TypeOK, StartInv, [Next]_vars, NEW r \in Starts, NEW s \in Slaves,
         current[s] # NoTask, Holds(r, s, current[s]), current'[s] = current[s]
  PROVE  Holds(r, s, current[s])'
<1> DEFINE t == current[s]
<1> USE DEF Busy
<1>0. /\ MasterTypeOK /\ SlaveTypeOK /\ start[r] \in {"dispatching", "done"}
      /\ call[r][s] = "claimed" \/ run[r][s] \in Busy
  BY HasTask DEF TypeOK, Holds
<1>1. target'[r] = target[r]
  BY <1>0 DEF MasterTypeOK, Next, Serve, Handle, Work, AfterRun, Submit, RequestStop, AnswerStop, StartTask,
         Step, Assign, Dispatch, Finish, Check, Claim, Launch, Unreachable, LoseAnswer, LoseReport,
         End, Report, Clear, Reset, OnError, StopOnSlave, Crash, Clean, vars
<1> DEFINE Held == call'[r][s] = "claimed" \/ run'[r][s] \in Busy
<1>2. ASSUME UNCHANGED <<call, run>> PROVE Held
  BY <1>0, <1>2
<1>3. ASSUME NEW q \in Starts, Serve(q) PROVE Held
  BY <1>0, <1>3 DEF Serve, Assign, Dispatch, Finish, Step, SlaveTypeOK
<1>4. ASSUME NEW q \in Starts, NEW x \in Slaves, Handle(q, x) \/ LoseAnswer(q, x) PROVE Held
  <2>1. CASE Launch(q, x)
    BY <1>0, <2>1 DEF Launch, Call, Run, SlaveTypeOK
  <2>2. CASE Check(q, x) \/ Claim(q, x) \/ Unreachable(q, x) \/ LoseAnswer(q, x)
    BY <1>0, <2>2 DEF Check, Claim, Unreachable, LoseAnswer, Call, SlaveTypeOK
  <2>3. QED BY <1>4, <2>1, <2>2 DEF Handle
<1>5. ASSUME NEW q \in Starts, NEW x \in Slaves, Work(q, x) \/ LoseReport(q, x) PROVE Held
  BY <1>0, <1>5 DEF Work, AfterRun, End, Report, Clear, Reset, OnError, LoseReport, Run, SlaveTypeOK
<1>6. ASSUME NEW u \in Tasks, NEW x \in Slaves, StopOnSlave(u, x) PROVE Held
  BY <1>0, <1>6 DEF StopOnSlave, SlaveTypeOK
<1>7. ASSUME NEW x \in Slaves, Crash(x) PROVE Held
  <2>1. x # s
    BY <1>0, <1>7 DEF Crash, Freed, SlaveTypeOK
  <2>2. call'[r][s] = call[r][s] /\ run'[r][s] = run[r][s]
    BY <1>0, <1>7, <2>1 DEF Crash, SlaveTypeOK
  <2>3. QED BY <1>0, <2>2
<1>8. Held
  BY <1>2, <1>3, <1>4, <1>5, <1>6, <1>7
     DEF Next, Submit, RequestStop, AnswerStop, StartTask, Clean, vars
<1>9. QED BY <1>1, <1>8 DEF Holds

\* A slave takes a task only when a call claims it.
LEMMA NoWedgeStep == TypeOK /\ StartInv /\ NoWedge /\ [Next]_vars => NoWedge'
<1> SUFFICES ASSUME TypeOK, StartInv, NoWedge, [Next]_vars, NEW s \in Slaves, current'[s] # NoTask
             PROVE  \E r \in Starts : Holds(r, s, current[s])'
  BY DEF NoWedge, Holds
<1>1. CASE current'[s] = current[s]
  <2>1. PICK r \in Starts : Holds(r, s, current[s])
    BY <1>1 DEF NoWedge, Holds
  <2>2. QED BY <1>1, <2>1, HolderStays
<1>2. CASE current'[s] # current[s]
  <2>1. PICK r \in Starts, x \in Slaves : Claim(r, x)
    BY <1>2 DEF TypeOK, SlaveTypeOK, Next, Serve, Handle, Work, AfterRun, Submit, RequestStop, AnswerStop,
         StartTask, Assign, Dispatch, Finish, Check, Launch, Unreachable, LoseAnswer, LoseReport,
         End, Report, Clear, Reset, OnError, StopOnSlave, Crash, Freed, Clean, vars
  <2>2. x = s /\ current'[s] = target[r] /\ target' = target /\ call'[r][s] = "claimed"
    BY <1>2, <2>1 DEF Claim, Call, TypeOK, SlaveTypeOK
  <2>3. QED BY <2>2 DEF Holds
<1>3. QED BY <1>1, <1>2

-----------------------------------------------------------------------------
(* The theorems.                                                           *)

LEMMA InitInv == Init => IInv
<1> SUFFICES ASSUME Init PROVE IInv
  OBVIOUS
<1>1. MasterTypeOK
  BY DEF Init, Queue!Init, MasterTypeOK
<1>2. SlaveTypeOK
  BY DispatchAssumption DEF Init, SlaveTypeOK, RunStep
<1>3. StartInv
  BY DEF Init, StartInv, StartOf
<1>4. OutcomeHasCause /\ NoWedge
  BY DEF Init, Queue!Init, OutcomeHasCause, NoWedge
<1>5. QED BY <1>1, <1>2, <1>3, <1>4 DEF IInv, TypeOK

LEMMA InvStep == IInv /\ [Next]_vars => IInv'
BY MasterTypes, SlaveTypes, StartInvStep, OutcomeStep, NoWedgeStep DEF IInv, TypeOK

LEMMA Invariant == Spec => []IInv
BY InitInv, InvStep, PTL DEF Spec

\* The fields of the master, the slaves and the calls between them keep their types, whatever
\* handlers, runs, stops and faults overlap.
THEOREM DispatchTypeCorrect == Spec => []TypeOK
BY Invariant, PTL DEF IInv

\* No slave runs a task that the master still counts as pending, so that no completion report
\* is dropped for being early.
THEOREM NoEarlyRunAlways == Spec => []NoEarlyRun
<1>1. IInv => NoEarlyRun
  BY DEF IInv, NoEarlyRun, TypeOK, MasterTypeOK, StartInv, StartOf
<1>2. QED BY Invariant, <1>1, PTL

\* A completed or failed task has a run or a start that caused it.
THEOREM OutcomeHasCauseAlways == Spec => []OutcomeHasCause
BY Invariant, PTL DEF IInv

\* A slave that holds a task has a call or a goroutine that will free it.
THEOREM NoWedgeAlways == Spec => []NoWedge
BY Invariant, PTL DEF IInv
=============================================================================
