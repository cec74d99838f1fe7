---------------------------- MODULE EngineProofs ----------------------------
(***************************************************************************)
(* Proofs about Engine, for any number of workers, requests and links of   *)
(* the chain: what a run guarantees under pauses, stops and cancellations. *)
(***************************************************************************)
EXTENDS EngineConfig, SequenceTheorems, FiniteSetTheorems, WellFoundedInduction, TLAPS

\* Abbreviations, expanded everywhere.
USE DEF workerVars, history, Exit, Goto, Cancel, NoReport

-----------------------------------------------------------------------------
(* The inductive invariant, over the types.                                *)

\* A pause clears the counts of all workers, and a worker that is past the check then has
\* its one request before it.
HeldInv ==
  server.paused => \A w \in Workers : held[w] <= 1 /\ (pc[w] = "ready" => held[w] = 0)

\* A worker has started no more requests since the cancellation than its chain has had so
\* far; that chain is its last.
LateOf(w) ==
  /\ ~ctx => late[w] = 0
  /\ late[w] <= ChainLength
  /\ pc[w] \in {"check", "ready"} => step[w] <= ChainLength /\ late[w] < step[w]
  /\ pc[w] = "exec" => step[w] <= ChainLength /\ late[w] <= step[w]

LateInv == \A w \in Workers : LateOf(w)

\* All workers are done, and the outcome is the one of their errors.
Outcomes ==
  /\ AllDone
  /\ result.error = "run" <=> errs # << >> /\ Head(errs) = "connect"
  /\ result.report = IF result.error = "run" THEN NoReport ELSE collected

\* What each phase of RunTask may rely on.
PhaseInv ==
  /\ phase \in {"load", "create"} => storage = "none"
  /\ phase \in {"load", "create", "start"} => ~server.up /\ ~server.stopped
  /\ phase \in {"load", "create", "start", "spawn"} => result = [report |-> NoReport, error |-> "none"]
  /\ phase \in {"start", "spawn"} => storage = "open"
  /\ phase \in {"post", "wait", "return"} => Outcomes
  /\ phase = "ended" => \/ Outcomes
                        \/ result.error = "config" /\ storage = "none"
                        \/ result.error = "create"
  /\ storage = "closed" => phase \in {"wait", "return", "ended"} /\ AllDone

\* A stopped server that still listens was stopped from the page, and only the end of the
\* run leaves one stopped in a pause.
ServerInv ==
  /\ server.stopped /\ server.up => pageStopped
  /\ pageStopped => server.up /\ server.stopped
  /\ phase \in {"load", "create", "start"} => ~server.up
  /\ phase = "ended" /\ server.up => pageStopped
  /\ server.paused /\ server.stopped => phase \in {"return", "ended"} /\ AllDone

IInv == TypeOK /\ HeldInv /\ LateInv /\ PhaseInv /\ ServerInv

-----------------------------------------------------------------------------
(* Beginning and types.                                                    *)

LEMMA Constants == NumWorkers \in Nat \ {0} /\ ReqCount \in Nat \ {0} /\ ChainLength \in Nat \ {0}
BY EngineAssumption

LEMMA Appended ==
  ASSUME errs \in Seq({"cancelled", "connect"}), NEW e \in {"cancelled", "connect"}
  PROVE  Append(errs, e) \in Seq({"cancelled", "connect"})
BY AppendProperties

LEMMA InitInv == Init => IInv
<1> SUFFICES ASSUME Init PROVE IInv
  OBVIOUS
<1>1. RunTypeOK BY DEF Init, RunTypeOK
<1>2. WorkersTypeOK BY Constants DEF Init, WorkersTypeOK
<1>3. HeldInv BY DEF Init, HeldInv
<1>4. LateInv BY Constants DEF Init, LateInv, LateOf
<1>5. PhaseInv /\ ServerInv BY DEF Init, PhaseInv, ServerInv
<1>6. QED BY <1>1, <1>2, <1>3, <1>4, <1>5 DEF IInv, TypeOK

LEMMA RunTypes == TypeOK /\ [Next]_vars => RunTypeOK'
<1> SUFFICES ASSUME TypeOK, [Next]_vars PROVE RunTypeOK'
  OBVIOUS
<1> USE DEF TypeOK, RunTypeOK
<1>1. ASSUME NEW w \in Workers, WorkerStep(w) PROVE RunTypeOK'
  BY <1>1 DEF WorkerStep, OwnStep, Connect, Loop, CheckControlState, StartRequest, EndRequest
<1>2. ASSUME NEW ok \in BOOLEAN, LoadConfig(ok) \/ NewExecutor(ok) \/ StartServer(ok) PROVE RunTypeOK'
  <2>1. CASE LoadConfig(ok)  BY <2>1 DEF LoadConfig
  <2>2. CASE NewExecutor(ok) BY <2>2 DEF NewExecutor
  <2>3. CASE StartServer(ok)
    <3>1. server' \in [up : BOOLEAN, streaming : BOOLEAN, paused : BOOLEAN, stopped : BOOLEAN,
                       completed : BOOLEAN]
      BY <2>3 DEF StartServer
    <3>2. QED BY <2>3, <3>1 DEF StartServer
  <2>4. QED BY <1>2, <2>1, <2>2, <2>3
<1>3. CASE Spawn BY <1>3 DEF Spawn
<1>4. CASE Join
  <2>1. /\ result' \in [report : {NoReport} \cup Nat, error : {"none", "config", "create", "run"}]
        /\ phase' \in {"post", "return"}
    BY <1>4 DEF Join, Outcome
  <2>2. server' \in [up : BOOLEAN, streaming : BOOLEAN, paused : BOOLEAN, stopped : BOOLEAN,
                     completed : BOOLEAN]
    BY <1>4 DEF Join, Outcome
  <2>3. QED BY <1>4, <2>1, <2>2 DEF Join
<1>5. ASSUME NEW fault \in {"none", "directory", "page"}, AfterExecution(fault) PROVE RunTypeOK'
  BY <1>5 DEF AfterExecution
<1>6. CASE WaitForExit  BY <1>6 DEF WaitForExit
<1>7. CASE Return       BY <1>7 DEF Return
<1>8. CASE HandlePause
  <2>1. server' \in [up : BOOLEAN, streaming : BOOLEAN, paused : BOOLEAN, stopped : BOOLEAN,
                     completed : BOOLEAN]
    BY <1>8 DEF HandlePause
  <2>2. QED BY <1>8, <2>1 DEF HandlePause
<1>9. CASE HandleResume
  <2>1. server' \in [up : BOOLEAN, streaming : BOOLEAN, paused : BOOLEAN, stopped : BOOLEAN,
                     completed : BOOLEAN]
    BY <1>9 DEF HandleResume
  <2>2. QED BY <1>9, <2>1 DEF HandleResume
<1>10. CASE HandleStop
  <2>1. server' \in [up : BOOLEAN, streaming : BOOLEAN, paused : BOOLEAN, stopped : BOOLEAN,
                     completed : BOOLEAN]
    BY <1>10 DEF HandleStop
  <2>2. QED BY <1>10, <2>1 DEF HandleStop
<1>11. CASE Cancel      BY <1>11
<1>12. CASE UNCHANGED vars BY <1>12 DEF vars
<1>13. QED
  BY <1>1, <1>2, <1>3, <1>4, <1>5, <1>6, <1>7, <1>8, <1>9, <1>10, <1>11, <1>12
     DEF Next, RunStep, Outside, Interrupt, MemoryCritical, StopTask

\* A worker at a check or in a request has not finished its chain.
LEMMA WorkersTypes == TypeOK /\ LateInv /\ [Next]_vars => WorkersTypeOK'
<1> SUFFICES ASSUME TypeOK, LateInv, [Next]_vars PROVE WorkersTypeOK'
  OBVIOUS
<1> USE Constants DEF TypeOK, WorkersTypeOK
<1>1. ASSUME NEW w \in Workers, NEW outcome \in {"ok", "cancelled", "connect"}, Connect(w, outcome) PROVE WorkersTypeOK'
  <2>1. errs' \in Seq({"cancelled", "connect"})
    BY <1>1, Appended DEF Connect
  <2>2. QED BY <1>1, <2>1 DEF Connect
<1>2. ASSUME NEW w \in Workers, Loop(w) PROVE WorkersTypeOK'
  <2>1. errs' \in Seq({"cancelled", "connect"})
    BY <1>2, Appended DEF Loop
  <2>2. pass' \in [Workers -> 0 .. ReqCount]
    <3>1. CASE pass[w] = ReqCount \/ ctx
      BY <1>2, <3>1 DEF Loop
    <3>2. CASE pass[w] # ReqCount /\ ~ctx
      <4>1. pass[w] + 1 \in 0 .. ReqCount
        BY <3>2
      <4>2. pass' = [pass EXCEPT ![w] = pass[w] + 1]
        BY <1>2, <3>2 DEF Loop
      <4>3. QED BY <4>1, <4>2
    <3>3. QED BY <3>1, <3>2
  <2>3. step' \in [Workers -> 1 .. ChainLength + 1]
    <3>1. CASE pass[w] = ReqCount \/ ctx
      BY <1>2, <3>1 DEF Loop
    <3>2. CASE pass[w] # ReqCount /\ ~ctx
      <4>1. 1 \in 1 .. ChainLength + 1
        OBVIOUS
      <4>2. step' = [step EXCEPT ![w] = 1]
        BY <1>2, <3>2 DEF Loop
      <4>3. QED BY <4>1, <4>2
    <3>3. QED BY <3>1, <3>2
  <2>4. pc' = [pc EXCEPT ![w] = "done"] \/ pc' = [pc EXCEPT ![w] = "check"]
    BY <1>2 DEF Loop
  <2>5. QED BY <1>2, <2>1, <2>2, <2>3, <2>4 DEF Loop
<1>3. ASSUME NEW w \in Workers, CheckControlState(w) PROVE WorkersTypeOK'
  BY <1>3 DEF CheckControlState
<1>4. ASSUME NEW w \in Workers, StartRequest(w) PROVE WorkersTypeOK'
  <2>1. pc' = [pc EXCEPT ![w] = "exec"] /\ UNCHANGED <<spawned, pass, step, errs>>
    BY <1>4 DEF StartRequest
  <2>2. held' \in [Workers -> Nat]
    BY <1>4 DEF StartRequest
  <2>3. late' \in [Workers -> Nat]
    BY <1>4 DEF StartRequest
  <2>4. QED BY <2>1, <2>2, <2>3
<1>5. ASSUME NEW w \in Workers, EndRequest(w) PROVE WorkersTypeOK'
  <2>1. step[w] <= ChainLength
    BY <1>5 DEF EndRequest, LateInv, LateOf
  <2>2. QED BY <1>5, <2>1 DEF EndRequest
<1>6. CASE Spawn
  <2>1. spawned' \in 0 .. NumWorkers
    BY <1>6 DEF Spawn
  <2>2. pc' \in [Workers -> {"unborn", "connect", "loop", "check", "ready", "exec", "done"}]
    BY <1>6 DEF Spawn
  <2>3. QED BY <1>6, <2>1, <2>2 DEF Spawn
<1>7. CASE HandlePause BY <1>7 DEF HandlePause
<1>8. CASE UNCHANGED <<spawned, workerVars, errs, held, late>> BY <1>8
<1>9. QED
  BY <1>1, <1>2, <1>3, <1>4, <1>5, <1>6, <1>7, <1>8
     DEF Next, RunStep, Outside, WorkerStep, OwnStep, Interrupt, MemoryCritical, StopTask, HandleResume,
         HandleStop, LoadConfig, NewExecutor, StartServer, Join, AfterExecution, WaitForExit,
         Return, vars

-----------------------------------------------------------------------------
(* The steps of a worker.                                                  *)

LEMMA HeldOfWorker ==
  ASSUME IInv, NEW w \in Workers, WorkerStep(w)
  PROVE  HeldInv'
<1> USE DEF IInv, TypeOK, WorkersTypeOK, HeldInv
<1>1. ASSUME NEW outcome \in {"ok", "cancelled", "connect"}, Connect(w, outcome) PROVE HeldInv'
  BY <1>1 DEF Connect
<1>2. CASE Loop(w) BY <1>2 DEF Loop
<1>3. CASE CheckControlState(w)
  BY <1>3 DEF CheckControlState, WaitWhilePaused, ServerInv, AllDone
<1>4. CASE StartRequest(w) BY <1>4 DEF StartRequest
<1>5. CASE EndRequest(w)   BY <1>5 DEF EndRequest
<1>6. QED BY <1>1, <1>2, <1>3, <1>4, <1>5 DEF WorkerStep, OwnStep

LEMMA LateOfWorker ==
  ASSUME IInv, NEW w \in Workers, WorkerStep(w), NEW v \in Workers
  PROVE  LateOf(v)'
<1> USE Constants DEF IInv, TypeOK, WorkersTypeOK, LateInv, LateOf
<1>1. ASSUME NEW outcome \in {"ok", "cancelled", "connect"}, Connect(w, outcome) PROVE LateOf(v)'
  BY <1>1 DEF Connect
<1>2. CASE Loop(w)              BY <1>2 DEF Loop
<1>3. CASE CheckControlState(w) BY <1>3 DEF CheckControlState
<1>4. CASE StartRequest(w)      BY <1>4 DEF StartRequest
<1>5. CASE EndRequest(w)        BY <1>5 DEF EndRequest
<1>6. QED BY <1>1, <1>2, <1>3, <1>4, <1>5 DEF WorkerStep, OwnStep

\* While a worker can take a step not all are done.
LEMMA NotDone ==
  ASSUME NEW w \in Workers, WorkerStep(w)
  PROVE  ~AllDone /\ UNCHANGED <<opts, phase, ctx, server, storage, result, pageStopped>>
BY DEF WorkerStep, OwnStep, Connect, Loop, CheckControlState, StartRequest, EndRequest, AllDone

LEMMA InvOfWorker ==
  ASSUME IInv, NEW w \in Workers, WorkerStep(w)
  PROVE  HeldInv' /\ LateInv' /\ PhaseInv' /\ ServerInv'
<1>1. HeldInv' BY HeldOfWorker
<1>2. LateInv' BY LateOfWorker DEF LateInv
<1>3. PhaseInv' BY NotDone DEF IInv, PhaseInv, Outcomes
<1>4. ServerInv' BY NotDone DEF IInv, ServerInv
<1>5. QED BY <1>1, <1>2, <1>3, <1>4

-----------------------------------------------------------------------------
(* The steps of RunTask and from outside.                                  *)

\* What only a worker, the start of one, a pause or a cancellation changes.
LEMMA SameWorkers ==
  ASSUME HeldInv, LateInv, UNCHANGED <<pc, step, held, late>>, ctx' => ctx, ~ctx' => ~ctx,
         server'.paused => server.paused
  PROVE  HeldInv' /\ LateInv'
BY DEF HeldInv, LateInv, LateOf

LEMMA InvOfStart ==
  ASSUME IInv, NEW ok \in BOOLEAN, LoadConfig(ok) \/ NewExecutor(ok) \/ StartServer(ok)
  PROVE  HeldInv' /\ LateInv' /\ PhaseInv' /\ ServerInv'
<1> USE DEF IInv, TypeOK, RunTypeOK
<1>1. HeldInv' /\ LateInv'
  <2>1. server'.paused => server.paused
    BY DEF LoadConfig, NewExecutor, StartServer
  <2>2. QED BY <2>1, SameWorkers DEF LoadConfig, NewExecutor, StartServer
<1>2. CASE LoadConfig(ok)  BY <1>1, <1>2 DEF LoadConfig, PhaseInv, ServerInv
<1>3. CASE NewExecutor(ok) BY <1>1, <1>3 DEF NewExecutor, PhaseInv, ServerInv
<1>4. CASE StartServer(ok) BY <1>1, <1>4 DEF StartServer, PhaseInv, ServerInv
<1>5. QED BY <1>2, <1>3, <1>4

LEMMA InvOfSpawn ==
  ASSUME IInv, Spawn
  PROVE  HeldInv' /\ LateInv' /\ PhaseInv' /\ ServerInv'
<1>1. HeldInv' /\ LateInv'
  BY DEF IInv, TypeOK, WorkersTypeOK, HeldInv, LateInv, LateOf, Spawn
<1>2. PhaseInv' /\ ServerInv'
  BY DEF IInv, PhaseInv, ServerInv, Spawn
<1>3. QED BY <1>1, <1>2

LEMMA InvOfJoin ==
  ASSUME IInv, Join
  PROVE  HeldInv' /\ LateInv' /\ PhaseInv' /\ ServerInv'
<1> USE DEF IInv, TypeOK, RunTypeOK
<1>1. HeldInv' /\ LateInv'
  BY SameWorkers DEF Join, Outcome
<1>2. CASE FirstError = "connect"
  <2>1. Outcomes' BY <1>2 DEF Join, Outcome, FirstError, Outcomes, AllDone
  <2>2. PhaseInv' BY <1>2, <2>1 DEF Join, Outcome, PhaseInv
  <2>3. ServerInv' BY <1>2 DEF Join, Outcome, ServerInv, AllDone
  <2>4. QED BY <1>1, <2>2, <2>3
<1>3. CASE FirstError # "connect"
  <2>1. Outcomes' BY <1>3 DEF Join, Outcome, FirstError, Outcomes, AllDone
  <2>2. PhaseInv' BY <1>3, <2>1 DEF Join, Outcome, PhaseInv
  <2>3. ServerInv' BY <1>3 DEF Join, Outcome, ServerInv, AllDone
  <2>4. QED BY <1>1, <2>2, <2>3
<1>4. QED BY <1>2, <1>3

LEMMA InvOfEnd ==
  ASSUME IInv,
         (\E fault \in {"none", "directory", "page"} : AfterExecution(fault)) \/ WaitForExit \/ Return
  PROVE  HeldInv' /\ LateInv' /\ PhaseInv' /\ ServerInv'
<1> USE DEF IInv, TypeOK, RunTypeOK
<1>1. ASSUME NEW fault \in {"none", "directory", "page"}, AfterExecution(fault)
      PROVE  HeldInv' /\ LateInv' /\ PhaseInv' /\ ServerInv'
  <2>1. HeldInv' /\ LateInv' BY <1>1, SameWorkers DEF AfterExecution
  <2>2. PhaseInv' BY <1>1 DEF AfterExecution, PhaseInv, Outcomes, AllDone
  <2>3. ServerInv' BY <1>1 DEF AfterExecution, ServerInv
  <2>4. QED BY <2>1, <2>2, <2>3
<1>2. CASE WaitForExit
  <2>1. HeldInv' /\ LateInv' BY <1>2, SameWorkers DEF WaitForExit
  <2>2. PhaseInv' BY <1>2 DEF WaitForExit, PhaseInv, Outcomes, AllDone
  <2>3. ServerInv' BY <1>2 DEF WaitForExit, ServerInv
  <2>4. QED BY <2>1, <2>2, <2>3
<1>3. CASE Return
  <2>1. Outcomes BY <1>3 DEF Return, PhaseInv
  <2>2. HeldInv' BY <1>3 DEF Return, HeldInv
  <2>3. LateInv' BY <1>3 DEF Return, LateInv, LateOf, WorkersTypeOK, Outcomes, AllDone
  <2>4. PhaseInv' BY <1>3 DEF Return, PhaseInv, Outcomes, AllDone
  <2>5. ServerInv' BY <1>3, <2>1 DEF Return, ServerInv, Outcomes, AllDone
  <2>6. QED BY <2>2, <2>3, <2>4, <2>5
<1>4. QED BY <1>1, <1>2, <1>3

LEMMA InvOfOutside ==
  ASSUME IInv, Outside
  PROVE  HeldInv' /\ LateInv' /\ PhaseInv' /\ ServerInv'
<1> USE DEF IInv, TypeOK, RunTypeOK
<1>1. CASE HandlePause
  <2>1. HeldInv' BY <1>1 DEF HandlePause, HeldInv
  <2>2. LateInv' BY <1>1 DEF HandlePause, LateInv, LateOf
  <2>3. PhaseInv' BY <1>1 DEF HandlePause, PhaseInv, Outcomes, AllDone
  <2>4. ServerInv' BY <1>1 DEF HandlePause, ServerInv
  <2>5. QED BY <2>1, <2>2, <2>3, <2>4
<1>2. CASE HandleResume \/ HandleStop
  <2>1. HeldInv' /\ LateInv'
    <3>1. CASE HandleResume BY <3>1, SameWorkers DEF HandleResume
    <3>2. CASE HandleStop   BY <3>2, SameWorkers DEF HandleStop
    <3>3. QED BY <1>2, <3>1, <3>2
  <2>2. PhaseInv'
    <3>1. CASE HandleResume BY <3>1 DEF HandleResume, PhaseInv, Outcomes, AllDone
    <3>2. CASE HandleStop   BY <3>2 DEF HandleStop, PhaseInv, Outcomes, AllDone
    <3>3. QED BY <1>2, <3>1, <3>2
  <2>3. ServerInv' BY <1>2 DEF HandleResume, HandleStop, ServerInv
  <2>4. QED BY <2>1, <2>2, <2>3
<1>3. CASE Cancel
  <2>1. HeldInv' /\ LateInv' BY <1>3 DEF HeldInv, LateInv, LateOf
  <2>2. PhaseInv' BY <1>3 DEF PhaseInv, Outcomes, AllDone
  <2>3. ServerInv' BY <1>3 DEF ServerInv, AllDone
  <2>4. QED BY <2>1, <2>2, <2>3
<1>4. QED BY <1>1, <1>2, <1>3 DEF Outside, Interrupt, MemoryCritical, StopTask

LEMMA InvStep == IInv /\ [Next]_vars => IInv'
<1> SUFFICES ASSUME IInv, [Next]_vars PROVE IInv'
  OBVIOUS
<1>1. TypeOK'
  BY RunTypes, WorkersTypes DEF IInv, TypeOK
<1>2. CASE UNCHANGED vars
  <2>1. HeldInv' /\ LateInv' BY <1>2, SameWorkers DEF vars, IInv
  <2>2. PhaseInv' /\ ServerInv' BY <1>2 DEF vars, IInv, PhaseInv, ServerInv, Outcomes, AllDone
  <2>3. QED BY <1>1, <2>1, <2>2 DEF IInv
<1>3. CASE Next
  BY <1>1, <1>3, InvOfWorker, InvOfStart, InvOfSpawn, InvOfJoin, InvOfEnd, InvOfOutside
     DEF Next, RunStep, IInv
<1>4. QED BY <1>2, <1>3

-----------------------------------------------------------------------------
(* The theorems.                                                           *)

\* The state of a run keeps its types.
THEOREM EngineTypeCorrect == Spec => []TypeOK
<1>1. IInv => TypeOK BY DEF IInv
<1>2. QED BY <1>1, InitInv, InvStep, PTL DEF Spec

\* A paused worker starts at most the request it was cleared for.
THEOREM PauseHoldsAlways == Spec => []PauseHolds
<1>1. IInv => PauseHolds BY DEF IInv, HeldInv, PauseHolds
<1>2. QED BY <1>1, InitInv, InvStep, PTL DEF Spec

\* A cancelled worker finishes its chain at most.
THEOREM CancelBoundsAlways == Spec => []CancelBounds
<1>1. IInv => CancelBounds BY DEF IInv, LateInv, LateOf, CancelBounds
<1>2. QED BY <1>1, InitInv, InvStep, PTL DEF Spec

\* Reports cover all results, the storage is closed after the last one, and a server outlives
\* its run exactly when it was stopped from the page.
THEOREM OutcomeExplainedAlways == Spec => []OutcomeExplained
<1>1. IInv => OutcomeExplained
  BY DEF IInv, PhaseInv, ServerInv, Outcomes, OutcomeExplained
<1>2. QED BY <1>1, InitInv, InvStep, PTL DEF Spec

-----------------------------------------------------------------------------
(* Configurations: the properties of Config.tla for every file, command    *)
(* and command line of the shapes below, whatever their texts.             *)

\* What Config takes: APIs with all their fields, whose texts are sequences of parts; what a file
\* sets of a configuration, with numbers that are unsigned in the code; the lines of a command;
\* the flags of the command line with the command or the file it names.
IsAPI(api, Part) ==
  /\ api = [url |-> api.url, host |-> api.host, path |-> api.path, method |-> api.method, body |-> api.body,
            weight |-> api.weight, headers |-> api.headers, verify |-> api.verify]
  /\ {api.url, api.host, api.path} \subseteq Seq(Part) /\ api.weight \in Nat
  /\ api.headers = [k \in DOMAIN api.headers |-> api.headers[k]]

IsConfig(config, Part) ==
  /\ DOMAIN config = DOMAIN C!DefaultConfig /\ config = [k \in DOMAIN config |-> config[k]]
  /\ {config.concurrency, config.requests, config.duration} \subseteq Nat
  /\ {config.url, config.host} \subseteq Seq(Part)
  /\ config.apis \in Seq({config.apis[i] : i \in DOMAIN config.apis})
  /\ \A i \in DOMAIN config.apis : IsAPI(config.apis[i], Part)

IsFile(file, Part) ==
  DOMAIN file.sets \subseteq DOMAIN C!DefaultConfig /\ IsConfig(C!Overlay(file.sets, C!DefaultConfig), Part)

WordsOf(Part) ==
  [quote : {"none", "single", "double", "^"}, text : Seq(Part) \ {<< >>}, holds : SUBSET STRING]

IsCommand(lines, Part) ==
  /\ lines \in Seq({lines[i] : i \in DOMAIN lines})
  /\ \A i \in DOMAIN lines : lines[i].words \in Seq(WordsOf(Part))

IsSource(source, Part) ==
  /\ {source.flags.concurrency, source.flags.requests} \subseteq Nat
  /\ source.file # C!Null => IsFile(source.file, Part)

\* Every set of numbers has a least one.
LEMMA NatLeast == \A T \in SUBSET Nat : T # {} => \E m \in T : \A k \in T : m <= k
<1>1. IsWellFoundedOn(OpToRel(<, Nat), Nat)
  BY NatLessThanWellFounded
<1>2. \A x, y \in Nat : <<y, x>> \in OpToRel(<, Nat) <=> y < x
  BY DEF OpToRel
<1>3. ASSUME NEW T \in SUBSET Nat, T # {} PROVE \E m \in T : \A k \in T : m <= k
  <2>1. PICK m \in T : \A k \in T : ~(<<k, m>> \in OpToRel(<, Nat))
    BY <1>1, <1>3, WFMin
  <2>2. \A k \in T : ~(k < m)
    BY <1>2, <2>1
  <2> QED BY <2>2
<1> QED BY <1>3

LEMMA MinIsMember ==
  ASSUME NEW T \in SUBSET Nat, T # {}
  PROVE  C!Min(T) \in T
<1>1. PICK m \in T : \A k \in T : m <= k
  BY NatLeast
<1>2. QED BY <1>1 DEF C!Min

LEMMA DefaultFields ==
  /\ DOMAIN C!DefaultConfig = {"protocol", "concurrency", "requests", "duration", "timeout", "host", "url",
                               "method", "headers", "body", "apis", "verify", "grpc"}
  /\ C!DefaultConfig = [k \in DOMAIN C!DefaultConfig |-> C!DefaultConfig[k]] /\ C!DefaultConfig.apis = << >>
BY DEF C!DefaultConfig

-----------------------------------------------------------------------------
(* APIs, merged one by one.                                                *)

URL(config, i) == C!IfEmpty(config.apis[i].url, C!buildAPIURL(config.apis[i], config))
Stops(config) ==
  {i \in DOMAIN config.apis : \/ URL(config, i) = C!NoText
                              \/ config.apis[i].verify = << >> /\ config.verify = C!Null}

\* The merge of all APIs.
LEMMA MergeAll ==
  ASSUME NEW config
  PROVE  C!mergeAPIsWithCommon(config)
           = IF Stops(config) = {} THEN [config EXCEPT !.apis = [i \in DOMAIN @ |-> C!Merged(@[i], config)]]
             ELSE C!Failed(IF URL(config, C!Min(Stops(config))) = C!NoText THEN "api url" ELSE "panic")
BY DEF C!mergeAPIsWithCommon, Stops, URL

\* What becomes of one API.
LEMMA MergedAPI ==
  ASSUME NEW Part, NEW config, IsConfig(config, Part), Stops(config) = {}, NEW i \in DOMAIN config.apis
  PROVE  LET own == config.apis[i]
             api == C!Merged(own, config)
         IN /\ api = [url |-> URL(config, i), host |-> own.host, path |-> own.path,
                      method |-> C!IfEmpty(own.method, C!IfEmpty(config.method, <<"GET">>)),
                      body |-> C!IfEmpty(own.body, config.body),
                      weight |-> IF own.weight = 0 THEN 1 ELSE own.weight,
                      headers |-> C!mergeHeaders(config.headers, own.headers),
                      verify |-> IF own.verify = << >> THEN config.verify ELSE own.verify]
            /\ api.url # C!NoText /\ api.method # C!NoText /\ api.weight \in Nat \ {0} /\ api.verify # << >>
<1> DEFINE own == config.apis[i]
           api == C!Merged(own, config)
<1>1. IsAPI(own, Part)
  BY DEF IsConfig
<1>2. api = [url |-> URL(config, i), host |-> own.host, path |-> own.path,
             method |-> C!IfEmpty(own.method, C!IfEmpty(config.method, <<"GET">>)),
             body |-> C!IfEmpty(own.body, config.body),
             weight |-> IF own.weight = 0 THEN 1 ELSE own.weight,
             headers |-> C!mergeHeaders(config.headers, own.headers),
             verify |-> IF own.verify = << >> THEN config.verify ELSE own.verify]
  <2>1. URL(config, i) = C!IfEmpty(own.url, C!buildAPIURL(own, config))
    BY DEF URL
  <2> HIDE DEF own
  <2> DEFINE F == {"url", "host", "path", "method", "body", "weight", "headers", "verify"}
  <2>2. own = [k \in F |-> own[k]]
    BY <1>1 DEF IsAPI
  <2>3. api = [k \in F |-> api[k]]
    BY <2>2 DEF C!Merged
  <2>4. api.url = C!IfEmpty(own.url, C!buildAPIURL(own, config)) /\ api.host = own.host /\ api.path = own.path
    BY <2>2 DEF C!Merged
  <2>5. /\ api.method = C!IfEmpty(own.method, C!IfEmpty(config.method, <<"GET">>))
        /\ api.body = C!IfEmpty(own.body, config.body)
    BY <2>2 DEF C!Merged
  <2>6. /\ api.weight = IF own.weight = 0 THEN 1 ELSE own.weight
        /\ api.headers = C!mergeHeaders(config.headers, own.headers)
        /\ api.verify = IF own.verify = << >> THEN config.verify ELSE own.verify
    BY <2>2 DEF C!Merged
  <2> HIDE DEF api
  <2> QED BY <2>1, <2>3, <2>4, <2>5, <2>6
<1>3. URL(config, i) # C!NoText /\ (own.verify = << >> => config.verify # << >>)
  BY DEF Stops, C!Null
<1>4. C!IfEmpty(own.method, C!IfEmpty(config.method, <<"GET">>)) # C!NoText
  BY DEF C!IfEmpty, C!NoText
<1>5. (IF own.weight = 0 THEN 1 ELSE own.weight) \in Nat \ {0}
  BY <1>1 DEF IsAPI
<1> HIDE DEF api
<1>6. QED BY <1>2, <1>3, <1>4, <1>5 DEF api

LEMMA PrefixOfConcat ==
  ASSUME NEW Part, NEW s \in Seq(Part), NEW t \in Seq(Part)
  PROVE  C!IsPrefix(s, s \o t)
<1>1. SubSeq(s \o t, 1, Len(s)) = s /\ SubSeq(s, 1, Len(s)) = s /\ Len(s) <= Len(s \o t)
  BY SubSeqFull, SubSeqOfConcat1
<1>2. QED BY <1>1 DEF C!IsPrefix

LEMMA SuffixOfConcat ==
  ASSUME NEW Part, NEW s \in Seq(Part), NEW t \in Seq(Part)
  PROVE  C!IsSuffix(t, s \o t)
<1>1. C!Reverse(s) \in Seq(Part) /\ C!Reverse(t) \in Seq(Part)
  BY DEF C!Reverse
<1>2. C!Reverse(s \o t) = C!Reverse(t) \o C!Reverse(s)
  BY DEF C!Reverse
<1>3. QED BY <1>1, <1>2, PrefixOfConcat DEF C!IsSuffix

\* What merging makes of a configuration.
LEMMA MergedConfig ==
  ASSUME NEW Part, NEW config, IsConfig(config, Part), Stops(config) = {}
  PROVE  LET merged == C!mergeAPIsWithCommon(config)
         IN /\ DOMAIN merged = DOMAIN config /\ merged = [k \in DOMAIN merged |-> merged[k]]
            /\ \A k \in DOMAIN config : k # "apis" => merged[k] = config[k]
            /\ merged.apis = [i \in DOMAIN config.apis |-> C!Merged(config.apis[i], config)]
<1>1. config = [k \in DOMAIN config |-> config[k]] /\ "apis" \in DOMAIN config
  BY DefaultFields DEF IsConfig
<1>2. C!mergeAPIsWithCommon(config) = [config EXCEPT !.apis = [i \in DOMAIN @ |-> C!Merged(@[i], config)]]
  BY MergeAll
<1>3. QED BY <1>1, <1>2

\* The URL of an API, its own or made of its parts.
LEMMA URLType ==
  ASSUME NEW Part, NEW config, IsConfig(config, Part), NEW i \in DOMAIN config.apis
  PROVE  /\ URL(config, i) \in Seq(Part)
         /\ LET own == config.apis[i]
            IN /\ own.url # C!NoText => URL(config, i) = own.url
               /\ own.url = C!NoText /\ own.path # C!NoText => C!IsSuffix(own.path, URL(config, i))
               /\ own.url = C!NoText /\ own.host # C!NoText => C!IsPrefix(own.host, URL(config, i))
<1> DEFINE own == config.apis[i]
           host == C!IfEmpty(own.host, config.host)
<1>1. IsAPI(own, Part) /\ config.host \in Seq(Part) /\ config.url \in Seq(Part)
  BY DEF IsConfig
<1>2. own.url \in Seq(Part) /\ own.host \in Seq(Part) /\ own.path \in Seq(Part)
  BY <1>1 DEF IsAPI
<1>3. host \in Seq(Part) /\ host \o own.path \in Seq(Part)
  BY <1>1, <1>2 DEF C!IfEmpty
<1>4. URL(config, i) = C!IfEmpty(own.url, C!IfEmpty(host \o own.path, config.url))
  BY DEF URL, C!buildAPIURL
<1> HIDE DEF own, host
<1>5. URL(config, i) \in Seq(Part) /\ (own.url # C!NoText => URL(config, i) = own.url)
  BY <1>1, <1>2, <1>3, <1>4 DEF C!IfEmpty
<1>6. ASSUME own.url = C!NoText, own.path # C!NoText
      PROVE  C!IsSuffix(own.path, URL(config, i))
  <2>1. URL(config, i) = host \o own.path
    BY <1>2, <1>3, <1>4, <1>6 DEF C!IfEmpty, C!NoText
  <2> QED BY <1>2, <1>3, <2>1, SuffixOfConcat
<1>7. ASSUME own.url = C!NoText, own.host # C!NoText
      PROVE  C!IsPrefix(own.host, URL(config, i))
  <2>1. host = own.host
    BY <1>7 DEF C!IfEmpty, host
  <2>2. own.host \o own.path # << >>
    <3>1. \A s, t \in Seq(Part) : s \o t = << >> <=> s = << >> /\ t = << >>
      BY ConcatEqualIffEmpty
    <3> QED BY <1>2, <1>7, <3>1 DEF C!NoText
  <2>3. URL(config, i) = own.host \o own.path
    BY <1>4, <1>7, <2>1, <2>2 DEF C!IfEmpty, C!NoText
  <2> QED BY <1>2, <2>3, PrefixOfConcat
<1> QED BY <1>5, <1>6, <1>7 DEF own

\* What was merged stays as it is when it is merged again.
LEMMA RemergedConfig ==
  ASSUME NEW Part, NEW config, IsConfig(config, Part), Stops(config) = {}
  PROVE  C!mergeAPIsWithCommon(C!mergeAPIsWithCommon(config)) = C!mergeAPIsWithCommon(config)
<1> DEFINE merged == C!mergeAPIsWithCommon(config)
<1>1. /\ DOMAIN merged = DOMAIN config /\ merged = [k \in DOMAIN merged |-> merged[k]]
      /\ \A k \in DOMAIN config : k # "apis" => merged[k] = config[k]
      /\ merged.apis = [i \in DOMAIN config.apis |-> C!Merged(config.apis[i], config)]
  BY MergedConfig
<1> HIDE DEF merged
<1>2. ASSUME NEW i \in DOMAIN config.apis
      PROVE  /\ URL(merged, i) # C!NoText /\ merged.apis[i].verify # << >>
             /\ C!Merged(merged.apis[i], merged) = merged.apis[i]
  <2> DEFINE own == config.apis[i]
             api == merged.apis[i]
  <2>1. /\ api = [url |-> URL(config, i), host |-> own.host, path |-> own.path,
                  method |-> C!IfEmpty(own.method, C!IfEmpty(config.method, <<"GET">>)),
                  body |-> C!IfEmpty(own.body, config.body),
                  weight |-> IF own.weight = 0 THEN 1 ELSE own.weight,
                  headers |-> C!mergeHeaders(config.headers, own.headers),
                  verify |-> IF own.verify = << >> THEN config.verify ELSE own.verify]
        /\ api.url # C!NoText /\ api.method # C!NoText /\ api.weight \in Nat \ {0} /\ api.verify # << >>
    BY <1>1, MergedAPI
  <2>2. merged.method = config.method /\ merged.body = config.body /\ merged.headers = config.headers
        /\ merged.verify = config.verify
    BY <1>1, DefaultFields DEF IsConfig
  <2> HIDE DEF own, api
  <2>3. URL(merged, i) = api.url
    BY <2>1 DEF URL, C!IfEmpty, api
  <2>4. /\ api.body = C!IfEmpty(own.body, merged.body)
        /\ api.headers = C!mergeHeaders(merged.headers, own.headers)
    BY <2>1, <2>2
  <2>5. C!IfEmpty(api.body, merged.body) = api.body
    BY <2>4 DEF C!IfEmpty
  <2>6. C!mergeHeaders(merged.headers, api.headers) = api.headers
    BY <2>4 DEF C!mergeHeaders, C!Overlay
  <2>7. C!Merged(api, merged) = api
    <3> DEFINE F == {"url", "host", "path", "method", "body", "weight", "headers", "verify"}
    <3>1. api = [k \in F |-> api[k]]
      BY <2>1
    <3> DEFINE again == C!Merged(api, merged)
    <3>2. again = [k \in F |-> again[k]]
      BY <3>1 DEF C!Merged
    <3>3. again.host = api.host /\ again.path = api.path
      BY <3>1 DEF C!Merged
    <3>4. again.url = api.url /\ again.method = api.method /\ again.body = api.body
      BY <2>1, <2>5, <3>1 DEF C!Merged, C!IfEmpty
    <3>5. again.headers = api.headers
      BY <2>6, <3>1 DEF C!Merged
    <3>6. again.verify = api.verify /\ again.weight = api.weight
      BY <2>1, <3>1 DEF C!Merged
    <3>7. \A k \in F : again[k] = api[k]
      BY <3>3, <3>4, <3>5, <3>6
    <3> HIDE DEF F, again
    <3>8. again = api
      BY <3>1, <3>2, <3>7
    <3> QED BY <3>8 DEF again
  <2> QED BY <2>1, <2>3, <2>7 DEF api
<1>3. DOMAIN merged.apis = DOMAIN config.apis
  BY <1>1
<1>4. Stops(merged) = {}
  BY <1>2, <1>3 DEF Stops
<1>5. C!mergeAPIsWithCommon(merged) = [merged EXCEPT !.apis = [i \in DOMAIN @ |-> C!Merged(@[i], merged)]]
  BY <1>4, MergeAll
<1>6. [i \in DOMAIN merged.apis |-> C!Merged(merged.apis[i], merged)] = merged.apis
  BY <1>1, <1>2, <1>3
<1>7. QED BY <1>1, <1>5, <1>6 DEF merged

-----------------------------------------------------------------------------
(* Files, flags and what RunTask makes of them.                            *)

LEMMA FailedAnswers ==
  ASSUME NEW why
  PROVE  ~C!Ok(C!Failed(why)) /\ C!Failed(why).error = why
BY DEF C!Ok, C!Failed

\* A configuration that passes the loader is its merge, with a URL for every API and rules for each.
LEMMA Processed ==
  ASSUME NEW Part, NEW config, IsConfig(config, Part)
  PROVE  LET done == C!processConfig(config)
         IN /\ C!Ok(done) => /\ Stops(config) = {} /\ done = C!mergeAPIsWithCommon(config)
                             /\ C!validate(done) = ""
            /\ ~C!Ok(done) /\ done.error = "panic" => config.verify = C!Null
<1> DEFINE merged == C!mergeAPIsWithCommon(config)
           done == C!processConfig(config)
<1>1. CASE Stops(config) = {}
  <2>1. /\ DOMAIN merged = DOMAIN config
    BY <1>1, MergedConfig
  <2>2. C!Ok(merged)
    BY <2>1, DefaultFields DEF IsConfig, C!Ok
  <2> HIDE DEF merged
  <2>3. done = IF C!validate(merged) # "" THEN C!Failed(C!validate(merged)) ELSE merged
    BY <2>2 DEF C!processConfig, merged
  <2>4. C!validate(merged) # "panic"
    BY DEF C!validate
  <2> HIDE DEF done
  <2>5. CASE C!validate(merged) # ""
    <3>1. done = C!Failed(C!validate(merged))
      BY <2>3, <2>5
    <3> QED BY <2>4, <3>1, FailedAnswers DEF done
  <2>6. CASE C!validate(merged) = ""
    <3>1. done = merged
      BY <2>3, <2>6
    <3> QED BY <1>1, <2>2, <2>6, <3>1 DEF done, merged
  <2> QED BY <2>5, <2>6
<1>2. CASE Stops(config) # {}
  <2>1. Stops(config) \in SUBSET Nat
    BY DEF Stops, IsConfig
  <2>2. C!Min(Stops(config)) \in Stops(config)
    BY <1>2, <2>1, MinIsMember
  <2>3. merged = C!Failed(IF URL(config, C!Min(Stops(config))) = C!NoText THEN "api url" ELSE "panic")
    BY <1>2, MergeAll
  <2>4. done = merged /\ ~C!Ok(done)
    BY <2>3, FailedAnswers DEF C!processConfig
  <2> HIDE DEF merged, done
  <2>5. done.error = IF URL(config, C!Min(Stops(config))) = C!NoText THEN "api url" ELSE "panic"
    BY <2>3, <2>4, FailedAnswers
  <2>6. done.error = "panic" => URL(config, C!Min(Stops(config))) # C!NoText
    BY <2>5
  <2> QED BY <2>2, <2>4, <2>6 DEF Stops, done
<1> QED BY <1>1, <1>2

\* What a run needs of a configuration, of which validateConfig asks the number of requests.
LEMMA LoadedIsRunnable ==
  ASSUME NEW Part, NEW config, IsConfig(config, Part), C!Ok(C!processConfig(config))
  PROVE  LET done == C!processConfig(config)
         IN /\ C!validateConfig(done) = "" => C!Runnable(done)
            /\ C!buildTask(done).duration > 0 /\ C!buildTask(done).totalWorkers > 0
<1> DEFINE done == C!processConfig(config)
<1>1. Stops(config) = {} /\ done = C!mergeAPIsWithCommon(config) /\ C!validate(done) = ""
  BY Processed
<1>2. /\ DOMAIN done = DOMAIN config
      /\ \A k \in DOMAIN config : k # "apis" => done[k] = config[k]
      /\ done.apis = [i \in DOMAIN config.apis |-> C!Merged(config.apis[i], config)]
  BY <1>1, MergedConfig
<1> HIDE DEF done
<1>3. done.concurrency \in Nat /\ done.requests \in Nat /\ done.duration \in Nat
  BY <1>2, DefaultFields DEF IsConfig
<1>4. done.concurrency # 0 /\ ~(done.requests = 0 /\ done.duration = 0)
  BY <1>1 DEF C!validate
<1>5. \A i \in DOMAIN done.apis : /\ done.apis[i].url # C!NoText /\ done.apis[i].method # C!NoText
                                  /\ done.apis[i].weight \in Nat \ {0} /\ done.apis[i].verify # << >>
  <2>1. SUFFICES ASSUME NEW i \in DOMAIN config.apis
                 PROVE  LET api == C!Merged(config.apis[i], config)
                        IN /\ api.url # C!NoText /\ api.method # C!NoText
                           /\ api.weight \in Nat \ {0} /\ api.verify # << >>
    BY <1>2
  <2>2. QED BY <1>1, MergedAPI
<1>6. ASSUME C!validateConfig(done) = "" PROVE C!Runnable(done)
  <2>1. done.requests # 0 /\ ~(done.apis = << >> /\ done.url = C!NoText)
    BY <1>6 DEF C!validateConfig
  <2> QED BY <1>3, <1>4, <1>5, <2>1 DEF C!Runnable
<1>7. C!buildTask(done).duration > 0 /\ C!buildTask(done).totalWorkers > 0
  <2>1. \A a \in Nat, b \in Nat \ {0} : a >= b => a \div b > 0
    OBVIOUS
  <2> DEFINE duration == IF done.duration > 0 \/ done.requests = 0 THEN done.duration
                         ELSE IF done.requests < done.concurrency THEN 60
                         ELSE done.requests \div done.concurrency
  <2>2. duration > 0
    BY <1>3, <1>4, <2>1
  <2> HIDE DEF duration
  <2>3. C!buildTask(done) = [target |-> done.url, totalWorkers |-> done.concurrency, duration |-> duration]
    BY DEF C!buildTask, duration
  <2> QED BY <1>3, <1>4, <2>2, <2>3
<1> QED BY <1>6, <1>7 DEF done

\* A file that loads is the merge of what it sets over the default configuration.
LEMMA LoadedFile ==
  ASSUME NEW Part, NEW file, IsFile(file, Part)
  PROVE  LET config == C!Overlay(file.sets, C!DefaultConfig)
             loaded == C!LoadFromBytes(file)
         IN /\ IsConfig(config, Part)
            /\ C!Ok(loaded) => loaded = C!processConfig(config)
            /\ ~C!Ok(loaded) /\ loaded.error = "panic" =>
                 "verify" \in DOMAIN file.sets /\ file.sets.verify = C!Null
<1> DEFINE config == C!Overlay(file.sets, C!DefaultConfig)
           loaded == C!LoadFromBytes(file)
<1>1. IsConfig(config, Part)
  BY DEF IsFile
<1>2. config.verify = C!Null => "verify" \in DOMAIN file.sets /\ file.sets.verify = C!Null
  BY DEF C!Overlay, C!DefaultConfig, C!Null, C!Status200
<1> HIDE DEF config
<1>3. CASE file.format \notin {"yaml", "yml", "json"}
  <2>1. loaded = C!Failed("format")
    BY <1>3 DEF C!LoadFromBytes
  <2> QED BY <1>1, <2>1, FailedAnswers DEF config
<1>4. CASE file.format \in {"yaml", "yml", "json"} /\ ~file.parses
  <2>1. loaded = C!Failed("parse")
    BY <1>4 DEF C!LoadFromBytes
  <2> QED BY <1>1, <2>1, FailedAnswers DEF config
<1>5. CASE file.format \in {"yaml", "yml", "json"} /\ file.parses
  <2>1. loaded = C!processConfig(config)
    BY <1>5 DEF C!LoadFromBytes, config
  <2>2. ~C!Ok(C!processConfig(config)) /\ C!processConfig(config).error = "panic" => config.verify = C!Null
    BY <1>1, Processed
  <2> QED BY <1>1, <1>2, <2>1, <2>2 DEF config
<1> QED BY <1>3, <1>4, <1>5

\* What a file configures is merged soundly.
LEMMA FilesMerge ==
  ASSUME NEW Part, NEW file, IsFile(file, Part)
  PROVE  C!MergesSoundly(file)
<1> DEFINE config == C!Overlay(file.sets, C!DefaultConfig)
           merged == C!LoadFromBytes(file)
<1>1. IsConfig(config, Part) /\ (C!Ok(merged) => merged = C!processConfig(config))
  BY LoadedFile
<1> HIDE DEF config, merged
<1>2. SUFFICES ASSUME C!Ok(merged)
               PROVE  /\ \A i \in DOMAIN config.apis :
                           LET own == config.apis[i]
                               api == merged.apis[i]
                           IN /\ own.url # C!NoText => api.url = own.url
                              /\ own.url = C!NoText /\ own.path # C!NoText => C!IsSuffix(own.path, api.url)
                              /\ own.url = C!NoText /\ own.host # C!NoText => C!IsPrefix(own.host, api.url)
                              /\ \A k \in DOMAIN own.headers : api.headers[k] = own.headers[k]
                              /\ DOMAIN api.headers = DOMAIN own.headers \cup DOMAIN config.headers
                              /\ own.body # C!NoText => api.body = own.body
                      /\ C!processConfig(merged) = merged
                      /\ C!buildTask(merged).duration > 0 /\ C!buildTask(merged).totalWorkers > 0
  BY DEF C!MergesSoundly, config, merged
<1>3. merged = C!processConfig(config) /\ C!Ok(C!processConfig(config))
  BY <1>1, <1>2
<1>4. Stops(config) = {} /\ merged = C!mergeAPIsWithCommon(config) /\ C!validate(merged) = ""
  BY <1>1, <1>3, Processed
<1>5. merged.apis = [i \in DOMAIN config.apis |-> C!Merged(config.apis[i], config)]
  BY <1>1, <1>4, MergedConfig
<1>6. ASSUME NEW i \in DOMAIN config.apis
      PROVE  LET own == config.apis[i]
                 api == merged.apis[i]
             IN /\ own.url # C!NoText => api.url = own.url
                /\ own.url = C!NoText /\ own.path # C!NoText => C!IsSuffix(own.path, api.url)
                /\ own.url = C!NoText /\ own.host # C!NoText => C!IsPrefix(own.host, api.url)
                /\ \A k \in DOMAIN own.headers : api.headers[k] = own.headers[k]
                /\ DOMAIN api.headers = DOMAIN own.headers \cup DOMAIN config.headers
                /\ own.body # C!NoText => api.body = own.body
  <2> DEFINE own == config.apis[i]
             api == merged.apis[i]
  <2>1. api = C!Merged(own, config)
    BY <1>5
  <2>2. /\ api.url = URL(config, i) /\ api.body = C!IfEmpty(own.body, config.body)
        /\ api.headers = C!mergeHeaders(config.headers, own.headers)
    <3>1. api = [url |-> URL(config, i), host |-> own.host, path |-> own.path,
                 method |-> C!IfEmpty(own.method, C!IfEmpty(config.method, <<"GET">>)),
                 body |-> C!IfEmpty(own.body, config.body),
                 weight |-> IF own.weight = 0 THEN 1 ELSE own.weight,
                 headers |-> C!mergeHeaders(config.headers, own.headers),
                 verify |-> IF own.verify = << >> THEN config.verify ELSE own.verify]
      BY <1>1, <1>4, <2>1, MergedAPI
    <3> HIDE DEF api
    <3> QED BY <3>1
  <2>3. /\ own.url # C!NoText => URL(config, i) = own.url
        /\ own.url = C!NoText /\ own.path # C!NoText => C!IsSuffix(own.path, URL(config, i))
        /\ own.url = C!NoText /\ own.host # C!NoText => C!IsPrefix(own.host, URL(config, i))
    BY <1>1, URLType
  <2> HIDE DEF own, api
  <2>4. own.body # C!NoText => api.body = own.body
    BY <2>2 DEF C!IfEmpty
  <2>5. /\ \A k \in DOMAIN own.headers : api.headers[k] = own.headers[k]
        /\ DOMAIN api.headers = DOMAIN own.headers \cup DOMAIN config.headers
    BY <2>2 DEF C!mergeHeaders, C!Overlay
  <2> QED BY <2>2, <2>3, <2>4, <2>5 DEF own, api
<1>7. C!processConfig(merged) = merged
  <2>1. C!mergeAPIsWithCommon(merged) = merged
    BY <1>1, <1>4, RemergedConfig
  <2> QED BY <1>2, <1>4, <2>1 DEF C!processConfig
<1>8. C!buildTask(merged).duration > 0 /\ C!buildTask(merged).totalWorkers > 0
  BY <1>1, <1>3, LoadedIsRunnable
<1> QED BY <1>6, <1>7, <1>8

\* A curl command and the flags make configurations without APIs.
LEMMA CurlConfig ==
  ASSUME NEW lines
  PROVE  LET parsed == C!NewCurlParser(lines)
         IN \/ parsed = C!Failed("url")
            \/ /\ DOMAIN parsed = DOMAIN C!DefaultConfig /\ parsed = [k \in DOMAIN parsed |-> parsed[k]]
               /\ parsed.apis = << >> /\ parsed.concurrency = 0 /\ parsed.requests = 0 /\ parsed.timeout = 0
<1> DEFINE words == C!normalizeCommand(lines)
           url == words[C!Min(C!URLIndexes(words))].text
           protocol == IF Head(url) \in {"ws://", "wss://"} THEN "websocket" ELSE "http"
           parsed == C!NewCurlParser(lines)
<1>1. parsed = IF C!URLIndexes(words) = {} THEN C!Failed("url")
               ELSE [C!DefaultConfig EXCEPT
                       !.url = url, !.headers = C!parseHeaders(words), !.method = C!parseMethod(words),
                       !.body = C!parseBody(words), !.protocol = protocol, !.concurrency = 0, !.requests = 0,
                       !.timeout = 0, !.verify = C!Null, !.grpc = C!Null]
  BY DEF C!NewCurlParser
<1> HIDE DEF words, url, protocol, parsed
<1>2. CASE C!URLIndexes(words) = {}
  BY <1>1, <1>2 DEF parsed
<1>3. CASE C!URLIndexes(words) # {}
  <2>1. /\ DOMAIN parsed = DOMAIN C!DefaultConfig /\ parsed = [k \in DOMAIN parsed |-> parsed[k]]
        /\ parsed.apis = << >> /\ parsed.concurrency = 0 /\ parsed.requests = 0 /\ parsed.timeout = 0
    BY <1>1, <1>3, DefaultFields
  <2> QED BY <2>1 DEF parsed
<1> QED BY <1>2, <1>3

\* The configuration of a command under the flags.
Overridden(parsed, flags) ==
  [parsed EXCEPT !.concurrency = IF flags.concurrency > 0 THEN flags.concurrency ELSE @,
                 !.requests = IF flags.requests > 0 THEN flags.requests ELSE @,
                 !.timeout = IF flags.timeout > 0 THEN flags.timeout ELSE @]

\* What RunTask loads from any source.
LEMMA LoadedConfig ==
  ASSUME NEW Part, NEW source, IsSource(source, Part)
  PROVE  LET config == C!loadConfig(source)
         IN /\ C!Ok(config) /\ C!validateConfig(config) = "" => C!Runnable(config)
            /\ ~C!Ok(config) /\ config.error = "panic" =>
                 /\ source.file # C!Null
                 /\ "verify" \in DOMAIN source.file.sets /\ source.file.sets.verify = C!Null
<1> DEFINE config == C!loadConfig(source)
<1>1. source.flags.concurrency \in Nat /\ source.flags.requests \in Nat
  BY DEF IsSource
<1>2. ASSUME C!Ok(config), config.apis = << >>, config.concurrency \in Nat, config.requests \in Nat,
             C!validateConfig(config) = ""
      PROVE  C!Runnable(config)
  BY <1>2 DEF C!validateConfig, C!Runnable
<1>3. CASE source.curl # C!Null
  <2> DEFINE parsed == C!NewCurlParser(source.curl)
  <2>1. config = IF ~C!Ok(parsed) THEN parsed ELSE Overridden(parsed, source.flags)
    BY <1>3 DEF C!loadConfig, Overridden
  <2>2. CASE parsed = C!Failed("url")
    <3>1. config = C!Failed("url")
      BY <2>1, <2>2, FailedAnswers
    <3> QED BY <3>1, FailedAnswers
  <2>3. CASE parsed # C!Failed("url")
    <3>1. /\ DOMAIN parsed = DOMAIN C!DefaultConfig /\ parsed = [k \in DOMAIN parsed |-> parsed[k]]
          /\ parsed.apis = << >> /\ parsed.concurrency = 0 /\ parsed.requests = 0
      BY <2>3, CurlConfig
    <3> HIDE DEF parsed
    <3>2. C!Ok(parsed)
      BY <3>1, DefaultFields DEF C!Ok
    <3>3. /\ DOMAIN config = DOMAIN parsed /\ config.apis = << >>
          /\ config.concurrency \in Nat /\ config.requests \in Nat
      BY <1>1, <2>1, <3>1, <3>2, DefaultFields DEF Overridden
    <3>4. C!Ok(config)
      BY <3>1, <3>3, DefaultFields DEF C!Ok
    <3> QED BY <1>2, <3>3, <3>4
  <2> QED BY <2>2, <2>3
<1>4. CASE source.curl = C!Null /\ source.file # C!Null
  <2>1. config = C!LoadFromBytes(source.file) /\ IsFile(source.file, Part)
    BY <1>4 DEF C!loadConfig, IsSource
  <2> DEFINE set == C!Overlay(source.file.sets, C!DefaultConfig)
  <2>2. /\ IsConfig(set, Part)
        /\ C!Ok(config) => config = C!processConfig(set)
        /\ ~C!Ok(config) /\ config.error = "panic" =>
             "verify" \in DOMAIN source.file.sets /\ source.file.sets.verify = C!Null
    BY <2>1, LoadedFile
  <2> HIDE DEF config, set
  <2>3. C!Ok(config) /\ C!validateConfig(config) = "" => C!Runnable(config)
    BY <2>2, LoadedIsRunnable
  <2> QED BY <1>4, <2>2, <2>3 DEF config
<1>5. CASE source.curl = C!Null /\ source.file = C!Null
  <2>1. config = C!buildConfigFromFlags(source.flags)
    BY <1>5 DEF C!loadConfig
  <2>2. /\ DOMAIN config = DOMAIN C!DefaultConfig /\ config.apis = << >>
        /\ config.concurrency = source.flags.concurrency /\ config.requests = source.flags.requests
    BY <2>1 DEF C!buildConfigFromFlags, C!DefaultConfig
  <2> HIDE DEF config
  <2>3. C!Ok(config)
    BY <2>2, DefaultFields DEF C!Ok
  <2> QED BY <1>1, <1>2, <2>2, <2>3 DEF config
<1> QED BY <1>3, <1>4, <1>5

\* What RunTask runs.
LEMMA RunsSoundly ==
  ASSUME NEW Part, NEW source, IsSource(source, Part)
  PROVE  LET run == C!RunConfig(source)
         IN /\ C!Ok(run) => C!Runnable(run)
            /\ ~C!Ok(run) /\ run.error = "panic" =>
                 /\ source.file # C!Null
                 /\ "verify" \in DOMAIN source.file.sets /\ source.file.sets.verify = C!Null
<1> DEFINE config == C!loadConfig(source)
           run == C!RunConfig(source)
<1>1. /\ C!Ok(config) /\ C!validateConfig(config) = "" => C!Runnable(config)
      /\ ~C!Ok(config) /\ config.error = "panic" =>
           source.file # C!Null /\ "verify" \in DOMAIN source.file.sets /\ source.file.sets.verify = C!Null
  BY LoadedConfig
<1> HIDE DEF config
<1>2. run = IF ~C!Ok(config) THEN config
            ELSE IF C!validateConfig(config) # "" THEN C!Failed(C!validateConfig(config))
            ELSE IF ~C!prepareStoragePath(source.flags.storage) THEN C!Failed("storage") ELSE config
  BY DEF C!RunConfig, config
<1> HIDE DEF run
<1>3. C!validateConfig(config) # "panic"
  BY DEF C!validateConfig
<1>4. CASE ~C!Ok(config)
  BY <1>1, <1>2, <1>4 DEF run
<1>5. CASE C!Ok(config) /\ C!validateConfig(config) # ""
  <2>1. run = C!Failed(C!validateConfig(config))
    BY <1>2, <1>5
  <2> QED BY <1>3, <2>1, FailedAnswers DEF run
<1>6. CASE C!Ok(config) /\ C!validateConfig(config) = "" /\ ~C!prepareStoragePath(source.flags.storage)
  <2>1. run = C!Failed("storage")
    BY <1>2, <1>6
  <2> QED BY <2>1, FailedAnswers DEF run
<1>7. CASE C!Ok(config) /\ C!validateConfig(config) = "" /\ C!prepareStoragePath(source.flags.storage)
  BY <1>1, <1>2, <1>7 DEF run
<1> QED BY <1>4, <1>5, <1>6, <1>7

-----------------------------------------------------------------------------
(* Commands, as curl reads them.                                           *)

\* The sequence of some sequences, in one.
LEMMA FlattenType ==
  ASSUME NEW S, NEW seqs \in Seq(Seq(S))
  PROVE  C!FlattenSeq(seqs) \in Seq(S)
<1> DEFINE n == Len(seqs)
           Flat(f, m) == [i \in 1 .. m |-> IF i = 1 THEN seqs[i] ELSE f[i - 1] \o seqs[i]]
           Bad == {m \in 1 .. n : \A f : f # Flat(f, m)}
           flatten == CHOOSE f : f = Flat(f, n)
           Untyped == {i \in 1 .. n : flatten[i] \notin Seq(S)}
<1>1. n \in Nat /\ \A i \in 1 .. n : seqs[i] \in Seq(S)
  OBVIOUS
<1>2. CASE n = 0
  <2>1. C!FlattenSeq(seqs) = seqs /\ seqs = << >>
    BY <1>2 DEF C!FlattenSeq
  <2> QED BY <2>1
<1>3. CASE n # 0
  <2>1. Bad = {}
    <3>1. SUFFICES ASSUME Bad # {} PROVE FALSE
      OBVIOUS
    <3>2. Bad \in SUBSET Nat
      <4> HIDE DEF Flat
      <4>1. \A m \in Bad : m \in 1 .. n
        OBVIOUS
      <4> HIDE DEF Bad
      <4> QED BY <1>1, <4>1
    <3> HIDE DEF Bad
    <3>3. PICK m \in Bad : \A k \in Bad : m <= k
      BY <3>1, <3>2, NatLeast
    <3>4. m \in 1 .. n /\ \A f : f # Flat(f, m)
      BY <3>3 DEF Bad
    <3>5. CASE m = 1
      <4>1. [i \in 1 .. m |-> seqs[i]] = Flat([i \in 1 .. m |-> seqs[i]], m)
        BY <3>5
      <4> QED BY <3>4, <4>1
    <3>6. CASE m # 1
      <4>1. m - 1 \in 1 .. n /\ m - 1 \notin Bad
        BY <1>1, <3>2, <3>3, <3>4, <3>6
      <4>2. PICK g : g = Flat(g, m - 1)
        BY <4>1 DEF Bad
      <4> DEFINE f == [i \in 1 .. m |-> IF i = m THEN g[m - 1] \o seqs[m] ELSE g[i]]
      <4>3. \A i \in 1 .. m : f[i] = IF i = 1 THEN seqs[i] ELSE f[i - 1] \o seqs[i]
        <5>1. SUFFICES ASSUME NEW i \in 1 .. m PROVE f[i] = IF i = 1 THEN seqs[i] ELSE f[i - 1] \o seqs[i]
          OBVIOUS
        <5>2. CASE i = m
          <6>1. i # 1 /\ i - 1 \in 1 .. m /\ i - 1 # m
            BY <3>4, <3>6, <5>2
          <6> QED BY <5>2, <6>1
        <5>3. CASE i # m /\ i # 1
          <6>1. i \in 1 .. m - 1 /\ i - 1 \in 1 .. m /\ i - 1 # m
            BY <3>4, <5>3
          <6>2. g[i] = g[i - 1] \o seqs[i]
            BY <4>2, <5>3, <6>1
          <6> QED BY <5>3, <6>1, <6>2
        <5>4. CASE i # m /\ i = 1
          <6>1. i \in 1 .. m - 1
            BY <3>4, <5>4
          <6>2. g[i] = seqs[i]
            BY <4>2, <5>4, <6>1
          <6> QED BY <5>4, <6>2
        <5> QED BY <5>2, <5>3, <5>4
      <4>4. f = [i \in 1 .. m |-> f[i]]
        OBVIOUS
      <4> HIDE DEF f
      <4>5. f = Flat(f, m)
        BY <4>3, <4>4
      <4> QED BY <3>4, <4>5
    <3> QED BY <3>5, <3>6
  <2>2. PICK f : f = Flat(f, n)
    <3>1. n \in 1 .. n
      BY <1>1, <1>3
    <3>2. ~\A f : f # Flat(f, n)
      BY <2>1, <3>1
    <3> QED BY <3>2
  <2>3. flatten = Flat(flatten, n)
    BY <2>2
  <2>4. C!FlattenSeq(seqs) = flatten[n]
    BY <1>3 DEF C!FlattenSeq
  <2> HIDE DEF flatten
  <2>5. Untyped = {}
    <3>1. SUFFICES ASSUME Untyped # {} PROVE FALSE
      OBVIOUS
    <3>2. Untyped \in SUBSET Nat
      OBVIOUS
    <3> HIDE DEF Untyped
    <3>3. PICK m \in Untyped : \A k \in Untyped : m <= k
      BY <3>1, <3>2, NatLeast
    <3>4. m \in 1 .. n /\ flatten[m] \notin Seq(S)
      BY <3>3 DEF Untyped
    <3>5. CASE m = 1
      BY <1>1, <2>3, <3>4, <3>5
    <3>6. CASE m # 1
      <4>1. m - 1 \in 1 .. n /\ m - 1 \notin Untyped
        BY <1>1, <3>2, <3>3, <3>4, <3>6
      <4>2. flatten[m - 1] \in Seq(S) /\ seqs[m] \in Seq(S)
        BY <1>1, <3>4, <4>1 DEF Untyped
      <4>3. flatten[m] = flatten[m - 1] \o seqs[m]
        BY <2>3, <3>4, <3>6
      <4> QED BY <3>4, <4>2, <4>3
    <3> QED BY <3>5, <3>6
  <2>6. flatten[n] \in Seq(S)
    BY <1>1, <1>3, <2>5
  <2> QED BY <2>4, <2>6
<1> QED BY <1>2, <1>3

LEMMA CommandWords ==
  ASSUME NEW Part, NEW lines, IsCommand(lines, Part)
  PROVE  C!normalizeCommand(lines) \in Seq(WordsOf(Part))
<1> DEFINE each == [i \in DOMAIN lines |-> lines[i].words]
           words == C!FlattenSeq(each)
<1>1. each \in Seq(Seq(WordsOf(Part)))
  BY DEF IsCommand
<1>2. words \in Seq(WordsOf(Part))
  BY <1>1, FlattenType
<1>3. C!normalizeCommand(lines) = IF C!detectCurlStyle(lines) = "unix" THEN words
        ELSE [i \in DOMAIN words |-> [words[i] EXCEPT !.quote = IF @ = "^" THEN "double" ELSE @]]
  BY DEF C!normalizeCommand
<1> HIDE DEF words
<1>4. \A w \in WordsOf(Part) : [w EXCEPT !.quote = IF @ = "^" THEN "double" ELSE @] \in WordsOf(Part)
  BY DEF WordsOf
<1>5. [i \in DOMAIN words |-> [words[i] EXCEPT !.quote = IF @ = "^" THEN "double" ELSE @]]
        \in Seq(WordsOf(Part))
  BY <1>2, <1>4
<1> QED BY <1>2, <1>3, <1>5

LEMMA MinOfOne ==
  ASSUME NEW T \in SUBSET Nat, NEW i \in T, \A j \in T : j = i
  PROVE  C!Min(T) = i
BY MinIsMember

\* A list of words.
AreWords(words, Part) ==
  /\ Len(words) \in Nat /\ DOMAIN words = 1 .. Len(words)
  /\ \A i \in DOMAIN words : /\ words[i].quote \in {"none", "single", "double", "^"}
                             /\ words[i].text \in Seq(Part) /\ Len(words[i].text) \in Nat \ {0}

LEMMA WordsAreWords ==
  ASSUME NEW Part, NEW words \in Seq(WordsOf(Part))
  PROVE  AreWords(words, Part)
<1>1. \A text \in Seq(Part) \ {<< >>} : Len(text) \in Nat \ {0}
  BY EmptySeq
<1>2. ASSUME NEW w \in WordsOf(Part)
      PROVE  /\ w.quote \in {"none", "single", "double", "^"}
             /\ w.text \in Seq(Part) /\ Len(w.text) \in Nat \ {0}
  <2>1. w.quote \in {"none", "single", "double", "^"} /\ w.text \in Seq(Part) \ {<< >>}
    BY DEF WordsOf
  <2> QED BY <1>1, <2>1
<1>3. /\ Len(words) \in Nat /\ DOMAIN words = 1 .. Len(words)
      /\ \A i \in DOMAIN words : words[i] \in WordsOf(Part)
  OBVIOUS
<1> QED BY <1>2, <1>3 DEF AreWords

LEMMA WordShape ==
  ASSUME NEW Part, NEW words, AreWords(words, Part), NEW i \in 1 .. Len(words)
  PROVE  /\ words[i].quote \in {"none", "single", "double", "^"}
         /\ words[i].text \in Seq(Part) /\ Len(words[i].text) \in Nat \ {0}
         /\ i \in DOMAIN words /\ Len(words) \in Nat
BY DEF AreWords

LEMMA AfterIs ==
  ASSUME NEW words, NEW option, NEW i
  PROVE  i \in C!After(words, option) <=> /\ i \in 2 .. Len(words)
                                          /\ words[i - 1].quote = "none" /\ words[i - 1].text = <<option>>
BY DEF C!After

LEMMA OneText ==
  ASSUME NEW Part, NEW text \in Seq(Part), Len(text) = 1
  PROVE  text = <<Head(text)>>
OBVIOUS

\* The words after the options that take values.
LEMMA ValuesAre ==
  ASSUME NEW words, NEW Os, NEW i
  PROVE  i \in C!Values(words, Os) <=> \E o \in Os : i \in C!After(words, o)
BY DEF C!Values

\* An option of a simple command that takes a value, and the value.
LEMMA SimpleValues ==
  ASSUME NEW Part, NEW words, AreWords(words, Part), C!Simple(words), NEW i \in 1 .. Len(words),
         NEW o \in C!DataOptions \cup C!MethodOptions \cup C!HeaderOptions,
         words[i].quote = "none", Head(words[i].text) = o
  PROVE  /\ words[i].text = <<o>> /\ i + 1 \in C!After(words, o)
         /\ o \notin {"-X", "--request"} => C!Quoted(words[i + 1])
<1>1. C!IsOption(words[i]) /\ o \notin {"-k", "--insecure", "--compressed"} /\ o # "--url"
  BY DEF C!IsOption, C!Options, C!DataOptions, C!MethodOptions, C!HeaderOptions
<1>2. /\ Len(words[i].text) = 1 /\ i < Len(words)
      /\ C!Quoted(words[i + 1]) \/ o \in {"-X", "--request", "--url"}
  BY <1>1, WordShape DEF C!Simple
<1>3. words[i].text \in Seq(Part) /\ Len(words) \in Nat
  BY WordShape
<1>4. words[i].text = <<o>>
  BY <1>2, <1>3, OneText
<1>5. i + 1 \in 2 .. Len(words) /\ (i + 1) - 1 = i
  BY <1>2, <1>3
<1>6. i + 1 \in C!After(words, o)
  BY <1>4, <1>5, AfterIs
<1> QED BY <1>1, <1>2, <1>4, <1>6

LEMMA ValuesAreIndexes ==
  ASSUME NEW words, Len(words) \in Nat, NEW Os
  PROVE  C!Values(words, Os) \in SUBSET Nat
<1>1. ASSUME NEW i \in C!Values(words, Os) PROVE i \in Nat
  BY ValuesAre, AfterIs
<1> QED BY <1>1

\* Where an option's name occurs.
LEMMA MentionedAlone ==
  ASSUME NEW word, NEW name, word.quote = "none", word.text = <<name>>
  PROVE  C!Mentions(word, name)
BY DEF C!Mentions

LEMMA MentionedInside ==
  ASSUME NEW word, word.quote = "none", word.text[1] \in {"--data-raw", "--data-binary"}
  PROVE  C!Mentions(word, "--data")
BY DEF C!Mentions

LEMMA MentionsIs ==
  ASSUME NEW word, NEW name, C!Mentions(word, name), word.holds = {}
  PROVE  /\ word.quote = "none"
         /\ word.text = <<name>> \/ word.text[1] \in {"--data-raw", "--data-binary", "--data"}
BY DEF C!Mentions

\* A method in capitals is taken as it is.
LEMMA CapitalsStay ==
  ASSUME NEW Part, NEW text \in Seq(Part), \A k \in DOMAIN text : text[k] \notin DOMAIN C!Capitals
  PROVE  C!ToUpper(text) = text /\ C!LeadingCapitals(text) = text
<1>1. C!ToUpper(text) = text
  <2>1. C!ToUpper(text) = [i \in DOMAIN text |-> IF text[i] \in DOMAIN C!Capitals THEN C!Capitals[text[i]] ELSE text[i]]
    BY DEF C!ToUpper, C!Translate
  <2> HIDE DEF C!Capitals
  <2> QED BY <2>1
<1>2. {i \in DOMAIN text : text[i] \in DOMAIN C!Capitals} = {}
  OBVIOUS
<1> QED BY <1>1, <1>2 DEF C!LeadingCapitals

\* The method a simple command gives is the one that is found.
LEMMA MethodGiven ==
  ASSUME NEW Part, NEW words, AreWords(words, Part), C!Simple(words),
         NEW i \in C!Values(words, C!MethodOptions)
  PROVE  C!Method(words[i]) = words[i].text /\ words[i].text # C!NoText
<1>1. PICK o \in C!MethodOptions : i \in C!After(words, o)
  BY ValuesAre
<1>2. /\ Len(words) \in Nat /\ i \in 2 .. Len(words)
      /\ words[i - 1].quote = "none" /\ words[i - 1].text = <<o>>
  BY <1>1, AfterIs DEF AreWords
<1>3. i \in 1 .. Len(words) /\ i - 1 \in 1 .. Len(words) /\ (i - 1) + 1 = i
  BY <1>2
<1>4. words[i].text \in Seq(Part) /\ Len(words[i].text) \in Nat \ {0}
  BY <1>3, WordShape
<1>5. \A k \in DOMAIN words[i].text : words[i].text[k] \notin DOMAIN C!Capitals
  BY DEF C!Simple
<1>6. C!ToUpper(words[i].text) = words[i].text /\ C!LeadingCapitals(words[i].text) = words[i].text
  BY <1>4, <1>5, CapitalsStay
<1>7. C!IsOption(words[i - 1]) /\ Head(words[i - 1].text) \notin {"-k", "--insecure", "--compressed"}
  BY <1>2 DEF C!IsOption, C!Options, C!MethodOptions
<1>8. C!Quoted(words[i]) \/ ~C!IsOption(words[i])
  BY <1>3, <1>7, WordShape DEF C!Simple
<1>9. C!Quoted(words[i]) \/ words[i].quote = "none"
  <2>1. words[i].quote # "^"
    BY <1>3, WordShape DEF C!Simple
  <2> QED BY <1>3, <2>1, WordShape DEF C!Quoted
<1>10. words[i].text # C!NoText
  BY <1>4 DEF C!NoText
<1> QED BY <1>6, <1>8, <1>9, <1>10 DEF C!Method

LEMMA ReadsMethod ==
  ASSUME NEW Part, NEW words, AreWords(words, Part), C!Simple(words)
  PROVE  C!parseMethod(words) = C!Curl(words).method
<1> DEFINE M == C!Values(words, C!MethodOptions)
           D == C!Values(words, C!DataOptions)
           X == C!After(words, "-X")
           R == C!After(words, "--request")
           found == {i \in X \cup R : C!Method(words[i]) # C!NoText}
           Pattern(i) == (IF i \in X THEN 0 ELSE 3)
                           + CASE words[i].quote = "single" -> 0 [] words[i].quote = "double" -> 1 [] OTHER -> 2
           first == CHOOSE i \in found :
                      \A j \in found : Pattern(i) < Pattern(j) \/ (Pattern(i) = Pattern(j) /\ i <= j)
           Mentioned == \E i \in 1 .. Len(words) : C!Mentions(words[i], "--data")
<1>1. Len(words) \in Nat /\ DOMAIN words = 1 .. Len(words)
  BY DEF AreWords
<1>2. M = X \cup R
  BY DEF C!Values, C!MethodOptions
<1>3. \A i, j \in M : i = j
  BY DEF C!Simple
<1>4. found = M
  BY <1>2, MethodGiven
<1>5. ASSUME M = {} PROVE Mentioned <=> D # {}
  <2>1. ASSUME NEW i \in 1 .. Len(words), C!Mentions(words[i], "--data") PROVE D # {}
    <3>1. words[i].holds = {}
      BY WordShape DEF C!Simple
    <3>2. /\ words[i].quote = "none"
          /\ words[i].text = <<"--data">> \/ words[i].text[1] \in {"--data-raw", "--data-binary"}
      BY <2>1, <3>1 DEF C!Mentions
    <3>3. words[i].text \in Seq(Part) /\ Len(words[i].text) \in Nat \ {0}
      BY WordShape
    <3>4. Head(words[i].text) \in {"--data", "--data-raw", "--data-binary"}
      BY <3>2, <3>3
    <3>5. PICK o \in C!DataOptions : Head(words[i].text) = o
      BY <3>4 DEF C!DataOptions
    <3>6. i + 1 \in C!After(words, o)
      BY <3>2, <3>5, SimpleValues
    <3> QED BY <3>6, ValuesAre
  <2>2. ASSUME D # {} PROVE Mentioned
    <3>1. PICK i \in D : TRUE
      BY <2>2
    <3>2. PICK o \in C!DataOptions : i \in C!After(words, o)
      BY ValuesAre
    <3>3. o # "-d"
      BY <1>5, <3>2 DEF C!Simple
    <3>4. i - 1 \in 1 .. Len(words) /\ words[i - 1].quote = "none" /\ words[i - 1].text = <<o>>
      BY <1>1, <3>2, AfterIs
    <3>5. o \in {"--data", "--data-raw", "--data-binary"}
      BY <3>3 DEF C!DataOptions
    <3>6. words[i - 1].text[1] = o
      BY <3>4
    <3>7. C!Mentions(words[i - 1], "--data")
      <4>1. CASE o = "--data"
        BY <3>4, <4>1, MentionedAlone
      <4>2. CASE o \in {"--data-raw", "--data-binary"}
        BY <3>4, <3>6, <4>2, MentionedInside
      <4> QED BY <3>5, <4>1, <4>2
    <3> QED BY <3>4, <3>7
  <2> QED BY <2>1, <2>2
<1>6. C!parseMethod(words) = IF found # {} THEN C!Method(words[first])
                             ELSE IF Mentioned THEN <<"POST">> ELSE <<"GET">>
  BY <1>1 DEF C!parseMethod
<1>7. C!Curl(words).method = IF M # {} THEN words[C!Min(M)].text ELSE IF D # {} THEN <<"POST">> ELSE <<"GET">>
  BY DEF C!Curl
<1>8. ASSUME NEW i \in M PROVE first = i /\ C!Min(M) = i /\ C!Method(words[i]) = words[i].text
  <2>1. M \in SUBSET Nat
    BY <1>1, ValuesAreIndexes
  <2>2. \A j \in found : j = i
    BY <1>3, <1>4
  <2>3. i \in found /\ i <= i /\ Pattern(i) = Pattern(i)
    BY <1>4, <2>1
  <2> HIDE DEF M, found, Pattern
  <2>4. first = i
    BY <2>2, <2>3
  <2>5. C!Min(M) = i
    BY <1>3, <2>1, MinOfOne
  <2> QED BY <2>4, <2>5, MethodGiven DEF M
<1> HIDE DEF M, D, X, R, Mentioned, found, first
<1>9. CASE M = {}
  BY <1>4, <1>5, <1>6, <1>7, <1>9
<1>10. CASE M # {}
  BY <1>4, <1>6, <1>7, <1>8, <1>10
<1> QED BY <1>9, <1>10

LEMMA ReadsURL ==
  ASSUME NEW Part, NEW words, AreWords(words, Part), C!Simple(words), C!URLIndexes(words) # {}
  PROVE  words[C!Min(C!URLIndexes(words))].text = C!Curl(words).url
<1> DEFINE first == {i \in C!After(words, "curl") : ~C!IsOption(words[i])}
           fits == {i \in C!After(words, "curl") : C!Quoted(words[i]) \/ ~C!IsOption(words[i])}
           named == C!After(words, "--url")
           named_fits == {i \in named : C!Quoted(words[i]) \/ ~C!IsOption(words[i])}
<1>1. first = fits
  BY DEF C!Quoted, C!IsOption
<1>2. ASSUME NEW i \in named PROVE C!Quoted(words[i]) \/ ~C!IsOption(words[i])
  <2>1. /\ i \in 2 .. Len(words) /\ Len(words) \in Nat
        /\ words[i - 1].quote = "none" /\ words[i - 1].text = <<"--url">>
    BY <1>2, AfterIs DEF AreWords
  <2>2. i - 1 \in 1 .. Len(words) /\ (i - 1) + 1 = i
    BY <2>1 DEF AreWords
  <2>3. Head(words[i - 1].text) = "--url" /\ C!IsOption(words[i - 1])
    BY <2>1 DEF C!IsOption, C!Options
  <2> QED BY <2>2, <2>3, WordShape DEF C!Simple
<1>3. named = named_fits
  BY <1>2
<1>4. C!URLIndexes(words) = IF first # {} THEN first ELSE named
  BY <1>1, <1>3 DEF C!URLIndexes
<1>5. C!Curl(words).url = LET indexes == IF first # {} THEN first ELSE named
                          IN IF indexes = {} THEN C!NoText ELSE words[C!Min(indexes)].text
  BY DEF C!Curl
<1> HIDE DEF first, named
<1> QED BY <1>4, <1>5

LEMMA ReadsHeaders ==
  ASSUME NEW Part, NEW words, AreWords(words, Part), C!Simple(words)
  PROVE  C!parseHeaders(words) = C!Curl(words).headers
<1> DEFINE all == C!Values(words, C!HeaderOptions)
           named == C!After(words, "-H") \cup C!After(words, "--header")
           found == {i \in named : C!Quoted(words[i]) /\ Len(words[i].text) = 2}
           Key(i) == words[i].text[1]
           Pattern(i) == (IF i \in C!After(words, "-H") THEN 0 ELSE 2)
                           + IF words[i].quote = "single" THEN 0 ELSE 1
           Latest(key) == CHOOSE i \in found : /\ Key(i) = key
                                               /\ \A j \in found : Key(j) = key /\ j # i =>
                                                    \/ Pattern(j) < Pattern(i)
                                                    \/ Pattern(j) = Pattern(i) /\ j < i
           Header(key) == CHOOSE i \in all : words[i].text[1] = key
<1>1. all = named
  BY DEF C!Values, C!HeaderOptions
<1>2. ASSUME NEW i \in named PROVE C!Quoted(words[i]) /\ Len(words[i].text) = 2
  <2>1. PICK o \in C!HeaderOptions : i \in C!After(words, o)
    BY <1>2 DEF C!HeaderOptions
  <2>2. /\ i - 1 \in 1 .. Len(words) /\ (i - 1) + 1 = i
        /\ words[i - 1].quote = "none" /\ words[i - 1].text = <<o>>
    BY <2>1, AfterIs DEF AreWords
  <2>3. Head(words[i - 1].text) = o /\ o \notin {"-X", "--request"}
    BY <2>2 DEF C!HeaderOptions
  <2>4. C!Quoted(words[i])
    BY <2>2, <2>3, SimpleValues
  <2> QED BY <1>1, <2>4 DEF C!Simple
<1>3. found = all
  BY <1>1, <1>2
<1>4. \A i, j \in all : Key(i) = Key(j) => i = j
  BY DEF C!Simple
<1>5. ASSUME NEW i \in all PROVE Latest(Key(i)) = i /\ Header(Key(i)) = i
  <2> HIDE DEF found, all, Pattern
  <2>1. i \in found /\ \A j \in found : Key(j) = Key(i) => j = i
    BY <1>3, <1>4
  <2>2. Latest(Key(i)) = i
    BY <2>1
  <2>3. Header(Key(i)) = i
    BY <1>4
  <2> QED BY <2>2, <2>3
<1>6. C!parseHeaders(words) = [key \in {Key(i) : i \in found} |-> <<words[Latest(key)].text[2]>>]
  BY DEF C!parseHeaders
<1>7. C!Curl(words).headers = [key \in {Key(i) : i \in all} |-> <<words[Header(key)].text[2]>>]
  BY DEF C!Curl
<1> HIDE DEF found, all, Pattern, Latest, Header, Key
<1>8. \A key \in {Key(i) : i \in all} : Latest(key) = Header(key)
  BY <1>5
<1> QED BY <1>3, <1>6, <1>7, <1>8

\* What the shell makes of a quoted word.
Unquoted(word) == IF word.quote = "double" THEN C!Translate(word.text, C!QuoteEscapes) ELSE word.text

\* Escapes of quotes and backslashes are read as the shell reads them.
LEMMA ContentIs ==
  ASSUME NEW Part, NEW word, C!Quoted(word), word.text \in Seq(Part),
         \A k \in DOMAIN word.text : word.text[k] \notin DOMAIN C!ControlEscapes
  PROVE  C!extractQuotedContent(word) = Unquoted(word)
<1> DEFINE table == C!Overlay(C!QuoteEscapes, C!ControlEscapes)
           text == word.text
<1>1. \A part : part \notin DOMAIN C!ControlEscapes =>
        /\ part \in DOMAIN table <=> part \in DOMAIN C!QuoteEscapes
        /\ part \in DOMAIN C!QuoteEscapes => table[part] = C!QuoteEscapes[part]
  <2> HIDE DEF C!QuoteEscapes, C!ControlEscapes
  <2> QED BY DEF C!Overlay
<1>2. C!unescapeJSON(text) = [i \in DOMAIN text |-> IF text[i] \in DOMAIN table THEN table[text[i]] ELSE text[i]]
  BY DEF C!unescapeJSON, C!Translate
<1>3. C!Translate(text, C!QuoteEscapes)
        = [i \in DOMAIN text |-> IF text[i] \in DOMAIN C!QuoteEscapes THEN C!QuoteEscapes[text[i]] ELSE text[i]]
  BY DEF C!Translate
<1> HIDE DEF table
<1>4. C!unescapeJSON(text) = C!Translate(text, C!QuoteEscapes)
  BY <1>1, <1>2, <1>3
<1> QED BY <1>4 DEF C!extractQuotedContent, C!Quoted, Unquoted

LEMMA UnquotedText ==
  ASSUME NEW Part, NEW word, word.text \in Seq(Part)
  PROVE  \E Texts : Unquoted(word) \in Seq(Texts)
<1> DEFINE table == C!QuoteEscapes
           Texts == Part \cup {table[part] : part \in DOMAIN table}
<1>1. word.text \in Seq(Texts)
  OBVIOUS
<1>2. C!Translate(word.text, table) \in Seq(Texts)
  <2> HIDE DEF table
  <2>1. C!Translate(word.text, table)
          = [i \in DOMAIN word.text |-> IF word.text[i] \in DOMAIN table THEN table[word.text[i]] ELSE word.text[i]]
    BY DEF C!Translate
  <2> QED BY <1>1, <2>1
<1>3. Unquoted(word) \in Seq(Texts)
  BY <1>1, <1>2 DEF Unquoted
<1> QED BY <1>3

\* The cardinalities of Config are those of the library.
LEMMA SameCardinality == \A T : C!Cardinality(T) = Cardinality(T)
BY DEF C!Cardinality, Cardinality

\* What lists a set lists all of it.
LEMMA Listed ==
  ASSUME NEW T, IsFiniteSet(T)
  PROVE  LET list == C!SetToSeq(T)
         IN list \in Seq(T) /\ \A t \in T : \E i \in 1 .. Len(list) : list[i] = t
<1>1. PICK n \in Nat : ExistsBijection(1 .. n, T)
  BY FS_NatBijection
<1>2. Cardinality(T) = n
  BY <1>1, FS_CountingElements
<1>3. PICK f \in Injection(1 .. n, T) : TRUE
  BY <1>1 DEF ExistsBijection, Bijection
<1> DEFINE list == C!SetToSeq(T)
<1>4. list = CHOOSE g \in [1 .. n -> T] : C!IsInjective(g)
  BY <1>2, SameCardinality DEF C!SetToSeq
<1>5. f \in [1 .. n -> T] /\ C!IsInjective(f)
  BY <1>3 DEF Injection, IsInjective, C!IsInjective
<1> HIDE DEF list
<1>6. list \in [1 .. n -> T] /\ C!IsInjective(list)
  BY <1>4, <1>5
<1>7. list \in Injection(1 .. n, T)
  BY <1>6 DEF Injection, IsInjective, C!IsInjective
<1>8. IsFiniteSet(1 .. n) /\ Cardinality(1 .. n) = n
  BY FS_Interval
<1>9. list \in Surjection(1 .. n, T)
  BY <1>2, <1>7, <1>8, FS_Injection
<1>10. \A t \in T : \E i \in 1 .. n : list[i] = t
  BY <1>9 DEF Surjection
<1>11. list \in Seq(T) /\ Len(list) = n
  BY <1>6
<1> QED BY <1>10, <1>11 DEF list

\* A JSON object that was marshalled again has the members it had.
LEMMA FormatKeeps ==
  ASSUME NEW Part, NEW text \in Seq(Part)
  PROVE  C!SameBody(C!formatJSONIfPossible(text), text)
<1>1. CASE ~C!IsJSON(text)
  BY <1>1 DEF C!SameBody, C!formatJSONIfPossible
<1>2. CASE C!IsJSON(text)
  <2> DEFINE K == {C!AsFloat(m) : m \in C!Members(text)}
             n == Len(text)
             f == [i \in 2 .. n - 1 |-> C!AsFloat(text[i])]
             list == C!SetToSeq(K)
             sent == <<"{">> \o list \o <<"}">>
  <2>1. n \in Nat
    OBVIOUS
  <2>2. IsFiniteSet(K)
    <3>1. \A k \in K : \E i \in 2 .. n - 1 : k = C!AsFloat(text[i])
      BY DEF C!Members
    <3>2. \A i \in 2 .. n - 1 : C!AsFloat(text[i]) \in K
      BY DEF C!Members
    <3> HIDE DEF K, n
    <3>3. f \in Surjection(2 .. n - 1, K)
      BY <3>1, <3>2 DEF Surjection
    <3>4. IsFiniteSet(2 .. n - 1)
      BY <2>1, FS_Interval
    <3> HIDE DEF f
    <3> QED BY <3>3, <3>4, FS_Surjection
  <2>3. C!formatJSONIfPossible(text) = sent
    BY <1>2 DEF C!formatJSONIfPossible
  <2> HIDE DEF K, list
  <2>4. list \in Seq(K) /\ \A k \in K : \E i \in 1 .. Len(list) : list[i] = k
    BY <2>2, Listed DEF list
  <2>5. PICK l \in Seq(K) : l = list /\ \A k \in K : \E i \in 1 .. Len(l) : l[i] = k
    BY <2>4
  <2>6. PICK open, close, object : /\ open = "{" /\ close = "}"
                                   /\ object = <<open>> \o l \o <<close>> /\ object = sent
    BY Zenon, <2>5
  <2> HIDE DEF sent
  <2>7. /\ Len(l) \in Nat /\ Len(object) = Len(l) + 2
        /\ object[1] = open /\ object[Len(l) + 2] = close /\ \A i \in 1 .. Len(l) : object[i + 1] = l[i]
    <3>1. l \in Seq(K) /\ object = <<open>> \o l \o <<close>>
      BY Zenon, <2>5, <2>6
    <3> QED BY <3>1
  <2>8. Len(l) \in Nat /\ Len(sent) = Len(l) + 2 /\ \A i \in 1 .. Len(l) : sent[i + 1] = l[i]
    BY Zenon, <2>6, <2>7
  <2>9. C!IsJSON(sent)
    <3>1. sent[1] = "{" /\ sent[Len(l) + 2] = "}"
      BY Zenon, <2>6, <2>7
    <3>2. Len(sent) >= 2
      BY ONLY <2>8
    <3> QED BY Zenon, <2>8, <3>1, <3>2 DEF C!IsJSON
  <2>10. C!Members(sent) = {sent[i] : i \in 2 .. Len(l) + 1}
    <3>1. Len(sent) - 1 = Len(l) + 1
      BY ONLY <2>8
    <3> QED BY Zenon, <3>1 DEF C!Members
  <2>11. \A k \in K : \E i \in 2 .. Len(l) + 1 : sent[i] = k
    <3>1. TAKE k \in K
    <3>2. PICK i \in 1 .. Len(l) : l[i] = k
      BY <2>5
    <3>3. i + 1 \in 2 .. Len(l) + 1
      BY <2>8, <3>2
    <3>4. sent[i + 1] = k
      BY Zenon, <2>8, <3>2
    <3> QED BY Zenon, <3>3, <3>4
  <2>12. \A i \in 2 .. Len(l) + 1 : sent[i] \in K
    <3>1. TAKE i \in 2 .. Len(l) + 1
    <3>2. i - 1 \in 1 .. Len(l) /\ (i - 1) + 1 = i
      BY <2>8
    <3>3. l[i - 1] \in K
      BY <3>2
    <3>4. sent[(i - 1) + 1] = l[i - 1]
      BY Zenon, <2>8, <3>2
    <3> QED BY Zenon, <3>2, <3>3, <3>4
  <2>13. C!Members(sent) = K
    BY <2>10, <2>11, <2>12
  <2> QED BY <1>2, <2>3, <2>9, <2>13 DEF C!SameBody, K
<1> QED BY <1>1, <1>2

LEMMA ReadsBody ==
  ASSUME NEW Part, NEW words, AreWords(words, Part), C!Simple(words)
  PROVE  C!SameBody(C!parseBody(words), C!Curl(words).body)
<1> DEFINE D == C!Values(words, C!DataOptions)
           Occurs(n) == {i \in 1 .. Len(words) : C!Mentions(words[i], n)}
           name == IF Occurs("--data-raw") # {} THEN "--data-raw"
                   ELSE IF Occurs("--data") # {} THEN "--data" ELSE "-d"
           from == C!Min(Occurs(name))
           later == {i \in from + 1 .. Len(words) : words[i].quote # "none"}
           content == C!extractQuotedContent(words[C!Min(later)])
<1>1. Len(words) \in Nat /\ DOMAIN words = 1 .. Len(words)
  BY DEF AreWords
<1>2. C!parseBody(words) = IF Occurs(name) = {} THEN C!NoText
                           ELSE IF words[from].quote # "none" THEN <<"between quotes">>
                           ELSE IF later = {} THEN C!NoText ELSE C!formatJSONIfPossible(content)
  BY <1>1 DEF C!parseBody
<1>3. C!Curl(words).body = IF D = {} THEN C!NoText ELSE Unquoted(words[C!Min(D)])
  BY DEF C!Curl, Unquoted
<1>4. ASSUME NEW n \in {"--data-raw", "--data", "-d"}, NEW i \in Occurs(n)
      PROVE  i + 1 \in D /\ C!Quoted(words[i + 1]) /\ words[i].quote = "none" /\ i \in 1 .. Len(words)
  <2>0. i \in 1 .. Len(words) /\ C!Mentions(words[i], n)
    OBVIOUS
  <2>1. words[i].holds = {}
    BY <1>1, <2>0 DEF C!Simple
  <2>2. /\ words[i].quote = "none"
        /\ words[i].text = <<n>> \/ words[i].text[1] \in {"--data-raw", "--data-binary", "--data"}
    BY <2>0, <2>1, MentionsIs
  <2>3. words[i].text \in Seq(Part) /\ Len(words[i].text) \in Nat \ {0}
    BY <2>0, WordShape
  <2>4. Head(words[i].text) \in {"--data", "--data-raw", "--data-binary", "-d"}
    BY <2>2, <2>3
  <2>5. PICK o \in C!DataOptions : Head(words[i].text) = o
    BY <2>4 DEF C!DataOptions
  <2>6. o \notin {"-X", "--request"}
    BY DEF C!DataOptions
  <2>7. i + 1 \in C!After(words, o) /\ C!Quoted(words[i + 1])
    BY <2>0, <2>2, <2>5, <2>6, SimpleValues
  <2> QED BY <2>0, <2>2, <2>7, ValuesAre
<1>5. ASSUME NEW i \in D
      PROVE  i - 1 \in Occurs("-d") \/ i - 1 \in Occurs("--data") \/ i - 1 \in Occurs("--data-raw")
  <2>1. PICK o \in C!DataOptions : i \in C!After(words, o)
    BY ValuesAre
  <2>2. i - 1 \in 1 .. Len(words) /\ words[i - 1].quote = "none" /\ words[i - 1].text = <<o>>
    BY <1>1, <2>1, AfterIs
  <2>3. CASE o \in {"-d", "--data", "--data-raw"}
    <3>1. C!Mentions(words[i - 1], o)
      BY <2>2, MentionedAlone
    <3> QED BY <2>2, <2>3, <3>1
  <2>4. CASE o = "--data-binary"
    <3>1. words[i - 1].text[1] = "--data-binary"
      BY <2>2, <2>4
    <3>2. C!Mentions(words[i - 1], "--data")
      BY <2>2, <3>1, MentionedInside
    <3> QED BY <2>2, <3>2
  <2> QED BY <2>3, <2>4 DEF C!DataOptions
<1>6. /\ name \in {"--data-raw", "--data", "-d"}
      /\ Occurs(name) = {} => Occurs("--data-raw") = {} /\ Occurs("--data") = {} /\ Occurs("-d") = {}
  OBVIOUS
<1> HIDE DEF D, Occurs, name
<1>7. CASE Occurs(name) = {}
  <2>1. D = {}
    BY <1>5, <1>6, <1>7
  <2>2. C!parseBody(words) = << >> /\ C!Curl(words).body = << >>
    BY <1>2, <1>3, <1>7, <2>1 DEF C!NoText
  <2> QED BY <2>2 DEF C!SameBody, C!IsJSON
<1>8. CASE Occurs(name) # {}
  <2>1. Occurs(name) \in SUBSET Nat
    BY <1>1 DEF Occurs
  <2>2. from \in Occurs(name)
    BY <1>8, <2>1, MinIsMember
  <2> HIDE DEF from
  <2>3. from + 1 \in D /\ C!Quoted(words[from + 1]) /\ words[from].quote = "none" /\ from \in 1 .. Len(words)
    BY <1>4, <1>6, <2>2
  <2>4. D \in SUBSET Nat
    BY <1>1, ValuesAreIndexes DEF D
  <2>5. \A i, j \in D : i = j
    BY DEF C!Simple, D
  <2>6. C!Min(D) = from + 1
    BY <2>3, <2>4, <2>5, MinOfOne
  <2>8. from + 1 \in later /\ later \in SUBSET Nat /\ \A i \in later : from + 1 <= i
    <3>1. from + 1 \in 2 .. Len(words)
      <4>1. PICK o \in C!DataOptions : from + 1 \in C!After(words, o)
        BY <2>3, ValuesAre DEF D
      <4> QED BY <4>1, AfterIs
    <3>2. words[from + 1].quote # "none"
      BY <2>3 DEF C!Quoted
    <3> QED BY <1>1, <2>3, <3>1, <3>2
  <2> HIDE DEF later
  <2>9. C!Min(later) = from + 1
    <3>1. C!Min(later) \in later /\ \A i \in later : C!Min(later) <= i
      BY <2>8, NatLeast DEF C!Min
    <3>2. C!Min(later) <= from + 1 /\ from + 1 <= C!Min(later) /\ C!Min(later) \in Nat
      BY <2>8, <3>1
    <3> QED BY <2>3, <3>2
  <2>10. later # {} /\ D # {}
    BY <2>3, <2>8
  <2>11. from + 1 \in 1 .. Len(words)
    <3>1. PICK o \in C!DataOptions : from + 1 \in C!After(words, o)
      BY <2>3, ValuesAre DEF D
    <3> QED BY <1>1, <3>1, AfterIs
  <2>12. words[from + 1].text \in Seq(Part)
    BY <2>11, WordShape
  <2>13. \A k \in DOMAIN words[from + 1].text : words[from + 1].text[k] \notin DOMAIN C!ControlEscapes
    BY <1>1, <2>11 DEF C!Simple
  <2>14. C!extractQuotedContent(words[from + 1]) = Unquoted(words[from + 1])
    BY <2>3, <2>12, <2>13, ContentIs
  <2>15. PICK given : given = Unquoted(words[from + 1])
    OBVIOUS
  <2>16. C!parseBody(words) = C!formatJSONIfPossible(given) /\ C!Curl(words).body = given
    BY <1>2, <1>3, <1>8, <2>3, <2>6, <2>9, <2>10, <2>14, <2>15
  <2>17. \E Texts : given \in Seq(Texts)
    BY <2>12, <2>15, UnquotedText
  <2> QED BY <2>16, <2>17, FormatKeeps
<1> QED BY <1>7, <1>8

\* A simple command has the URL, the method, the headers and, up to SameBody, the body it has to
\* curl.
LEMMA CommandsRead ==
  ASSUME NEW Part, NEW lines, IsCommand(lines, Part)
  PROVE  C!ReadsLikeCurl(lines)
<1> DEFINE words == C!normalizeCommand(lines)
           url == words[C!Min(C!URLIndexes(words))].text
           protocol == IF Head(url) \in {"ws://", "wss://"} THEN "websocket" ELSE "http"
           config == C!NewCurlParser(lines)
           curl == C!Curl(words)
<1>1. AreWords(words, Part)
  BY CommandWords, WordsAreWords
<1>2. config = IF C!URLIndexes(words) = {} THEN C!Failed("url")
               ELSE [C!DefaultConfig EXCEPT
                       !.url = url, !.headers = C!parseHeaders(words), !.method = C!parseMethod(words),
                       !.body = C!parseBody(words), !.protocol = protocol, !.concurrency = 0, !.requests = 0,
                       !.timeout = 0, !.verify = C!Null, !.grpc = C!Null]
  BY DEF C!NewCurlParser
<1>3. SUFFICES ASSUME C!Ok(config), C!Simple(words)
               PROVE  /\ config.url = curl.url /\ config.method = curl.method
                      /\ config.headers = curl.headers /\ C!SameBody(config.body, curl.body)
  BY DEF C!ReadsLikeCurl
<1> HIDE DEF words, url, protocol, config, curl
<1>4. C!URLIndexes(words) # {}
  BY <1>2, <1>3, FailedAnswers
<1>5. /\ config.url = url /\ config.method = C!parseMethod(words)
      /\ config.headers = C!parseHeaders(words) /\ config.body = C!parseBody(words)
  BY <1>2, <1>4 DEF C!DefaultConfig
<1>6. url = curl.url
  BY <1>1, <1>3, <1>4, ReadsURL DEF curl, url
<1>7. C!parseMethod(words) = curl.method
  BY <1>1, <1>3, ReadsMethod DEF curl
<1>8. C!parseHeaders(words) = curl.headers
  BY <1>1, <1>3, ReadsHeaders DEF curl
<1>9. C!SameBody(C!parseBody(words), curl.body)
  BY <1>1, <1>3, ReadsBody DEF curl
<1> QED BY <1>5, <1>6, <1>7, <1>8, <1>9

\* The URL of a command that loads is not empty.
LEMMA CommandURL ==
  ASSUME NEW Part, NEW lines, IsCommand(lines, Part), C!Ok(C!NewCurlParser(lines))
  PROVE  LET parsed == C!NewCurlParser(lines)
         IN /\ DOMAIN parsed = DOMAIN C!DefaultConfig /\ parsed = [k \in DOMAIN parsed |-> parsed[k]]
            /\ parsed.apis = << >> /\ parsed.concurrency = 0 /\ parsed.requests = 0 /\ parsed.timeout = 0
            /\ parsed.grpc = C!Null /\ parsed.url # C!NoText
<1> DEFINE words == C!normalizeCommand(lines)
           U == C!URLIndexes(words)
           url == words[C!Min(U)].text
           protocol == IF Head(url) \in {"ws://", "wss://"} THEN "websocket" ELSE "http"
           parsed == C!NewCurlParser(lines)
<1>1. AreWords(words, Part)
  BY CommandWords, WordsAreWords
<1>2. parsed = IF U = {} THEN C!Failed("url")
               ELSE [C!DefaultConfig EXCEPT
                       !.url = url, !.headers = C!parseHeaders(words), !.method = C!parseMethod(words),
                       !.body = C!parseBody(words), !.protocol = protocol, !.concurrency = 0, !.requests = 0,
                       !.timeout = 0, !.verify = C!Null, !.grpc = C!Null]
  BY DEF C!NewCurlParser
<1> HIDE DEF words, protocol
<1>3. \A i \in U : i \in 1 .. Len(words)
  <2>1. \A option, i : i \in C!After(words, option) => i \in 2 .. Len(words)
    BY AfterIs
  <2>2. \A i \in U : i \in 2 .. Len(words)
    BY <2>1 DEF C!URLIndexes
  <2> HIDE DEF U
  <2> QED BY <1>1, <2>2 DEF AreWords
<1> HIDE DEF U, url, parsed
<1>4. U # {}
  BY <1>2, FailedAnswers DEF parsed
<1>5. url # C!NoText
  <2>1. U \in SUBSET Nat
    BY <1>3
  <2>2. C!Min(U) \in U
    BY <1>4, <2>1, MinIsMember
  <2>3. url \in Seq(Part) /\ Len(url) # 0
    BY <1>1, <1>3, <2>2, WordShape DEF url
  <2> QED BY <2>3 DEF C!NoText
<1>6. parsed = [C!DefaultConfig EXCEPT
                  !.url = url, !.headers = C!parseHeaders(words), !.method = C!parseMethod(words),
                  !.body = C!parseBody(words), !.protocol = protocol, !.concurrency = 0, !.requests = 0,
                  !.timeout = 0, !.verify = C!Null, !.grpc = C!Null]
  BY <1>2, <1>4
<1>7. /\ DOMAIN parsed = DOMAIN C!DefaultConfig /\ parsed = [k \in DOMAIN parsed |-> parsed[k]]
      /\ parsed.apis = << >> /\ parsed.concurrency = 0 /\ parsed.requests = 0 /\ parsed.timeout = 0
      /\ parsed.grpc = C!Null /\ parsed.url = url
  BY <1>6, DefaultFields
<1> QED BY <1>5, <1>7 DEF parsed

\* A configuration without APIs that has all it needs is what is run.
LEMMA RunsAsLoaded ==
  ASSUME NEW source, LET config == C!loadConfig(source)
                   IN /\ C!Ok(config) /\ config.url # C!NoText
                      /\ config.concurrency = 1 /\ config.requests = 1
                      /\ config.grpc = C!Null \/ ~config.grpc.reflection,
         source.flags.storage = "memory"
  PROVE  C!RunConfig(source) = C!loadConfig(source)
<1> DEFINE config == C!loadConfig(source)
<1>1. C!validateConfig(config) = ""
  <2> HIDE DEF config
  <2> QED BY DEF C!validateConfig, config
<1>2. C!prepareStoragePath(source.flags.storage)
  BY DEF C!prepareStoragePath
<1> QED BY <1>1, <1>2 DEF C!RunConfig

LEMMA NoWords ==
  ASSUME NEW lines, lines = << >>
  PROVE  C!URLIndexes(C!normalizeCommand(lines)) = {}
<1> DEFINE each == [i \in DOMAIN lines |-> lines[i].words]
           flat == C!FlattenSeq(each)
           words == C!normalizeCommand(lines)
<1>1. each = << >> /\ Len(each) = 0
  OBVIOUS
<1>2. flat = << >>
  BY <1>1 DEF C!FlattenSeq
<1> HIDE DEF flat
<1>3. words = IF C!detectCurlStyle(lines) = "unix" THEN flat
              ELSE [i \in DOMAIN flat |-> [flat[i] EXCEPT !.quote = IF @ = "^" THEN "double" ELSE @]]
  BY DEF C!normalizeCommand, flat
<1>4. words = << >>
  BY <1>2, <1>3
<1> HIDE DEF words
<1>5. \A option : C!After(words, option) = {}
  BY <1>4 DEF C!After
<1> QED BY <1>5 DEF C!URLIndexes, words

LEMMA CommandsSuffice ==
  ASSUME NEW Part, NEW lines, IsCommand(lines, Part)
  PROVE  C!DefaultsSuffice(lines)
<1> DEFINE parsed == C!NewCurlParser(lines)
           byCurl == [curl |-> lines, file |-> C!Null, flags |-> C!FlagDefaults]
           byURL == [curl |-> C!Null, file |-> C!Null, flags |-> [C!FlagDefaults EXCEPT !.url = parsed.url]]
<1>1. SUFFICES ASSUME C!Ok(parsed), NEW source \in {byCurl, byURL}
               PROVE  LET config == C!RunConfig(source)
                      IN C!Ok(config) /\ config.concurrency = 1 /\ config.requests = 1 /\ config.timeout = 30
  BY DEF C!DefaultsSuffice
<1>2. /\ DOMAIN parsed = DOMAIN C!DefaultConfig /\ parsed = [k \in DOMAIN parsed |-> parsed[k]]
      /\ parsed.apis = << >> /\ parsed.concurrency = 0 /\ parsed.requests = 0 /\ parsed.timeout = 0
      /\ parsed.grpc = C!Null /\ parsed.url # C!NoText
  BY <1>1, CommandURL
<1> DEFINE config == C!loadConfig(source)
<1>3. source.flags.storage = "memory"
  BY DEF C!FlagDefaults
<1>4. /\ DOMAIN config = DOMAIN C!DefaultConfig /\ config.concurrency = 1 /\ config.requests = 1
      /\ config.timeout = 30 /\ config.url # C!NoText /\ (config.grpc = C!Null \/ ~config.grpc.reflection)
  <2>1. CASE source = byCurl /\ lines # C!Null
    <3>1. C!FlagDefaults.concurrency = 1 /\ C!FlagDefaults.requests = 1 /\ C!FlagDefaults.timeout = 30
      BY DEF C!FlagDefaults
    <3>2. source.curl = lines /\ source.flags = C!FlagDefaults
      BY <2>1
    <3>3. config = Overridden(parsed, C!FlagDefaults)
      BY <1>1, <2>1, <3>2 DEF C!loadConfig, Overridden
    <3> HIDE DEF config, parsed
    <3> QED BY <1>2, <3>1, <3>3, DefaultFields DEF Overridden
  <2>2. CASE source = byURL
    <3>1. config = C!buildConfigFromFlags(source.flags)
      BY <2>2 DEF C!loadConfig
    <3>2. source.flags = [C!FlagDefaults EXCEPT !.url = parsed.url]
      BY <2>2
    <3>3. /\ source.flags.protocol = "http" /\ source.flags.concurrency = 1 /\ source.flags.requests = 1
          /\ source.flags.timeout = 30 /\ source.flags.url = parsed.url
      BY <3>2 DEF C!FlagDefaults
    <3> HIDE DEF config, parsed
    <3> QED BY <1>2, <3>1, <3>3 DEF C!buildConfigFromFlags, C!DefaultConfig
  <2>3. lines # C!Null
    <3>1. ASSUME C!URLIndexes(C!normalizeCommand(lines)) = {} PROVE FALSE
      <4>1. parsed = C!Failed("url")
        BY <3>1 DEF C!NewCurlParser
      <4> QED BY <1>1, <4>1, FailedAnswers
    <3> QED BY <3>1, NoWords DEF C!Null
  <2> QED BY <2>1, <2>2, <2>3
<1> HIDE DEF config
<1>5. C!Ok(config)
  BY <1>4, DefaultFields DEF C!Ok
<1>6. C!RunConfig(source) = config
  BY <1>3, <1>4, <1>5, RunsAsLoaded DEF config
<1> QED BY <1>4, <1>5, <1>6

\* What a command line may name: see IsSource, IsFile and IsCommand.
SourceAssumption(Part) ==
  /\ \A source \in CommandLines : IsSource(source, Part)
  /\ \A file \in Files : IsFile(file, Part)
  /\ \A lines \in Commands : IsCommand(lines, Part)

LEMMA AllResolve ==
  ASSUME NEW Part, SourceAssumption(Part)
  PROVE  AllConfigsResolve
<1>1. ASSUME NEW run \in {[file |-> source.file, config |-> C!RunConfig(source)] : source \in CommandLines}
      PROVE  /\ C!Ok(run.config) => C!Runnable(run.config)
             /\ ~C!Ok(run.config) /\ run.config.error = "panic" =>
                  run.file # C!Null /\ "verify" \in DOMAIN run.file.sets /\ run.file.sets.verify = C!Null
  <2>1. PICK source \in CommandLines : run = [file |-> source.file, config |-> C!RunConfig(source)]
    BY <1>1
  <2>2. run.file = source.file /\ run.config = C!RunConfig(source) /\ IsSource(source, Part)
    BY <2>1 DEF SourceAssumption
  <2> QED BY <2>2, RunsSoundly
<1>2. \A file \in Files : C!MergesSoundly(file)
  BY FilesMerge DEF SourceAssumption
<1>3. \A lines \in Commands : C!ReadsLikeCurl(lines) /\ C!DefaultsSuffice(lines)
  BY CommandsRead, CommandsSuffice DEF SourceAssumption
<1> QED BY <1>1, <1>2, <1>3 DEF C!ConfigResolves, AllConfigsResolve

\* Until its configuration is accepted a run makes nothing, and one that was refused never will.
Untouched == collected = 0 /\ storage = "none" /\ \A w \in Workers : pc[w] = "unborn"

LoadInv ==
  /\ phase = "load" => result.error = "none" /\ Untouched
  /\ result.error = "config" => phase = "ended" /\ Untouched

LEMMA InitLoad == Init => LoadInv
BY DEF Init, LoadInv, Untouched

LEMMA LoadStep ==
  ASSUME IInv, LoadInv, [Next]_vars
  PROVE  LoadInv'
<1> USE DEF LoadInv, Untouched
<1>1. ASSUME NEW w \in Workers, WorkerStep(w) PROVE LoadInv'
  <2>1. phase # "load" /\ result.error # "config"
    BY <1>1 DEF WorkerStep, OwnStep, Connect, Loop, CheckControlState, StartRequest, EndRequest
  <2> QED BY <1>1, <2>1 DEF WorkerStep, OwnStep, Connect, Loop, CheckControlState, StartRequest, EndRequest
<1>2. ASSUME NEW ok \in BOOLEAN, LoadConfig(ok) \/ NewExecutor(ok) \/ StartServer(ok) PROVE LoadInv'
  BY <1>2 DEF LoadConfig, NewExecutor, StartServer, IInv, TypeOK, RunTypeOK
<1>3. CASE Spawn
  BY <1>3 DEF Spawn
<1>4. CASE Join
  BY <1>4 DEF Join, Outcome, IInv, TypeOK, RunTypeOK
<1>5. ASSUME NEW fault \in {"none", "directory", "page"}, AfterExecution(fault) PROVE LoadInv'
  BY <1>5 DEF AfterExecution, IInv, TypeOK, RunTypeOK
<1>6. CASE WaitForExit \/ Return
  BY <1>6 DEF WaitForExit, Return, IInv, TypeOK, RunTypeOK
<1>7. CASE Outside
  BY <1>7 DEF Outside, HandlePause, HandleResume, HandleStop, Interrupt, MemoryCritical, StopTask
<1>8. CASE UNCHANGED vars
  BY <1>8 DEF vars, workerVars
<1> QED BY <1>1, <1>2, <1>3, <1>4, <1>5, <1>6, <1>7, <1>8 DEF Next, RunStep

\* Whatever the files, flags and curl commands, RunTask runs a runnable configuration or returns
\* an error, and panics only for a file whose verify is null; APIs keep what is their own, merging
\* again changes nothing, a task of the master has time and workers; a command that is Simple has
\* the URL, the method and the headers that curl would read, and its body up to SameBody, and the
\* defaults of the flags suffice (loader.go, curl.go, runner.go).  A run whose configuration is
\* refused has made nothing and runs nothing.
THEOREM ConfigsAlwaysResolve ==
  ASSUME NEW Part, SourceAssumption(Part)
  PROVE  Spec => []ConfigResolves
<1>1. Init => IInv /\ LoadInv
  BY InitInv, InitLoad
<1>2. IInv /\ LoadInv /\ [Next]_vars => (IInv /\ LoadInv)'
  BY InvStep, LoadStep
<1>3. IInv /\ LoadInv => ConfigResolves
  BY AllResolve DEF LoadInv, Untouched, ConfigResolves
<1> QED BY <1>1, <1>2, <1>3, PTL DEF Spec
=============================================================================
