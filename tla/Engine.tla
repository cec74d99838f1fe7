------------------------------- MODULE Engine -------------------------------
(***************************************************************************)
(* One run of the load engine: RunTask (executor/runner.go) and the two    *)
(* run strategies, Executor.Run, the scheduler and its workers, the client *)
(* pool, and the realtime server in its role of controller                 *)
(* (statistics/realtime_server.go: pause, resume and stop from the page).  *)
(*                                                                         *)
(* What one request does is the subject of RequestChain; here a request    *)
(* starts and ends.  A pass of a worker's loop is a chain of ChainLength   *)
(* requests: the executions of the APIs in dependency order, repetitions   *)
(* counted, or the one request of the other modes.  The checks the code    *)
(* makes twice in a row (per API, then per repetition) are one step.       *)
(***************************************************************************)
EXTENDS Integers, Sequences, FiniteSets

CONSTANTS
  NumWorkers,   \* Concurrency
  ReqCount,     \* Requests, of each worker
  ChainLength   \* requests of one pass

ASSUME EngineAssumption == {NumWorkers, ReqCount, ChainLength} \subseteq Nat \ {0}

Workers == 1 .. NumWorkers

VARIABLES
  opts,       \* standalone or on a slave; NoReport and NoWait
  phase,      \* where RunTask is
  ctx,        \* the run's context is cancelled
  server,     \* the realtime server
  spawned,    \* workers the scheduler has started
  pc,         \* where each worker is
  pass, step, \* its request loop and its place in the chain
  errs,       \* errChan: the workers' errors in the order they arrived
  storage,    \* of the run's results
  collected,  \* results handed to the collector
  result,     \* RunResult: the report (how many results it covers) and the error
  held, late, \* requests each worker started since the last pause; since the cancellation
  pageStopped \* the page was used to stop the run

workerVars == <<pc, pass, step>>
history == <<held, late, pageStopped>>
vars == <<opts, phase, ctx, server, spawned, workerVars, errs, storage, collected, result, history>>

NoReport == -1
AllDone == \A w \in Workers : pc[w] = "done"

RunTypeOK ==
  /\ opts \in [standalone : BOOLEAN, noReport : BOOLEAN, noWait : BOOLEAN]
  /\ phase \in {"load", "create", "start", "spawn", "post", "wait", "return", "ended"}
  /\ ctx \in BOOLEAN
  /\ server \in [up : BOOLEAN, streaming : BOOLEAN, paused : BOOLEAN, stopped : BOOLEAN,
                 completed : BOOLEAN]
  /\ storage \in {"none", "open", "closed"}
  /\ collected \in Nat
  /\ result \in [report : {NoReport} \cup Nat, error : {"none", "config", "create", "run"}]
  /\ pageStopped \in BOOLEAN

WorkersTypeOK ==
  /\ spawned \in 0 .. NumWorkers
  /\ pc \in [Workers -> {"unborn", "connect", "loop", "check", "ready", "exec", "done"}]
  /\ pass \in [Workers -> 0 .. ReqCount]
  /\ step \in [Workers -> 1 .. ChainLength + 1]
  /\ held \in [Workers -> Nat] /\ late \in [Workers -> Nat]
  /\ errs \in Seq({"cancelled", "connect"})

TypeOK == RunTypeOK /\ WorkersTypeOK

Init ==
  /\ opts \in [standalone : BOOLEAN, noReport : BOOLEAN, noWait : BOOLEAN]
  /\ phase = "load"
  /\ ctx = FALSE
  /\ server = [up |-> FALSE, streaming |-> FALSE, paused |-> FALSE, stopped |-> FALSE,
               completed |-> FALSE]
  /\ spawned = 0
  /\ pc = [w \in Workers |-> "unborn"]
  /\ pass = [w \in Workers |-> 0]
  /\ step = [w \in Workers |-> 1]
  /\ errs = << >>
  /\ storage = "none"
  /\ collected = 0
  /\ result = [report |-> NoReport, error |-> "none"]
  /\ held = [w \in Workers |-> 0] /\ late = [w \in Workers |-> 0] /\ pageStopped = FALSE

-----------------------------------------------------------------------------
(* RunTask before the run.                                                 *)

\* No source of a configuration, a file that does not load, a configuration or a
\* storage mode that is refused: RunTask returns before it has made anything.
LoadConfig(ok) ==
  /\ phase = "load"
  /\ phase' = IF ok THEN "create" ELSE "ended"
  /\ result' = IF ok THEN result ELSE [result EXCEPT !.error = "config"]
  /\ UNCHANGED <<opts, ctx, server, spawned, workerVars, errs, storage, collected, history>>

\* NewExecutor opens the storage first; a client or a verifier that cannot be made
\* fails it, and RunTask returns without closing what was opened.
NewExecutor(ok) ==
  /\ phase = "create"
  /\ storage' = "open"
  /\ phase' = IF ok THEN "start" ELSE "ended"
  /\ result' = IF ok THEN result ELSE [result EXCEPT !.error = "create"]
  /\ UNCHANGED <<opts, ctx, server, spawned, workerVars, errs, collected, history>>

\* Executor.Run: the server is started, and becomes the controller.  Start never fails;
\* whether the port could be listened on is only logged.
StartServer(listens) ==
  /\ phase = "start"
  /\ server' = [server EXCEPT !.up = listens, !.streaming = TRUE]
  /\ phase' = "spawn"
  /\ UNCHANGED <<opts, ctx, spawned, workerVars, errs, storage, collected, result, history>>

-----------------------------------------------------------------------------
(* The scheduler.                                                          *)

\* The next worker, after the pause of the ramp-up, which does not look at the context.
Spawn ==
  /\ phase = "spawn"
  /\ spawned < NumWorkers
  /\ spawned' = spawned + 1
  /\ pc' = [pc EXCEPT ![spawned + 1] = "connect"]
  /\ UNCHANGED <<opts, phase, ctx, server, pass, step, errs, storage, collected, result, history>>

\* What Executor.Run and RunTask make of the workers' errors.  An error that is, or wraps,
\* context.Canceled keeps the report and becomes no error of the result; any other stops
\* the server and drops the report.
Outcome(err) ==
  LET marked == [server EXCEPT !.completed = TRUE]
  IN IF err = "connect"
     THEN /\ result' = [report |-> NoReport, error |-> "run"]
          /\ server' = IF server.stopped THEN marked
                       ELSE [marked EXCEPT !.stopped = TRUE, !.streaming = FALSE, !.up = FALSE]
          /\ phase' = "return"
     ELSE /\ result' = [report |-> collected, error |-> "none"]
          /\ server' = marked
          /\ phase' = "post"

\* Mutant: the last error that arrived decides.
LastError == IF errs = << >> THEN "none" ELSE errs[Len(errs)]

FirstError == IF errs = << >> THEN "none" ELSE Head(errs)

\* wg.Wait, the first error that arrived, and the end of Executor.Run.
Join ==
  /\ phase = "spawn" /\ spawned = NumWorkers
  /\ AllDone
  /\ Outcome(FirstError)
  /\ UNCHANGED <<opts, ctx, spawned, workerVars, errs, storage, collected, history>>

-----------------------------------------------------------------------------
(* A worker.                                                               *)

Exit(w) == pc' = [pc EXCEPT ![w] = "done"]
Goto(w, there) == pc' = [pc EXCEPT ![w] = there]

\* The client of the pool is connected; an error ends the worker.  The dial of a WebSocket
\* takes the context: under a cancelled one it can fail with an error that wraps the
\* cancellation (websocket.go:89-91), and counts as one.
Connect(w, outcome) ==
  /\ pc[w] = "connect"
  /\ outcome = "cancelled" => ctx
  /\ IF outcome = "ok" THEN Goto(w, "loop") /\ errs' = errs
                       ELSE Exit(w) /\ errs' = Append(errs, outcome)
  /\ UNCHANGED <<opts, phase, ctx, server, spawned, pass, step, storage, collected, result, history>>

\* Mutant: the loop looks at the context before its first pass only.
LoopOnce(w) ==
  /\ pc[w] = "loop"
  /\ IF pass[w] = ReqCount
     THEN Exit(w) /\ UNCHANGED <<pass, step, errs>>
     ELSE IF ctx /\ pass[w] = 0
     THEN Exit(w) /\ errs' = Append(errs, "cancelled") /\ UNCHANGED <<pass, step>>
     ELSE /\ Goto(w, "check")
          /\ pass' = [pass EXCEPT ![w] = @ + 1]
          /\ step' = [step EXCEPT ![w] = 1]
          /\ UNCHANGED errs
  /\ UNCHANGED <<opts, phase, ctx, server, spawned, storage, collected, result, history>>

\* Mutant: the loop runs a pass too many.
LoopExtra(w) ==
  /\ pc[w] = "loop"
  /\ IF pass[w] > ReqCount
     THEN Exit(w) /\ UNCHANGED <<pass, step, errs>>
     ELSE IF ctx
     THEN Exit(w) /\ errs' = Append(errs, "cancelled") /\ UNCHANGED <<pass, step>>
     ELSE /\ Goto(w, "check")
          /\ pass' = [pass EXCEPT ![w] = @ + 1]
          /\ step' = [step EXCEPT ![w] = 1]
          /\ UNCHANGED errs
  /\ UNCHANGED <<opts, phase, ctx, server, spawned, storage, collected, result, history>>

\* The top of the loop: the only place that looks at the context.
Loop(w) ==
  /\ pc[w] = "loop"
  /\ IF pass[w] = ReqCount
     THEN Exit(w) /\ UNCHANGED <<pass, step, errs>>
     ELSE IF ctx
     THEN Exit(w) /\ errs' = Append(errs, "cancelled") /\ UNCHANGED <<pass, step>>
     ELSE /\ Goto(w, "check")
          /\ pass' = [pass EXCEPT ![w] = @ + 1]
          /\ step' = [step EXCEPT ![w] = 1]
          /\ UNCHANGED errs
  /\ UNCHANGED <<opts, phase, ctx, server, spawned, storage, collected, result, history>>

\* Mutant: the wait goes on while the run is stopped.
WaitWhileIdle == ~server.paused /\ ~server.stopped

\* checkControlState passes or ends the worker only when no pause holds it.
WaitWhilePaused == ~server.paused \/ server.stopped

CheckControlState(w) ==
  /\ pc[w] = "check"
  /\ WaitWhilePaused
  /\ IF server.stopped THEN Exit(w) ELSE Goto(w, "ready")
  /\ UNCHANGED <<opts, phase, ctx, server, spawned, pass, step, errs, storage, collected, result,
                 history>>

StartRequest(w) ==
  /\ pc[w] = "ready"
  /\ Goto(w, "exec")
  /\ held' = [held EXCEPT ![w] = IF server.paused THEN @ + 1 ELSE 0]
  /\ late' = [late EXCEPT ![w] = IF ctx THEN @ + 1 ELSE 0]
  /\ UNCHANGED <<opts, phase, ctx, server, spawned, pass, step, errs, storage, collected, result,
                 pageStopped>>

\* Mutant: the checks inside the chain are missing.
EndUnchecked(w) ==
  /\ pc[w] = "exec"
  /\ collected' = collected + 1
  /\ step' = [step EXCEPT ![w] = @ + 1]
  /\ Goto(w, IF step[w] < ChainLength THEN "ready" ELSE "loop")
  /\ UNCHANGED <<opts, phase, ctx, server, spawned, pass, errs, storage, result, history>>

\* The result is collected; the next request of the chain, or the next pass.
EndRequest(w) ==
  /\ pc[w] = "exec"
  /\ collected' = collected + 1
  /\ step' = [step EXCEPT ![w] = @ + 1]
  /\ Goto(w, IF step[w] < ChainLength THEN "check" ELSE "loop")
  /\ UNCHANGED <<opts, phase, ctx, server, spawned, pass, errs, storage, result, history>>

-----------------------------------------------------------------------------
(* RunTask after the run.                                                  *)

\* AfterExecution: the standalone strategy saves the report and closes the storage, except
\* when the page could not be written; when the directory could not be made it only closes.
AfterExecution(fault) ==
  /\ phase = "post"
  /\ storage' = IF opts.standalone /\ ~opts.noReport /\ fault # "page" THEN "closed" ELSE storage
  /\ phase' = "wait"
  /\ UNCHANGED <<opts, ctx, server, spawned, workerVars, errs, collected, result, history>>

\* WaitForExit.  A signal is taken by this wait or by the goroutine that cancels the context,
\* after which this wait ends too.
WaitForExit ==
  /\ phase = "wait"
  /\ opts.standalone /\ ~opts.noWait => ctx
  /\ phase' = "return"
  /\ UNCHANGED <<opts, ctx, server, spawned, workerVars, errs, storage, collected, result, history>>

\* The deferred calls: RealtimeServer.Stop, which does nothing once the server counts as
\* stopped, then the cancel function of the strategy.
Return ==
  /\ phase = "return"
  /\ server' = IF server.stopped THEN server
               ELSE [server EXCEPT !.stopped = TRUE, !.streaming = FALSE, !.up = FALSE]
  /\ ctx' = (ctx \/ opts.standalone)
  /\ phase' = "ended"
  /\ UNCHANGED <<opts, spawned, workerVars, errs, storage, collected, result, history>>

-----------------------------------------------------------------------------
(* The page, and who cancels.                                              *)

HandlePause ==
  /\ server.up
  /\ ~server.paused /\ ~server.stopped
  /\ server' = [server EXCEPT !.paused = TRUE]
  /\ held' = [w \in Workers |-> 0]
  /\ UNCHANGED <<opts, phase, ctx, spawned, workerVars, errs, storage, collected, result, late,
                 pageStopped>>

HandleResume ==
  /\ server.up
  /\ server.paused /\ ~server.stopped
  /\ server' = [server EXCEPT !.paused = FALSE]
  /\ UNCHANGED <<opts, phase, ctx, spawned, workerVars, errs, storage, collected, result, history>>

\* A stop from the page ends the broadcasts and the workers; the server keeps listening.
HandleStop ==
  /\ server.up
  /\ server' = [server EXCEPT !.stopped = TRUE, !.paused = FALSE, !.streaming = FALSE]
  /\ pageStopped' = TRUE
  /\ UNCHANGED <<opts, phase, ctx, spawned, workerVars, errs, storage, collected, result, held, late>>

Cancel ==
  /\ phase \notin {"load", "create", "ended"}
  /\ ~ctx
  /\ ctx' = TRUE
  /\ UNCHANGED <<opts, phase, server, spawned, workerVars, errs, storage, collected, result, history>>

\* Ctrl+C, and the memory monitor's critical threshold.  On a slave the monitor calls a
\* cancel function that does nothing.
Interrupt == opts.standalone /\ Cancel
MemoryCritical == opts.standalone /\ Cancel

\* The slave cancels the context it passed in.
StopTask == ~opts.standalone /\ Cancel

-----------------------------------------------------------------------------
\* The steps of a worker that wait for no server.
OwnStep(w) == Loop(w) \/ CheckControlState(w) \/ StartRequest(w)

WorkerStep(w) ==
  \/ \E outcome \in {"ok", "cancelled", "connect"} : Connect(w, outcome)
  \/ OwnStep(w)
  \/ EndRequest(w)

RunStep ==
  \/ \E ok \in BOOLEAN : LoadConfig(ok) \/ NewExecutor(ok) \/ StartServer(ok)
  \/ Spawn \/ Join
  \/ \E fault \in {"none", "directory", "page"} : AfterExecution(fault)
  \/ WaitForExit \/ Return

Outside ==
  \/ HandlePause \/ HandleResume \/ HandleStop
  \/ Interrupt \/ MemoryCritical \/ StopTask

Next ==
  \/ \E w \in Workers : WorkerStep(w)
  \/ RunStep
  \/ Outside

\* The Go scheduler runs the run's own goroutines.  Nothing makes anyone use the page or
\* cancel the run, and nothing makes a request or a connection end: a read from a WebSocket
\* has no deadline and no context (websocket.go:139), and the timeout that http.go:68-72
\* makes is not passed on to the request (http.go:85).
Fairness == WF_vars(RunStep) /\ \A w \in Workers : WF_vars(OwnStep(w))

Spec == Init /\ [][Next]_vars /\ Fairness

-----------------------------------------------------------------------------
(* Properties.                                                             *)

\* A pause holds the load: each worker starts at most the one request it had already been
\* cleared for (worker.go:checkControlState before every request of a chain).
PauseHolds == server.paused => \A w \in Workers : held[w] <= 1

\* A cancelled context is looked at between passes only: a worker finishes the chain it is
\* in and never starts another, so what follows a cancellation is bounded by one chain each.
CancelBounds == \A w \in Workers : late[w] <= ChainLength

\* The report covers every result that was collected and none comes after it; it is lost
\* exactly when the first error to arrive was a connection that failed for another reason
\* than the cancellation of the run.  The storage is closed only when no worker can write
\* any more (sqlite.go:Write and Close would meet).  RunTask returns with the realtime server
\* still listening if, and only if, the run was stopped from the page, whose stop makes
\* every later Stop return at once, also that of a failed run (realtime_server.go:349).
OutcomeExplained ==
  /\ phase \in {"post", "wait", "return", "ended"} /\ storage # "none" /\ result.error # "create" =>
       /\ AllDone
       /\ result.error = "run" <=> errs # << >> /\ Head(errs) = "connect"
       /\ result.report = IF result.error = "run" THEN NoReport ELSE collected
  /\ storage = "closed" => AllDone
  /\ phase = "ended" => (server.up <=> pageStopped)

HeldByPause == server.paused /\ ~server.stopped

\* Nobody waits for ever for a server that does not answer.
ServersAnswer == \A w \in Workers : []<>(pc[w] \notin {"connect", "exec"})

\* As long as the servers answer, however late, a cancelled run ends, unless the page keeps
\* it paused (WaitWhilePaused does not look at the context), and a stop from the page ends
\* the workers even of a paused run.
RunEnds ==
  ServersAnswer =>
    /\ <>[](ctx /\ ~HeldByPause) => <>(phase = "ended")
    /\ server.stopped ~> (\A w \in Workers : pc[w] = "unborn" \/ pc[w] = "done")
=============================================================================
