------------------------------ MODULE Collector -----------------------------
(***************************************************************************)
(* How the results of the workers become figures and details               *)
(* (statistics/collector.go): Collect, the step by step of concurrent      *)
(* workers over atomic counters, two maps that are read and then written,  *)
(* a locked list of durations and the storage; the summary of the finished *)
(* run (report_builder.go), the exported page (report_exporter.go) and the *)
(* end of saveReports (executor/runner.go), which closes the storage.      *)
(*                                                                         *)
(* That Close comes after the last Collect is what Engine.tla shows of     *)
(* RunTask.  The call of the external reporter at the head of Collect is   *)
(* the subject of StatsBuffer.tla.                                         *)
(***************************************************************************)
EXTENDS DetailStorage

CONSTANT NumWorkers   \* of the scheduler, which share the MaxResults requests of the run

ASSUME CollectorAssumption == NumWorkers \in Nat \ {0}

Workers == 1 .. NumWorkers
NoClass == "none"
NotExported == <<0>>

VARIABLES
  pc,        \* where each worker is in Collect
  begun,     \* results whose Collect has begun
  cur,       \* class of the result at hand
  status,    \* whether that result has a status code
  loaded,    \* what it read of the map it is about to write
  number,    \* the ID its result was given
  figures,   \* the atomic counters
  errors, codes,  \* totals of the two maps
  durations, \* length of the list
  due,       \* results with an error to count, with a status code to count
  crossed,   \* the maps two workers were between load and store of at a time
  exported   \* the details of the saved page

workerVars == <<pc, begun, cur, status, loaded, number>>
figureVars == <<figures, errors, codes, durations, due, crossed>>
vars == <<storageVars, workerVars, figureVars, exported>>

TypeOK ==
  /\ StorageTypeOK
  /\ pc \in [Workers -> {"idle", "loadError", "storeError", "loadCode", "storeCode", "identify",
                         "check", "send", "commit"}]
  /\ begun \in 0 .. MaxResults
  /\ cur \in [Workers -> Classes \cup {NoClass}]
  /\ status \in [Workers -> BOOLEAN]
  /\ loaded \in [Workers -> 0 .. MaxResults]
  /\ number \in [Workers -> 0 .. MaxResults]
  /\ figures \in [Filters -> 0 .. MaxResults]
  /\ errors \in 0 .. MaxResults /\ codes \in 0 .. MaxResults
  /\ durations \in 0 .. MaxResults
  /\ due \in [error : 0 .. MaxResults, code : 0 .. MaxResults]
  /\ crossed \subseteq {"error", "code"}
  /\ exported = NotExported \/ exported \in Seq(Results)

Init ==
  /\ StorageInit
  /\ pc = [w \in Workers |-> "idle"]
  /\ begun = 0
  /\ cur = [w \in Workers |-> NoClass]
  /\ status = [w \in Workers |-> FALSE]
  /\ loaded = [w \in Workers |-> 0] /\ number = [w \in Workers |-> 0]
  /\ figures = [f \in Filters |-> 0]
  /\ errors = 0 /\ codes = 0 /\ durations = 0
  /\ due = [error |-> 0, code |-> 0]
  /\ crossed = {}
  /\ exported = NotExported

-----------------------------------------------------------------------------
(* Collect.                                                                *)

Goto(w, there) == pc' = [pc EXCEPT ![w] = there]

AfterErrors(w) == IF status[w] THEN "loadCode" ELSE "identify"

\* The counters of a result; each is added to atomically, and nothing is read in between.
CountersOf(c) == {"all", c}

\* The result is counted.  Its response has a status code if the request succeeded and may
\* have one if it failed; a skipped request has none.
Begin(w, c, coded) ==
  /\ pc[w] = "idle" /\ begun < MaxResults /\ ~panicked
  /\ c = "success" => coded
  /\ c = "skipped" => ~coded
  /\ begun' = begun + 1
  /\ cur' = [cur EXCEPT ![w] = c]
  /\ status' = [status EXCEPT ![w] = coded]
  /\ figures' = [f \in Filters |-> figures[f] + IF f \in CountersOf(c) THEN 1 ELSE 0]
  /\ due' = [error |-> due.error + IF c = "failed" THEN 1 ELSE 0,
             code  |-> due.code + IF coded THEN 1 ELSE 0]
  /\ Goto(w, IF c = "failed" THEN "loadError" ELSE IF coded THEN "loadCode" ELSE "identify")
  /\ UNCHANGED <<storageVars, loaded, number, errors, codes, durations, crossed, exported>>

\* LoadOrStore and Store on the maps: who loads while another is about to store will write
\* over it.
Load(w, kind, value, from, to) ==
  /\ pc[w] = from
  /\ loaded' = [loaded EXCEPT ![w] = value]
  /\ crossed' = IF \E v \in Workers \ {w} : pc[v] = to THEN crossed \cup {kind} ELSE crossed
  /\ Goto(w, to)
  /\ UNCHANGED <<storageVars, begun, cur, status, number, figures, errors, codes, durations, due,
                 exported>>

LoadError(w) == Load(w, "error", errors, "loadError", "storeError")
LoadCode(w) == Load(w, "code", codes, "loadCode", "storeCode")

StoreError(w) ==
  /\ pc[w] = "storeError"
  /\ errors' = loaded[w] + 1
  /\ Goto(w, AfterErrors(w))
  /\ UNCHANGED <<storageVars, begun, cur, status, loaded, number, figures, codes, durations, due,
                 crossed, exported>>

StoreCode(w) ==
  /\ pc[w] = "storeCode"
  /\ codes' = loaded[w] + 1
  /\ Goto(w, "identify")
  /\ UNCHANGED <<storageVars, begun, cur, status, loaded, number, figures, errors, durations, due,
                 crossed, exported>>

\* The duration is appended under the lock, then the result gets its ID.
Identify(w) ==
  /\ pc[w] = "identify"
  /\ durations' = durations + 1
  /\ class' = Append(class, cur[w])
  /\ number' = [number EXCEPT ![w] = Len(class) + 1]
  /\ Goto(w, "check")
  /\ UNCHANGED <<backend, queue, batch, table, counts, lost, failures, life, loop, flush, panicked, begun, cur,
                 status, loaded, figures, errors, codes, due, crossed, exported>>

Finish(w) ==
  /\ Goto(w, "idle")
  /\ cur' = [cur EXCEPT ![w] = NoClass]
  /\ status' = [status EXCEPT ![w] = FALSE]
  /\ loaded' = [loaded EXCEPT ![w] = 0] /\ number' = [number EXCEPT ![w] = 0]

\* Write: Memory does it all under its lock; the databases look at closed, release the lock,
\* and go on to send.
CheckOpen(w) ==
  /\ pc[w] = "check"
  /\ \/ /\ backend = "memory"
        /\ WriteMemory(number[w]) /\ Finish(w)
        /\ UNCHANGED batch
     \/ /\ backend # "memory" /\ life # "open"
        /\ lost' = lost \cup {<<number[w], "closed">>} /\ Finish(w)
        /\ UNCHANGED <<queue, batch, table, counts, failures, panicked>>
     \/ /\ backend # "memory" /\ life = "open"
        /\ Goto(w, "send")
        /\ UNCHANGED <<cur, status, loaded, number>>
        /\ UNCHANGED <<queue, batch, table, counts, lost, failures, panicked>>
  /\ UNCHANGED <<backend, class, life, loop, flush, begun, figureVars, exported>>

\* The result is sent or, where the channel of Badger is full, written by the worker itself.
SendResult(w) ==
  /\ pc[w] = "send"
  /\ \/ Send(number[w]) /\ Finish(w)
     \/ CountOne(number[w]) /\ Goto(w, "commit") /\ UNCHANGED <<cur, status, loaded, number>>
  /\ UNCHANGED <<backend, class, batch, life, loop, flush, begun, figureVars, exported>>

CommitResult(w) ==
  /\ pc[w] = "commit"
  /\ \E ok \in BOOLEAN : CommitOne(number[w], ok)
  /\ Finish(w)
  /\ UNCHANGED <<backend, class, batch, life, loop, flush, begun, figureVars, exported>>

-----------------------------------------------------------------------------
(* After the run.                                                          *)

WorkersDone == begun = MaxResults /\ \A w \in Workers : pc[w] = "idle"

\* Mutant: the storage is closed while workers still collect.
RequestsBegun == begun = MaxResults

\* RunTask reaches saveReports when the scheduler has waited for every worker.
RunIsOver == WorkersDone

\* ExportHTML takes all details the storage has by now.
Export ==
  /\ RunIsOver /\ exported = NotExported /\ life = "open"
  /\ exported' = Query(0, MaxResults, "all")
  /\ UNCHANGED <<storageVars, workerVars, figureVars>>

\* Then the collector is closed, and with it the storage; also when the page's directory
\* could not be made, and nothing was exported.
Close ==
  /\ RunIsOver
  /\ Flag
  /\ UNCHANGED <<workerVars, figureVars, exported>>

Collect(w) ==
  \/ \E c \in Classes, coded \in BOOLEAN : Begin(w, c, coded)
  \/ LoadError(w) \/ StoreError(w) \/ LoadCode(w) \/ StoreCode(w)
  \/ Identify(w) \/ CheckOpen(w) \/ SendResult(w) \/ CommitResult(w)

Background == (LoopStep \/ CloseStep) /\ UNCHANGED <<workerVars, figureVars, exported>>

Next == (\E w \in Workers : Collect(w)) \/ Export \/ Close \/ Background

\* The loops and the call of Close are goroutines that run; that a run is saved, and so
\* closed, is up to its options.
Spec == Init /\ [][Next]_vars /\ WF_vars(Background)

-----------------------------------------------------------------------------
(* Properties.                                                             *)

Written == {r \in 1 .. Len(class) : \A w \in Workers : number[w] # r}
Places(r) ==
  {<<"queue", i>> : i \in {j \in 1 .. Len(queue) : queue[j] = r}}
    \cup {<<"batch", i>> : i \in {j \in 1 .. Len(batch) : batch[j] = r}}
    \cup {<<"table", i>> : i \in {j \in 1 .. Len(table) : table[j] = r}}
    \cup {<<"lost", x>> : x \in {y \in lost : y[1] = r}}

InOnePlace == \A r \in Written : Cardinality(Places(r)) = 1

LossesExplained ==
  \A x \in lost : /\ x[2] # "closed"
                  /\ x[2] = "failed" => failures > 0
                  /\ x[2] = "abandoned" => backend = "badger"
                  /\ backend # "memory"

NoneLeft == life = "closed" => Written = ToSet(table) \cup {x[1] : x \in lost}

Explained ==
  /\ NoneLeft /\ LossesExplained
  /\ exported # NotExported => /\ ToSet(exported) \subseteq ToSet(table)
                               /\ backend = "memory" => ToSet(exported) = Written

\* Every result that Write was called with is in one place: in the channel, in the batch,
\* stored, or lost; no failing flush, full channel or Close loses track of one or stores it
\* twice (sqlite.go and badger.go: Write, flush, Close).  Close leaves none behind, and only
\* a failed write loses results of SQLite that found room in the channel; Badger may also
\* abandon what is in its channel; Memory loses none, and its page shows all.  No send meets
\* the closed channel, because the run waits for its workers.
Accounted == ~panicked /\ InOnePlace /\ Explained

\* What Badger has counted and not stored: what it is committing, and what failed to be.
Uncommitted ==
  (IF flush = "none" THEN {} ELSE ToSet(batch)) \cup {number[w] : w \in {v \in Workers : pc[v] = "commit"}}
Ahead ==
  IF backend = "badger" THEN Uncommitted \cup {x[1] : x \in {y \in lost : y[2] = "failed"}} ELSE {}

CountsCoverRows ==
  \A f \in Filters :
    LET rows == Len(Query(0, MaxResults, f))
    IN /\ rows <= Count(f)
       /\ Readable => Count(f) <= rows + Cardinality({r \in Ahead : MatchFilter(r, f)})

\* With no Collect under way the figures agree with each other and with the results, and
\* the maps of errors and status codes too unless two workers met between load and store,
\* in which case they fall short.  What the details endpoint counts covers what it can show,
\* and, read at any time, exceeds it by no more than what is in a transaction of Badger that
\* has not committed, or that failed: its counters run ahead (badger.go:183, 217), those of
\* the other storages do not.
FiguresSettle ==
  /\ (\A w \in Workers : pc[w] = "idle") =>
       /\ figures["all"] = figures["success"] + figures["failed"] + figures["skipped"]
       /\ figures["all"] = Len(class) /\ durations = Len(class)
       /\ errors <= due.error /\ (errors < due.error => "error" \in crossed)
       /\ codes <= due.code /\ (codes < due.code => "code" \in crossed)
  /\ CountsCoverRows

\* Close returns: the loop drains or leaves its channel, and ends.
CloseReturns == life = "flagged" ~> life = "closed"
=============================================================================
