--------------------------- MODULE DetailStorage ----------------------------
(***************************************************************************)
(* The storage of request details behind storage.Interface: in memory      *)
(* (storage/memory.go), SQLite (sqlite.go) or Badger (badger.go), chosen   *)
(* once by the factory.  The databases write in the background: Write      *)
(* sends to a bounded channel, the loop of the storage collects batches    *)
(* and flushes them when they are full, on a tick, and when it shuts down. *)
(*                                                                         *)
(* A result is its number, in the order of the generated IDs; class says   *)
(* whether it succeeded, failed or was skipped.  Who writes and who closes *)
(* is up to the module that composes this one.                             *)
(***************************************************************************)
EXTENDS Integers, SequencesExt, FiniteSetsExt

CONSTANTS
  MaxResults,   \* results of a run
  ChannelSize,  \* of writeChan
  BatchSize,    \* at which the loop flushes
  MaxFailures   \* of writes to a database

ASSUME DetailStorageAssumption ==
  {MaxResults, ChannelSize, BatchSize} \subseteq Nat \ {0} /\ MaxFailures \in Nat

Results == 1 .. MaxResults
Classes == {"success", "failed", "skipped"}
Filters == {"all"} \cup Classes
Backends == {"memory", "sqlite", "badger"}

VARIABLES
  backend,   \* which storage the factory made
  class,     \* of each result that has its ID
  queue,     \* writeChan
  batch,     \* of the loop
  table,     \* what is stored, in the order it was written
  counts,    \* the counters of the memory and the Badger storage
  lost,      \* which result was lost, and how
  failures,  \* writes that failed
  life,      \* how far Close is
  loop,      \* whether the background loop runs
  flush,     \* whether the loop is writing its batch, and if that is its last one
  panicked   \* a send met the closed channel

storageVars == <<backend, class, queue, batch, table, counts, lost, failures, life, loop, flush, panicked>>

StorageTypeOK ==
  /\ backend \in Backends
  /\ class \in Seq(Classes) /\ Len(class) <= MaxResults
  /\ queue \in Seq(Results) /\ Len(queue) <= ChannelSize
  /\ batch \in Seq(Results) /\ Len(batch) <= BatchSize /\ (Len(batch) = BatchSize => flush # "none")
  /\ table \in Seq(Results)
  /\ counts \in [Filters -> 0 .. MaxResults]
  /\ lost \subseteq Results \X {"closed", "full", "failed", "abandoned"}
  /\ failures \in 0 .. MaxFailures
  /\ life \in {"open", "flagged", "cancelled", "waiting", "closed"}
  /\ loop \in BOOLEAN
  /\ flush \in {"none", "batch", "last"}
  /\ panicked \in BOOLEAN

\* The storage that was asked for or, when it cannot be opened, the one in memory.
CreateStorage(asked, ok) == IF ok THEN asked ELSE "memory"

StorageInit ==
  /\ \E asked \in Backends, ok \in BOOLEAN : backend = CreateStorage(asked, ok)
  /\ class = << >>
  /\ queue = << >> /\ batch = << >> /\ table = << >>
  /\ counts = [f \in Filters |-> 0]
  /\ lost = {} /\ failures = 0
  /\ life = "open"
  /\ loop = (backend # "memory")
  /\ flush = "none"
  /\ panicked = FALSE

-----------------------------------------------------------------------------
(* Reading.                                                                *)

MatchFilter(r, filter) == filter = "all" \/ class[r] = filter

\* The k-th smallest of a set of numbers.
Nth(numbers, k) == CHOOSE n \in numbers : Cardinality({m \in numbers : m <= n}) = k

\* The newest first: Memory keeps the order of the writes, the databases sort by ID.
Newest == IF backend = "memory" THEN Reverse(table)
          ELSE [i \in 1 .. Len(table) |-> Nth(ToSet(table), Len(table) + 1 - i)]

Readable == backend = "memory" \/ life # "closed"

\* A page of the details.  A closed database fails the query, which the collector answers
\* with an empty list.
Query(offset, limit, filter) ==
  LET kept == {i \in 1 .. Len(Newest) : MatchFilter(Newest[i], filter)}
  IN IF Readable THEN [k \in 1 .. Min({limit, Cardinality(kept) - offset}) |-> Newest[Nth(kept, offset + k)]]
     ELSE << >>

\* Memory and Badger answer from counters, SQLite from its table.
Count(filter) ==
  IF backend = "sqlite"
  THEN IF Readable THEN Cardinality({i \in 1 .. Len(table) : MatchFilter(table[i], filter)}) ELSE 0
  ELSE counts[filter]

-----------------------------------------------------------------------------
(* Writing.                                                                *)

\* Every result counts in "all" and in its class.
Counted(rs) ==
  [f \in Filters |-> counts[f] + Cardinality({r \in rs : MatchFilter(r, f)})]

Fails(ok) ==
  /\ ok \/ failures < MaxFailures
  /\ failures' = IF ok THEN failures ELSE failures + 1

\* Memory: prepend and count, under one lock; a closed storage drops the result.
WriteMemory(r) ==
  /\ IF life = "open"
     THEN table' = Append(table, r) /\ counts' = Counted({r}) /\ lost' = lost
     ELSE lost' = lost \cup {<<r, "closed">>} /\ UNCHANGED <<table, counts>>
  /\ UNCHANGED <<queue, failures, panicked>>

\* Mutant: what Badger writes around the channel is not counted.
WriteUncounted(r) ==
  /\ backend = "badger" /\ life \notin {"waiting", "closed"} /\ Len(queue) >= ChannelSize
  /\ UNCHANGED <<queue, table, counts, lost, failures, panicked>>

\* Badger's way around a full channel, a transaction of its own: the result is counted inside
\* of it, before it commits.
CountOne(r) ==
  /\ backend = "badger" /\ life \notin {"waiting", "closed"} /\ Len(queue) >= ChannelSize
  /\ counts' = Counted({r})
  /\ UNCHANGED <<queue, table, lost, failures, panicked>>

\* A commit that fails takes no count back.
CommitOne(r, ok) ==
  /\ Fails(ok)
  /\ IF ok THEN table' = Append(table, r) /\ lost' = lost
           ELSE lost' = lost \cup {<<r, "failed">>} /\ table' = table
  /\ UNCHANGED <<queue, counts, panicked>>

\* Mutant: the channel takes one more.
SendBeyond(r) ==
  /\ IF Len(queue) <= ChannelSize THEN queue' = Append(queue, r) ELSE UNCHANGED queue
  /\ UNCHANGED <<table, counts, lost, failures, panicked>>

\* The send that follows the check of closed, which has released the lock by then.  With a
\* full channel SQLite drops the result; for Badger see CountOne.
Send(r) ==
  IF life \in {"waiting", "closed"}
  THEN panicked' = TRUE /\ UNCHANGED <<queue, table, counts, lost, failures>>
  ELSE /\ IF Len(queue) < ChannelSize
          THEN queue' = Append(queue, r) /\ UNCHANGED <<table, counts, lost, failures>>
          ELSE /\ backend = "sqlite"
               /\ lost' = lost \cup {<<r, "full">>} /\ UNCHANGED <<queue, table, counts, failures>>
       /\ UNCHANGED panicked

\* A batch begins to be written.  Badger counts it while it fills the write batch, before
\* that is flushed.
WriteBatch(rs, kind) ==
  /\ flush' = kind /\ batch' = rs
  /\ counts' = IF backend = "badger" THEN Counted(ToSet(rs)) ELSE counts

\* All of the batch is stored, or all of it is lost; a last one ends the loop.
Flush(ok) ==
  /\ flush # "none" /\ Fails(ok)
  /\ IF ok THEN table' = table \o batch /\ lost' = lost
           ELSE lost' = lost \cup (ToSet(batch) \X {"failed"}) /\ table' = table
  /\ batch' = << >> /\ flush' = "none" /\ loop' = (flush = "batch")
  /\ UNCHANGED <<backend, class, queue, counts, life, panicked>>

\* The loop, when it writes no batch, takes a result from the channel.
Receive ==
  /\ loop /\ flush = "none" /\ queue # << >>
  /\ queue' = Tail(queue)
  /\ LET rs == Append(batch, Head(queue))
     IN IF Len(rs) < BatchSize THEN batch' = rs /\ UNCHANGED <<counts, flush>> ELSE WriteBatch(rs, "batch")
  /\ UNCHANGED <<backend, class, table, lost, failures, life, loop, panicked>>

Tick ==
  /\ loop /\ flush = "none" /\ batch # << >>
  /\ WriteBatch(batch, "batch")
  /\ UNCHANGED <<backend, class, queue, table, lost, failures, life, loop, panicked>>

\* The loop ends when its channel is closed and drained.  Badger's also ends when its context
\* is cancelled, whatever is still in the channel.
Shutdown ==
  /\ loop /\ flush = "none"
  /\ \/ backend = "badger" /\ life \in {"cancelled", "waiting"}
     \/ life = "waiting" /\ queue = << >>
  /\ IF batch = << >> THEN loop' = FALSE /\ UNCHANGED <<batch, counts, flush>>
     ELSE WriteBatch(batch, "last") /\ loop' = loop
  /\ UNCHANGED <<backend, class, queue, table, lost, failures, life, panicked>>

-----------------------------------------------------------------------------
(* Close: the flag, Badger's cancellation, the channel, the wait.          *)

Flag ==
  /\ life = "open"
  /\ life' = IF backend = "memory" THEN "closed" ELSE "flagged"
  /\ UNCHANGED <<backend, class, queue, batch, table, counts, lost, failures, loop, flush, panicked>>

CancelLoop ==
  /\ backend = "badger" /\ life = "flagged"
  /\ life' = "cancelled"
  /\ UNCHANGED <<backend, class, queue, batch, table, counts, lost, failures, loop, flush, panicked>>

CloseChannel ==
  /\ life = IF backend = "badger" THEN "cancelled" ELSE "flagged"
  /\ backend # "memory"
  /\ life' = "waiting"
  /\ UNCHANGED <<backend, class, queue, batch, table, counts, lost, failures, loop, flush, panicked>>

\* Mutant: the database waits for the channel to be empty.
CloseWhenEmpty ==
  /\ life = "waiting" /\ ~loop /\ queue = << >>
  /\ life' = "closed"
  /\ UNCHANGED <<backend, class, queue, batch, table, counts, lost, failures, loop, flush, panicked>>

\* wg.Wait, then the database; results left in Badger's channel are gone.
CloseDatabase ==
  /\ life = "waiting" /\ ~loop
  /\ life' = "closed"
  /\ lost' = lost \cup (ToSet(queue) \X {"abandoned"})
  /\ queue' = << >>
  /\ UNCHANGED <<backend, class, batch, table, counts, failures, loop, flush, panicked>>

LoopStep == Receive \/ Tick \/ Shutdown \/ \E ok \in BOOLEAN : Flush(ok)
CloseStep == CancelLoop \/ CloseChannel \/ CloseDatabase
=============================================================================
