----------------------------- MODULE StatsBuffer ----------------------------
(***************************************************************************)
(* How the results of a slave's runs reach the master's totals: the buffer *)
(* and its flushes (distributed/slave/stats_buffer.go), the calls that     *)
(* slave.go makes of it when a task starts, ends or is stopped, and the    *)
(* stream's handler, the collector and the aggregator on the master        *)
(* (distributed/master/service.go, collector.go, aggregator.go).           *)
(*                                                                         *)
(* A result is a pair of its task and a number.  Flushes are goroutines:   *)
(* the ticker's, those that Add spawns when the buffer is full, and the    *)
(* final one of each run.                                                  *)
(***************************************************************************)
EXTENDS Integers, Sequences, FiniteSets

CONSTANTS
  NumTasks,    \* tasks the slave executes, one after the other
  MaxResults,  \* results of all runs together
  MaxSize,     \* of the buffer, after which Add flushes it
  MaxAsync,    \* how many flushes of a full buffer to explore at a time
  ChannelSize, \* of the collector's channel
  MaxBreaks    \* how many times the connection may break

ASSUME StatsBufferAssumption ==
  /\ {NumTasks, MaxResults, MaxSize, MaxAsync, ChannelSize} \subseteq Nat \ {0}
  /\ MaxBreaks \in Nat

Tasks == 1 .. NumTasks
NoTask == 0  \* the empty ID, under which the aggregator files "default"
IDs == Tasks \cup {NoTask}
Results == Tasks \X (1 .. MaxResults)

Ticker == <<"ticker", 0>>
Async == {"async"} \X (1 .. MaxAsync)
Flushers == {Ticker} \cup Async \cup ({"run"} \X Tasks)

VARIABLES
  run,       \* where each task's goroutine is
  holder,    \* currentTaskID of the slave
  made,      \* how many results the runs have produced
  stopped,   \* tasks that were stopped
  taskID,    \* of the buffer
  buffer,    \* results not yet flushed
  stage,     \* where each flush is
  batch,     \* the results it took
  closing,   \* goroutines about to close the stream
  stream,    \* reportStream; "closing" holds the lock until the master answers
  transit,   \* what was sent on the stream and not received
  channel,   \* of the collector
  total,     \* TotalRequests of each task's aggregation
  credited,  \* which result was added under which ID
  lost,      \* which result was lost, and how
  breaks, failures \* of the connection, and the sends that failed

runVars == <<run, holder, made, stopped>>
flushVars == <<stage, batch>>
streamVars == <<closing, stream, transit>>
masterVars == <<channel, total, credited>>
faultVars == <<breaks, failures>>
vars == <<runVars, taskID, buffer, flushVars, streamVars, masterVars, lost, faultVars>>

Messages == [id : IDs, results : SUBSET Results]
Causes == {"unassigned", "stream", "full"}

TypeOK ==
  /\ run \in [Tasks -> {"waiting", "running", "ending", "ended"}]
  /\ holder \in IDs /\ taskID \in IDs
  /\ made \in 0 .. MaxResults
  /\ stopped \subseteq Tasks
  /\ buffer \subseteq Results
  /\ stage \in [Flushers -> {"idle", "take", "check", "send"}]
  /\ batch \in [Flushers -> SUBSET Results]
  /\ closing \subseteq {"run", "stop"} \X Tasks
  /\ stream \in {"none", "open", "closing", "broken"}
  /\ transit \in Seq(Messages)
  /\ channel \in Seq(Messages)
  /\ Len(channel) <= ChannelSize
  /\ total \in [IDs -> Nat]
  /\ credited \subseteq Results \X IDs
  /\ lost \subseteq Results \X Causes
  /\ breaks \in 0 .. MaxBreaks
  /\ failures \in Nat

Init ==
  /\ run = [t \in Tasks |-> "waiting"]
  /\ holder = NoTask /\ taskID = NoTask
  /\ made = 0
  /\ stopped = {}
  /\ buffer = {}
  /\ stage = [f \in Flushers |-> "idle"]
  /\ batch = [f \in Flushers |-> {}]
  /\ closing = {} /\ stream = "none" /\ transit = <<>>
  /\ channel = <<>>
  /\ total = [id \in IDs |-> 0]
  /\ credited = {} /\ lost = {}
  /\ breaks = 0 /\ failures = 0

Advance(f, from, next) == stage[f] = from /\ stage' = [stage EXCEPT ![f] = next]

Lose(results, cause) == lost' = lost \cup (results \X {cause})
-----------------------------------------------------------------------------
(* The slave's tasks.                                                      *)

\* Mutant: the buffer keeps the ID of the task before.
StartMutant(t) ==
  /\ run[t] = "waiting" /\ \A u \in 1 .. t - 1 : run[u] # "waiting"
  /\ holder = NoTask
  /\ run' = [run EXCEPT ![t] = "running"]
  /\ holder' = t
  /\ taskID' = IF taskID = NoTask THEN t ELSE taskID
  /\ UNCHANGED <<made, stopped, buffer, flushVars, streamVars, masterVars, lost, faultVars>>

\* ExecuteTask: a slave that holds a task refuses.  Tasks come in order.
Start(t) ==
  /\ run[t] = "waiting" /\ \A u \in 1 .. t - 1 : run[u] # "waiting"
  /\ holder = NoTask
  /\ run' = [run EXCEPT ![t] = "running"]
  /\ holder' = t
  /\ taskID' = t
  /\ UNCHANGED <<made, stopped, buffer, flushVars, streamVars, masterVars, lost, faultVars>>

\* A result of the run, also of one that was stopped and is still ending.  A
\* full buffer is flushed in a goroutine of its own.
Add(t) ==
  /\ run[t] = "running" /\ made < MaxResults
  /\ made' = made + 1
  /\ buffer' = buffer \cup {<<t, made'>>}
  /\ IF Cardinality(buffer') >= MaxSize
     THEN \E f \in Async : Advance(f, "idle", "take")
     ELSE UNCHANGED stage
  /\ UNCHANGED <<run, holder, stopped, taskID, batch, streamVars, masterVars, lost, faultVars>>

\* Mutant: the end of a run clears the buffer's task, like StopTask.
EndMutant(t) ==
  /\ run[t] = "running"
  /\ run' = [run EXCEPT ![t] = "ending"]
  /\ holder' = NoTask
  /\ taskID' = NoTask
  /\ Advance(<<"run", t>>, "idle", "take")
  /\ UNCHANGED <<made, stopped, buffer, batch, streamVars, masterVars, lost, faultVars>>

\* The run ends and frees the slave, whoever holds it; then it flushes ...
End(t) ==
  /\ run[t] = "running"
  /\ run' = [run EXCEPT ![t] = "ending"]
  /\ holder' = NoTask
  /\ Advance(<<"run", t>>, "idle", "take")
  /\ UNCHANGED <<made, stopped, taskID, buffer, batch, streamVars, masterVars, lost, faultVars>>

\* ... and closes the stream.
FinalFlushDone(t) ==
  /\ run[t] = "ending" /\ stage[<<"run", t>>] = "idle"
  /\ run' = [run EXCEPT ![t] = "ended"]
  /\ closing' = closing \cup {<<"run", t>>}
  /\ UNCHANGED <<holder, made, stopped, taskID, buffer, flushVars, stream, transit,
                 masterVars, lost, faultVars>>

StopTask(t) ==
  /\ holder = t
  /\ holder' = NoTask
  /\ taskID' = NoTask
  /\ stopped' = stopped \cup {t}
  /\ closing' = closing \cup {<<"stop", t>>}
  /\ UNCHANGED <<run, made, buffer, flushVars, stream, transit, masterVars, lost, faultVars>>
-----------------------------------------------------------------------------
(* Flush.                                                                  *)

\* Mutant: the buffer is copied and not emptied.
TakeMutant(f) ==
  /\ Advance(f, IF f = Ticker THEN "idle" ELSE "take", IF buffer = {} THEN "idle" ELSE "check")
  /\ f = Ticker => buffer # {}
  /\ batch' = [batch EXCEPT ![f] = buffer]
  /\ UNCHANGED <<runVars, taskID, buffer, streamVars, masterVars, lost, faultVars>>

\* Under bufferMu the buffer is copied and emptied.  Ticks that find it empty
\* change nothing.
Take(f) ==
  /\ Advance(f, IF f = Ticker THEN "idle" ELSE "take", IF buffer = {} THEN "idle" ELSE "check")
  /\ f = Ticker => buffer # {}
  /\ batch' = [batch EXCEPT ![f] = buffer]
  /\ buffer' = {}
  /\ UNCHANGED <<runVars, taskID, streamVars, masterVars, lost, faultVars>>

\* Without a task ID the batch is dropped, and Flush reports no error.
Check(f) ==
  /\ Advance(f, "check", IF taskID = NoTask THEN "idle" ELSE "send")
  /\ IF taskID = NoTask
     THEN /\ Lose(batch[f], "unassigned")
          /\ batch' = [batch EXCEPT ![f] = {}]
     ELSE UNCHANGED <<lost, batch>>
  /\ UNCHANGED <<runVars, taskID, buffer, streamVars, masterVars, faultVars>>

\* sendToMaster, under streamMu: it opens a stream if there is none and reads
\* the task ID again.
Send(f) ==
  /\ stream \in {"none", "open"}
  /\ Advance(f, "send", "idle")
  /\ batch' = [batch EXCEPT ![f] = {}]
  /\ stream' = "open"
  /\ transit' = Append(transit, [id |-> taskID, results |-> batch[f]])
  /\ UNCHANGED <<runVars, taskID, buffer, closing, masterVars, lost, faultVars>>

\* The stream cannot be opened, or is one whose connection broke: the batch is
\* lost, and a broken stream is kept.
SendFails(f) ==
  /\ \/ stream = "broken" /\ UNCHANGED breaks
     \/ stream = "none" /\ breaks < MaxBreaks /\ breaks' = breaks + 1
  /\ Advance(f, "send", "idle")
  /\ batch' = [batch EXCEPT ![f] = {}]
  /\ Lose(batch[f], "stream")
  /\ failures' = failures + 1
  /\ UNCHANGED <<runVars, taskID, buffer, streamVars, masterVars>>
-----------------------------------------------------------------------------
(* The stream.                                                             *)

\* CloseStream takes streamMu and waits for the master's answer; a broken
\* stream cannot be closed and is kept.
CloseStream(c) ==
  /\ c \in closing /\ stream # "closing"
  /\ closing' = closing \ {c}
  /\ stream' = IF stream = "open" THEN "closing" ELSE stream
  /\ UNCHANGED <<runVars, taskID, buffer, flushVars, transit, masterVars, lost, faultVars>>

\* Mutant: the closed stream is not forgotten.
StreamClosedMutant ==
  /\ stream = "closing" /\ transit = <<>>
  /\ stream' = "broken"
  /\ UNCHANGED <<runVars, taskID, buffer, flushVars, closing, transit, masterVars, lost, faultVars>>

\* The handler has read all, and its answer arrives.
StreamClosed ==
  /\ stream = "closing" /\ transit = <<>>
  /\ stream' = "none"
  /\ UNCHANGED <<runVars, taskID, buffer, flushVars, closing, transit, masterVars, lost, faultVars>>

\* The connection breaks, and a part of what was sent with it.  (A new one is
\* there at once: whether it is, the slave finds out by SendFails.)
Break ==
  /\ stream \in {"open", "closing"} /\ breaks < MaxBreaks
  /\ breaks' = breaks + 1
  /\ stream' = "broken"
  /\ \E n \in 0 .. Len(transit) :
       /\ transit' = SubSeq(transit, 1, n)
       /\ Lose(UNION {transit[i].results : i \in n + 1 .. Len(transit)}, "stream")
  /\ UNCHANGED <<runVars, taskID, buffer, flushVars, closing, masterVars, failures>>
-----------------------------------------------------------------------------
(* The master.                                                             *)

\* Mutant: off by one at the channel's limit.
ReceiveMutant ==
  /\ transit # <<>>
  /\ transit' = Tail(transit)
  /\ IF Len(channel) <= ChannelSize
     THEN channel' = Append(channel, Head(transit)) /\ UNCHANGED lost
     ELSE Lose(Head(transit).results, "full") /\ UNCHANGED channel
  /\ UNCHANGED <<runVars, taskID, buffer, flushVars, closing, stream, total, credited, faultVars>>

\* The stream's handler collects what it reads; a full channel drops it.
Receive ==
  /\ transit # <<>>
  /\ transit' = Tail(transit)
  /\ IF Len(channel) < ChannelSize
     THEN channel' = Append(channel, Head(transit)) /\ UNCHANGED lost
     ELSE Lose(Head(transit).results, "full") /\ UNCHANGED channel
  /\ UNCHANGED <<runVars, taskID, buffer, flushVars, closing, stream, total, credited, faultVars>>

\* The collector's goroutine adds a batch to the totals of its ID.
ProcessStats ==
  /\ channel # <<>>
  /\ channel' = Tail(channel)
  /\ LET m == Head(channel) IN
       /\ total' = [total EXCEPT ![m.id] = @ + Cardinality(m.results)]
       /\ credited' = credited \cup (m.results \X {m.id})
  /\ UNCHANGED <<runVars, taskID, buffer, flushVars, streamVars, lost, faultVars>>
-----------------------------------------------------------------------------

\* Steps of goroutines and handlers that wait for nobody outside.
Progress ==
  \/ \E f \in Flushers : Take(f) \/ Check(f) \/ Send(f) \/ SendFails(f)
  \/ \E t \in Tasks : FinalFlushDone(t)
  \/ \E c \in closing : CloseStream(c)
  \/ StreamClosed \/ Receive \/ ProcessStats

Next ==
  \/ \E t \in Tasks : Start(t) \/ Add(t) \/ End(t) \/ StopTask(t)
  \/ Progress \/ Break

\* As long as one of them can go on, one does.
Fairness == WF_vars(Progress)

Spec == Init /\ [][Next]_vars /\ Fairness
-----------------------------------------------------------------------------
(* Properties.                                                             *)

\* The places of a result: the buffer, flushes, messages, totals and losses.
Where(r) ==
  {"buffer"} \X (IF r \in buffer THEN {0} ELSE {})
    \cup {f \in Flushers : r \in batch[f]}
    \cup {"transit"} \X {i \in DOMAIN transit : r \in transit[i].results}
    \cup {"channel"} \X {i \in DOMAIN channel : r \in channel[i].results}
    \cup {"total"} \X {id \in IDs : <<r, id>> \in credited}
    \cup {cause \in Causes : <<r, cause>> \in lost} \X {0}

Placed == {r \in Results : Where(r) # {}}

\* Every result is in one place, once, and the totals are the numbers of results
\* added to them.  Flushes that overlap neither count a result twice nor drop
\* one between them.
Accounted ==
  /\ \A r \in Placed : Cardinality(Where(r)) = 1
  /\ Cardinality(Placed) = made
  /\ \A id \in IDs : total[id] = Cardinality({c \in credited : c[2] = id})

StoppedSince(r) == \E t \in stopped : t >= r[1]

\* A flush may credit results to the task that the slave holds by then, or,
\* after a stop, to none; but never to a task before their own.
OwnOrLater ==
  \A c \in credited : c[2] >= c[1][1] \/ (c[2] = NoTask /\ StoppedSince(c[1]))

\* A batch is dropped for want of a task only after a stop, and lost on the
\* stream only after a break: neither the end of a run, whose final flush comes
\* after the slave was freed, nor the closing of the stream loses any.
LossHasCause ==
  \A l \in lost :
    /\ l[2] = "unassigned" => StoppedSince(l[1])
    /\ l[2] = "stream" => breaks > 0

Counted(r) == \E id \in IDs : <<r, id>> \in credited

\* If nothing is stopped or breaks and the collector keeps up, every result
\* that was added is in the end counted.
EverythingCounted ==
  \A r \in Results :
    r \in buffer ~> \/ Counted(r) \/ <<r, "full">> \in lost
                    \/ stopped # {} \/ breaks > 0

\* A slave reconnects by itself (docs/DISTRIBUTED_MODE.md, on failures of the
\* master): each break of the connection makes one send fail at most.
SendsRecover == failures <= breaks
=============================================================================
