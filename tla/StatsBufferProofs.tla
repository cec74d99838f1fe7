------------------------- MODULE StatsBufferProofs --------------------------
(***************************************************************************)
(* Proofs about StatsBuffer, for any number of tasks, results, flushes and *)
(* breaks, and any size of the buffer and the channel.  IInv is where the  *)
(* results come from and what task they can meet; PlaceInv that none is    *)
(* in two places at a time.                                                *)
(***************************************************************************)
EXTENDS StatsBuffer, FiniteSetTheorems, SequenceTheorems, TLAPS

\* The tuples of variables and the helpers of actions are abbreviations.
USE DEF runVars, flushVars, streamVars, masterVars, faultVars, Advance, Lose

LEMMA ConstantTypes ==
  /\ NumTasks \in Nat /\ MaxResults \in Nat /\ ChannelSize \in Nat \ {0} /\ MaxBreaks \in Nat
  /\ Tasks \subseteq Nat \ {NoTask}
BY StatsBufferAssumption DEF Tasks, NoTask

LEMMA ResultsFinite == \A R \in SUBSET Results : IsFiniteSet(R) /\ Cardinality(R) \in Nat
<1>1. IsFiniteSet(Tasks) /\ IsFiniteSet(1 .. MaxResults)
  BY ConstantTypes, FS_Interval DEF Tasks
<1>2. IsFiniteSet(Results)
  BY <1>1, FS_Product DEF Results
<1>3. QED
  BY <1>2, FS_Subset, FS_CardinalityType

LEMMA FlusherOfRun == Ticker \in Flushers /\ \A t \in Tasks : <<"run", t>> \in Flushers
BY DEF Flushers
-----------------------------------------------------------------------------
(* Types.                                                                  *)

LEMMA TypeInit == Init => TypeOK
BY ConstantTypes DEF Init, TypeOK, IDs, NoTask

LEMMA TypeOfTasks ==
  ASSUME TypeOK, NEW t \in Tasks,
         Start(t) \/ Add(t) \/ End(t) \/ FinalFlushDone(t) \/ StopTask(t)
  PROVE  TypeOK'
<1> USE ConstantTypes
<1>1. CASE Start(t)          BY <1>1 DEF TypeOK, Start, IDs
<1>2. CASE Add(t)
  <2>1. buffer' \subseteq Results /\ made' \in 0 .. MaxResults
    BY <1>2 DEF Add, TypeOK, Results
  <2>2. stage' \in [Flushers -> {"idle", "take", "check", "send"}]
    BY <1>2 DEF Add, TypeOK, Async, Flushers
  <2>3. QED BY <1>2, <2>1, <2>2 DEF Add, TypeOK
<1>3. CASE End(t)            BY <1>3, FlusherOfRun DEF TypeOK, End, IDs
<1>4. CASE FinalFlushDone(t) BY <1>4 DEF TypeOK, FinalFlushDone
<1>5. CASE StopTask(t)       BY <1>5 DEF TypeOK, StopTask, IDs
<1>6. QED BY <1>1, <1>2, <1>3, <1>4, <1>5

LEMMA TypeOfFlush ==
  ASSUME TypeOK, NEW f \in Flushers, Take(f) \/ Check(f) \/ Send(f) \/ SendFails(f)
  PROVE  TypeOK'
<1> USE ConstantTypes
<1>1. CASE Take(f)  BY <1>1 DEF TypeOK, Take
<1>2. CASE Check(f)
  <2>1. batch[f] \subseteq Results
    BY DEF TypeOK
  <2>2. lost' \subseteq Results \X Causes
    BY <1>2, <2>1 DEF Check, TypeOK, Causes
  <2>3. stage' \in [Flushers -> {"idle", "take", "check", "send"}]
    BY <1>2 DEF Check, TypeOK
  <2>4. batch' \in [Flushers -> SUBSET Results]
    BY <1>2 DEF Check, TypeOK
  <2>5. QED BY <1>2, <2>2, <2>3, <2>4 DEF Check, TypeOK
<1>3. CASE Send(f)
  <2>1. transit' \in Seq(Messages)
    BY <1>3, AppendProperties DEF Send, TypeOK, Messages
  <2>2. QED BY <1>3, <2>1 DEF Send, TypeOK
<1>4. CASE SendFails(f)
  <2>1. breaks' \in 0 .. MaxBreaks /\ failures' \in Nat
    BY <1>4 DEF SendFails, TypeOK
  <2>2. QED BY <1>4, <2>1 DEF SendFails, TypeOK, Causes
<1>5. QED BY <1>1, <1>2, <1>3, <1>4

LEMMA TypeOfStream ==
  ASSUME TypeOK, (\E c \in closing : CloseStream(c)) \/ StreamClosed \/ Break \/ Receive
  PROVE  TypeOK'
<1> USE ConstantTypes
<1>1. CASE \E c \in closing : CloseStream(c) BY <1>1 DEF TypeOK, CloseStream
<1>2. CASE StreamClosed                      BY <1>2 DEF TypeOK, StreamClosed
<1>3. CASE Break
  <2>1. PICK n \in 0 .. Len(transit) :
          /\ transit' = SubSeq(transit, 1, n)
          /\ lost' = lost \cup ((UNION {transit[i].results : i \in n + 1 .. Len(transit)}) \X {"stream"})
    BY <1>3 DEF Break
  <2>2. transit' \in Seq(Messages)
    BY <2>1, SubSeqProperties DEF TypeOK
  <2>3. \A i \in n + 1 .. Len(transit) : transit[i].results \subseteq Results
    <3>1. TAKE i \in n + 1 .. Len(transit)
    <3>2. transit[i] \in Messages
      BY ElementOfSeq DEF TypeOK
    <3>3. QED BY <3>2 DEF Messages
  <2>4. lost' \subseteq Results \X Causes
    BY <2>1, <2>3 DEF TypeOK, Causes
  <2>5. breaks' \in 0 .. MaxBreaks
    BY <1>3 DEF Break, TypeOK
  <2>6. QED BY <1>3, <2>2, <2>4, <2>5 DEF Break, TypeOK
<1>4. CASE Receive
  <2>1. Head(transit) \in Messages /\ transit' \in Seq(Messages)
    BY <1>4, HeadTailProperties DEF Receive, TypeOK
  <2>2. channel' \in Seq(Messages) /\ Len(channel') <= ChannelSize
    <3>1. CASE Len(channel) < ChannelSize
      <4>1. channel' = Append(channel, Head(transit))
        BY <1>4, <3>1 DEF Receive
      <4>2. channel' \in Seq(Messages) /\ Len(channel') = Len(channel) + 1
        BY <2>1, <4>1, AppendProperties DEF TypeOK
      <4>3. QED BY <3>1, <4>2, LenProperties DEF TypeOK
    <3>2. CASE ~(Len(channel) < ChannelSize)
      BY <1>4, <3>2 DEF Receive, TypeOK
    <3>3. QED BY <3>1, <3>2
  <2>3. lost' \subseteq Results \X Causes
    BY <1>4, <2>1 DEF Causes, Receive, TypeOK, Messages
  <2>4. QED BY <1>4, <2>1, <2>2, <2>3 DEF Receive, TypeOK
<1>5. QED BY <1>1, <1>2, <1>3, <1>4

LEMMA TypeOfCollector == ASSUME TypeOK, ProcessStats PROVE TypeOK'
<1>1. Head(channel) \in Messages /\ channel' \in Seq(Messages) /\ Len(channel') <= ChannelSize
  BY ConstantTypes, HeadTailProperties DEF ProcessStats, TypeOK
<1>2. /\ Head(channel).id \in IDs
      /\ Head(channel).results \subseteq Results
      /\ Cardinality(Head(channel).results) \in Nat
  BY <1>1, ResultsFinite DEF Messages
<1>3. total' \in [IDs -> Nat] /\ credited' \subseteq Results \X IDs
  BY <1>2 DEF ProcessStats, TypeOK
<1>4. QED BY <1>1, <1>3 DEF ProcessStats, TypeOK

LEMMA TypeStep == TypeOK /\ [Next]_vars => TypeOK'
<1>1. TypeOK /\ UNCHANGED vars => TypeOK'
  BY DEF TypeOK, vars
<1>2. QED
  BY <1>1, TypeOfTasks, TypeOfFlush, TypeOfStream, TypeOfCollector DEF Next, Progress

\* The buffer, the stream, the channel (which never holds more than its size)
\* and the totals keep their types.
THEOREM BufferTypeCorrect == Spec => []TypeOK
BY TypeInit, TypeStep, PTL DEF Spec
-----------------------------------------------------------------------------
(* Where results go.                                                       *)

Started(t) == run[t] # "waiting"

\* The buffer's task is the last one that started, or was stopped since.
TaskInv ==
  /\ \A t \in Tasks : Started(t) => \A u \in 1 .. t - 1 : Started(u)
  /\ holder # NoTask => holder = taskID
  /\ \A t \in Tasks : Started(t) =>
       IF taskID = NoTask THEN \E u \in stopped : u >= t ELSE t <= taskID

\* Results not yet sent belong to tasks that started.
UnsentInv ==
  /\ \A r \in buffer : Started(r[1])
  /\ \A f \in Flushers : \A r \in batch[f] : Started(r[1])

Fits(id, r) == id >= r[1] \/ (id = NoTask /\ StoppedSince(r))

\* Results that were sent carry their own task, a later one, or none.
SentInv ==
  /\ \A i \in 1 .. Len(transit) : \A r \in transit[i].results : Fits(transit[i].id, r)
  /\ \A i \in 1 .. Len(channel) : \A r \in channel[i].results : Fits(channel[i].id, r)
  /\ OwnOrLater

LossInv ==
  /\ stream = "broken" => breaks > 0
  /\ LossHasCause

IInv == TypeOK /\ TaskInv /\ UnsentInv /\ SentInv /\ LossInv

LEMMA InvInit == Init => IInv
BY TypeInit DEF Init, IInv, TaskInv, UnsentInv, SentInv, LossInv, Started, OwnOrLater,
   LossHasCause, NoTask

\* The ID that a flush finds fits what it took from the buffer.
LEMMA TaskIDFits ==
  ASSUME TypeOK, TaskInv, NEW r \in Results, Started(r[1])
  PROVE  Fits(taskID, r)
BY ConstantTypes DEF TypeOK, TaskInv, Fits, StoppedSince, Results, IDs

LEMMA InvOfTasks ==
  ASSUME IInv, NEW t \in Tasks,
         Start(t) \/ Add(t) \/ End(t) \/ FinalFlushDone(t) \/ StopTask(t)
  PROVE  TaskInv' /\ UnsentInv' /\ SentInv' /\ LossInv'
<1> USE ConstantTypes
<1>1. /\ \A u \in Tasks : Started(u) => Started(u)'
      /\ stopped \subseteq stopped'
      /\ UNCHANGED <<stream, transit, channel, credited, lost, breaks, batch>>
  BY DEF Start, Add, End, FinalFlushDone, StopTask, Started, IInv, TypeOK
<1>2. TaskInv'
  <2>1. CASE Start(t)
    <3>1. /\ holder' = t /\ taskID' = t /\ taskID' # NoTask
          /\ \A u \in Tasks : Started(u)' <=> Started(u) \/ u = t
      BY <2>1 DEF Start, Started, IInv, TypeOK
    <3>2. /\ \A u \in 1 .. t - 1 : Started(u)
          /\ \A u \in Tasks : Started(u) => u < t
      BY <2>1 DEF Start, Started, IInv, TaskInv, Tasks
    <3>3. \A u \in Tasks : \A v \in 1 .. u - 1 : v \in Tasks
      BY DEF Tasks
    <3>4. QED BY <3>1, <3>2, <3>3 DEF IInv, TaskInv
  <2>2. CASE Add(t)            BY <2>2 DEF IInv, TypeOK, TaskInv, Started, Add
  <2>3. CASE End(t)            BY <2>3 DEF IInv, TypeOK, TaskInv, Started, End
  <2>4. CASE FinalFlushDone(t) BY <2>4 DEF IInv, TypeOK, TaskInv, Started, FinalFlushDone
  <2>5. CASE StopTask(t)       BY <2>5 DEF IInv, TypeOK, TaskInv, Started, StopTask
  <2>6. QED BY <2>1, <2>2, <2>3, <2>4, <2>5
<1>3. UnsentInv'
  <2>1. \A r \in buffer' : Started(r[1])'
    <3>1. \A r \in buffer : Started(r[1])'
      <4>1. TAKE r \in buffer
      <4>2. r[1] \in Tasks /\ Started(r[1])
        BY DEF IInv, TypeOK, UnsentInv, Results
      <4>3. QED BY <1>1, <4>2
    <3>2. buffer' = buffer \/ (Add(t) /\ buffer' = buffer \cup {<<t, made'>>})
      BY DEF Start, Add, End, FinalFlushDone, StopTask
    <3>3. Add(t) => Started(t)'
      BY DEF Add, Started
    <3>4. QED BY <3>1, <3>2, <3>3
  <2>2. \A f \in Flushers : \A r \in batch[f] : Started(r[1])'
    <3> TAKE f \in Flushers
    <3>1. TAKE r \in batch[f]
    <3>2. r \in Results
      BY DEF IInv, TypeOK
    <3>3. r[1] \in Tasks /\ Started(r[1])
      BY <3>2 DEF IInv, UnsentInv, Results
    <3>4. QED BY <1>1, <3>3
  <2>3. QED BY <1>1, <2>1, <2>2 DEF UnsentInv
<1>4. SentInv' /\ LossInv'
  BY <1>1 DEF IInv, SentInv, LossInv, Fits, OwnOrLater, LossHasCause, StoppedSince
<1>5. QED BY <1>2, <1>3, <1>4

LEMMA InvOfFlush ==
  ASSUME IInv, NEW f \in Flushers, Take(f) \/ Check(f) \/ Send(f) \/ SendFails(f)
  PROVE  TaskInv' /\ UnsentInv' /\ SentInv' /\ LossInv'
<1> USE ConstantTypes
<1>1. UNCHANGED <<run, holder, stopped, taskID, channel, credited>>
  BY DEF Take, Check, Send, SendFails
<1>2. TaskInv'
  BY <1>1 DEF IInv, TaskInv, Started
<1>3. UnsentInv'
  <2>1. buffer' \subseteq buffer
    BY DEF Take, Check, Send, SendFails
  <2>2. \A g \in Flushers : batch'[g] \subseteq batch[g] \cup buffer
    BY DEF Take, Check, Send, SendFails, IInv, TypeOK
  <2>3. QED BY <1>1, <2>1, <2>2 DEF IInv, UnsentInv, Started
<1>4. \A r \in batch[f] : r \in Results /\ Fits(taskID, r)
  <2>1. batch[f] \subseteq Results
    BY DEF IInv, TypeOK
  <2>2. TypeOK /\ TaskInv /\ \A r \in batch[f] : Started(r[1])
    BY DEF IInv, UnsentInv
  <2>3. QED BY <2>1, <2>2, TaskIDFits
<1>5. SentInv'
  <2>1. CASE ~Send(f)
    BY <1>1, <2>1 DEF Take, Check, SendFails, IInv, SentInv, Fits, OwnOrLater, StoppedSince
  <2>2. CASE Send(f)
    <3> DEFINE m == [id |-> taskID, results |-> batch[f]]
    <3>1. transit \in Seq(Messages) /\ transit' = Append(transit, m)
      BY <2>2 DEF Send, IInv, TypeOK
    <3>2. /\ Len(transit') = Len(transit) + 1
          /\ transit'[Len(transit) + 1] = m
          /\ \A i \in 1 .. Len(transit) : transit'[i] = transit[i]
      <4>1. m \in Messages
        BY DEF IInv, TypeOK, Messages
      <4>2. QED BY <3>1, <4>1, AppendProperties
    <3>3. ASSUME NEW i \in 1 .. Len(transit'), NEW r \in transit'[i].results
          PROVE  Fits(transit'[i].id, r)
      <4>1. CASE i \in 1 .. Len(transit)
        BY <4>1, <3>2, <3>3 DEF IInv, SentInv
      <4>2. CASE i = Len(transit) + 1
        BY <4>2, <3>2, <3>3, <1>4
      <4>3. QED BY <3>1, <3>2, <4>1, <4>2, LenProperties
    <3>4. QED BY <1>1, <3>3 DEF IInv, SentInv, Fits, OwnOrLater, StoppedSince
  <2>3. QED BY <2>1, <2>2
<1>6. LossInv'
  <2>1. CASE Take(f) BY <2>1 DEF Take, IInv, LossInv, LossHasCause, StoppedSince
  <2>2. CASE Check(f)
    <3>1. ASSUME taskID = NoTask, NEW r \in batch[f] PROVE StoppedSince(r)
      <4>1. r[1] \in Nat /\ r[1] # 0
        BY <1>4 DEF Results, NoTask
      <4>2. QED BY <1>4, <3>1, <4>1 DEF Fits, NoTask
    <3>2. QED BY <2>2, <3>1 DEF Check, IInv, LossInv, LossHasCause, StoppedSince
  <2>3. CASE Send(f) BY <2>3 DEF Send, IInv, LossInv, LossHasCause, StoppedSince
  <2>4. CASE SendFails(f)
    <3>1. breaks' > 0
      BY <2>4 DEF SendFails, IInv, TypeOK, LossInv
    <3>2. QED BY <2>4, <3>1 DEF SendFails, IInv, LossInv, LossHasCause, StoppedSince
  <2>5. QED BY <2>1, <2>2, <2>3, <2>4
<1>7. QED BY <1>2, <1>3, <1>5, <1>6

LEMMA InvOfMaster ==
  ASSUME IInv, (\E c \in closing : CloseStream(c)) \/ StreamClosed \/ Break \/ Receive \/ ProcessStats
  PROVE  TaskInv' /\ UnsentInv' /\ SentInv' /\ LossInv'
<1> USE ConstantTypes
<1>1. UNCHANGED <<run, holder, stopped, taskID, buffer, batch>>
  BY DEF CloseStream, StreamClosed, Break, Receive, ProcessStats
<1>2. TaskInv' /\ UnsentInv'
  BY <1>1 DEF IInv, TaskInv, UnsentInv, Started
<1>3. CASE (\E c \in closing : CloseStream(c)) \/ StreamClosed
  BY <1>2, <1>3 DEF CloseStream, StreamClosed, IInv, SentInv, LossInv, Fits, OwnOrLater,
                    LossHasCause, StoppedSince
<1>4. CASE Break
  <2>1. PICK n \in 0 .. Len(transit) :
          /\ transit' = SubSeq(transit, 1, n)
          /\ lost' = lost \cup ((UNION {transit[i].results : i \in n + 1 .. Len(transit)}) \X {"stream"})
    BY <1>4 DEF Break
  <2>2. Len(transit') <= Len(transit) /\ \A i \in 1 .. Len(transit') : transit'[i] = transit[i]
    BY <2>1, SubSeqProperties, LenProperties DEF IInv, TypeOK
  <2>3. \A i \in 1 .. Len(transit') : i \in 1 .. Len(transit)
    BY <2>2, LenProperties DEF IInv, TypeOK
  <2>4. SentInv'
    BY <1>1, <1>4, <2>2, <2>3 DEF Break, IInv, SentInv, Fits, OwnOrLater, StoppedSince
  <2>5. breaks' > 0
    BY <1>4 DEF Break, IInv, TypeOK
  <2>6. LossInv'
    BY <1>1, <2>1, <2>5 DEF IInv, LossInv, LossHasCause, StoppedSince
  <2>7. QED BY <1>2, <2>4, <2>6
<1>5. CASE Receive
  <2>1. /\ Len(transit') = Len(transit) - 1
        /\ \A i \in 1 .. Len(transit') : transit'[i] = transit[i + 1]
        /\ Len(transit) \in Nat \ {0} /\ Head(transit) = transit[1]
    BY <1>5, HeadTailProperties, LenProperties DEF Receive, IInv, TypeOK
  <2>2. \A i \in 1 .. Len(transit') : \A r \in transit'[i].results : Fits(transit'[i].id, r)
    BY <2>1 DEF IInv, SentInv
  <2>3. \A r \in Head(transit).results : Fits(Head(transit).id, r)
    BY <2>1 DEF IInv, SentInv
  <2>4. \A i \in 1 .. Len(channel') : \A r \in channel'[i].results : Fits(channel'[i].id, r)
    <3>1. CASE channel' = channel
      BY <3>1 DEF IInv, SentInv
    <3>2. CASE channel' = Append(channel, Head(transit))
      <4>1. channel \in Seq(Messages) /\ Head(transit) \in Messages
        BY <1>5, HeadTailProperties DEF Receive, IInv, TypeOK
      <4>2. /\ Len(channel') = Len(channel) + 1
            /\ channel'[Len(channel) + 1] = Head(transit)
            /\ \A i \in 1 .. Len(channel) : channel'[i] = channel[i]
        BY <3>2, <4>1, AppendProperties
      <4>3. SUFFICES ASSUME NEW i \in 1 .. Len(channel'), NEW r \in channel'[i].results
                     PROVE  Fits(channel'[i].id, r)
        OBVIOUS
      <4>4. CASE i \in 1 .. Len(channel)
        BY <4>2, <4>4 DEF IInv, SentInv
      <4>5. CASE i = Len(channel) + 1
        BY <2>3, <4>2, <4>5
      <4>6. QED BY <4>1, <4>2, <4>4, <4>5, LenProperties
    <3>3. QED BY <1>5, <3>1, <3>2 DEF Receive
  <2>5. SentInv'
    BY <1>1, <1>5, <2>2, <2>4 DEF Receive, IInv, SentInv, Fits, OwnOrLater, StoppedSince
  <2>6. LossInv'
    BY <1>1, <1>5 DEF Receive, IInv, LossInv, LossHasCause, StoppedSince
  <2>7. QED BY <1>2, <2>5, <2>6
<1>6. CASE ProcessStats
  <2>1. /\ Len(channel') = Len(channel) - 1
        /\ \A i \in 1 .. Len(channel') : channel'[i] = channel[i + 1]
        /\ Len(channel) \in Nat \ {0} /\ Head(channel) = channel[1]
    BY <1>6, HeadTailProperties, LenProperties DEF ProcessStats, IInv, TypeOK
  <2>2. \A i \in 1 .. Len(channel') : \A r \in channel'[i].results : Fits(channel'[i].id, r)
    BY <2>1 DEF IInv, SentInv
  <2>3. \A r \in Head(channel).results : Fits(Head(channel).id, r)
    BY <2>1 DEF IInv, SentInv
  <2>4. OwnOrLater'
    BY <1>1, <1>6, <2>3 DEF ProcessStats, IInv, SentInv, Fits, OwnOrLater, StoppedSince
  <2>5. SentInv'
    BY <1>1, <1>6, <2>2, <2>4 DEF ProcessStats, IInv, SentInv, Fits, StoppedSince
  <2>6. LossInv'
    BY <1>1, <1>6 DEF ProcessStats, IInv, LossInv, LossHasCause, StoppedSince
  <2>7. QED BY <1>2, <2>5, <2>6
<1>7. QED BY <1>3, <1>4, <1>5, <1>6

LEMMA InvStep == IInv /\ [Next]_vars => IInv'
<1> SUFFICES ASSUME IInv, [Next]_vars PROVE IInv'
  OBVIOUS
<1>1. TypeOK'
  BY TypeStep DEF IInv
<1>2. CASE UNCHANGED vars
  BY <1>1, <1>2 DEF vars, IInv, TaskInv, UnsentInv, SentInv, LossInv, Started, Fits, OwnOrLater,
                    LossHasCause, StoppedSince
<1>3. QED
  BY <1>1, <1>2, InvOfTasks, InvOfFlush, InvOfMaster DEF Next, Progress, IInv

\* However the flushes overlap with runs that end, start and are stopped, no
\* result is credited to a task before its own.
THEOREM OwnOrLaterAlways == Spec => []OwnOrLater
<1>1. IInv => OwnOrLater
  BY DEF IInv, SentInv
<1>2. QED BY <1>1, InvInit, InvStep, PTL DEF Spec

\* Results are dropped for want of a task only after a stop, and on the stream
\* only after a break.
THEOREM LossHasCauseAlways == Spec => []LossHasCause
<1>1. IInv => LossHasCause
  BY DEF IInv, LossInv
<1>2. QED BY <1>1, InvInit, InvStep, PTL DEF Spec
-----------------------------------------------------------------------------
(* Every result is in one place.                                           *)

\* Each place has the name of its part and a number; those of flushes are
\* other names.
LEMMA PlacesDiffer ==
  ASSUME NEW n
  PROVE  /\ \A f \in Flushers : /\ f # <<"buffer", n>> /\ f # <<"transit", n>>
                                /\ f # <<"channel", n>> /\ f # <<"total", n>>
                                /\ \A c \in Causes : f # <<c, n>>
         /\ \A c \in Causes : \A k : /\ <<c, n>> # <<"buffer", k>> /\ <<c, n>> # <<"transit", k>>
                                     /\ <<c, n>> # <<"channel", k>> /\ <<c, n>> # <<"total", k>>
<1>1. \A f \in Flushers : f = <<f[1], f[2]>> /\ f[1] \in {"ticker", "async", "run"}
  BY DEF Flushers, Ticker, Async
<1>2. \A c \in Causes : c \in {"unassigned", "stream", "full"}
  BY DEF Causes
<1> QED
  BY <1>1, <1>2

Unbuffered(r) == r \notin buffer
Unbatched(r) == \A f \in Flushers : r \notin batch[f]
Unsent(r) == \A i \in DOMAIN transit : r \notin transit[i].results
Unqueued(r) == \A i \in DOMAIN channel : r \notin channel[i].results
Uncredited(r) == \A id \in IDs : <<r, id>> \notin credited
Unlost(r) == \A c \in Causes : <<r, c>> \notin lost

LEMMA Paired == ASSUME NEW a, NEW S, NEW p PROVE p \in {a} \X S <=> \E i \in S : p = <<a, i>>
OBVIOUS

LEMMA PairedWith0 == ASSUME NEW S, NEW p PROVE p \in S \X {0} <=> \E c \in S : p = <<c, 0>>
OBVIOUS

LEMMA WhereIs ==
  ASSUME NEW r, NEW p
  PROVE  p \in Where(r) <=>
           \/ p = <<"buffer", 0>> /\ r \in buffer
           \/ p \in Flushers /\ r \in batch[p]
           \/ \E i \in DOMAIN transit : p = <<"transit", i>> /\ r \in transit[i].results
           \/ \E i \in DOMAIN channel : p = <<"channel", i>> /\ r \in channel[i].results
           \/ \E id \in IDs : p = <<"total", id>> /\ <<r, id>> \in credited
           \/ \E c \in Causes : p = <<c, 0>> /\ <<r, c>> \in lost
<1>1. p \in {"buffer"} \X (IF r \in buffer THEN {0} ELSE {})
        <=> p = <<"buffer", 0>> /\ r \in buffer
  OBVIOUS
<1>2. p \in {f \in Flushers : r \in batch[f]} <=> p \in Flushers /\ r \in batch[p]
  OBVIOUS
<1>3. p \in {"transit"} \X {i \in DOMAIN transit : r \in transit[i].results}
        <=> \E i \in DOMAIN transit : p = <<"transit", i>> /\ r \in transit[i].results
  BY Paired
<1>4. p \in {"channel"} \X {i \in DOMAIN channel : r \in channel[i].results}
        <=> \E i \in DOMAIN channel : p = <<"channel", i>> /\ r \in channel[i].results
  BY Paired
<1>5. p \in {"total"} \X {id \in IDs : <<r, id>> \in credited}
        <=> \E id \in IDs : p = <<"total", id>> /\ <<r, id>> \in credited
  <2> DEFINE S == {id \in IDs : <<r, id>> \in credited}
  <2>1. \A i : i \in S <=> i \in IDs /\ <<r, i>> \in credited
    OBVIOUS
  <2> HIDE DEF S
  <2>2. p \in {"total"} \X S <=> \E i \in S : p = <<"total", i>>
    BY Paired
  <2>3. p \in {"total"} \X S <=> \E id \in IDs : p = <<"total", id>> /\ <<r, id>> \in credited
    BY <2>1, <2>2
  <2> QED
    BY <2>3 DEF S
<1>6. p \in {c \in Causes : <<r, c>> \in lost} \X {0}
        <=> \E c \in Causes : p = <<c, 0>> /\ <<r, c>> \in lost
  <2> DEFINE S == {c \in Causes : <<r, c>> \in lost}
  <2>1. \A c : c \in S <=> c \in Causes /\ <<r, c>> \in lost
    OBVIOUS
  <2> HIDE DEF S
  <2>2. p \in S \X {0} <=> \E c \in S : p = <<c, 0>>
    BY PairedWith0
  <2>3. p \in S \X {0} <=> \E c \in Causes : p = <<c, 0>> /\ <<r, c>> \in lost
    BY <2>1, <2>2
  <2> QED
    BY <2>3 DEF S
<1> QED
  BY <1>1, <1>2, <1>3, <1>4, <1>5, <1>6 DEF Where

LEMMA WhereIsNext ==
  ASSUME NEW r, NEW p
  PROVE  p \in Where(r)' <=>
           \/ p = <<"buffer", 0>> /\ r \in buffer'
           \/ p \in Flushers /\ r \in batch'[p]
           \/ \E i \in DOMAIN transit' : p = <<"transit", i>> /\ r \in transit'[i].results
           \/ \E i \in DOMAIN channel' : p = <<"channel", i>> /\ r \in channel'[i].results
           \/ \E id \in IDs : p = <<"total", id>> /\ <<r, id>> \in credited'
           \/ \E c \in Causes : p = <<c, 0>> /\ <<r, c>> \in lost'
<1>1. p \in {"buffer"} \X (IF r \in buffer' THEN {0} ELSE {})
        <=> p = <<"buffer", 0>> /\ r \in buffer'
  OBVIOUS
<1>2. p \in {f \in Flushers : r \in batch'[f]} <=> p \in Flushers /\ r \in batch'[p]
  OBVIOUS
<1>3. p \in {"transit"} \X {i \in DOMAIN transit' : r \in transit'[i].results}
        <=> \E i \in DOMAIN transit' : p = <<"transit", i>> /\ r \in transit'[i].results
  BY Paired
<1>4. p \in {"channel"} \X {i \in DOMAIN channel' : r \in channel'[i].results}
        <=> \E i \in DOMAIN channel' : p = <<"channel", i>> /\ r \in channel'[i].results
  BY Paired
<1>5. p \in {"total"} \X {id \in IDs : <<r, id>> \in credited'}
        <=> \E id \in IDs : p = <<"total", id>> /\ <<r, id>> \in credited'
  <2> DEFINE S == {id \in IDs : <<r, id>> \in credited'}
  <2>1. \A i : i \in S <=> i \in IDs /\ <<r, i>> \in credited'
    OBVIOUS
  <2> HIDE DEF S
  <2>2. p \in {"total"} \X S <=> \E i \in S : p = <<"total", i>>
    BY Paired
  <2>3. p \in {"total"} \X S <=> \E id \in IDs : p = <<"total", id>> /\ <<r, id>> \in credited'
    BY <2>1, <2>2
  <2> QED
    BY <2>3 DEF S
<1>6. p \in {c \in Causes : <<r, c>> \in lost'} \X {0}
        <=> \E c \in Causes : p = <<c, 0>> /\ <<r, c>> \in lost'
  <2> DEFINE S == {c \in Causes : <<r, c>> \in lost'}
  <2>1. \A c : c \in S <=> c \in Causes /\ <<r, c>> \in lost'
    OBVIOUS
  <2> HIDE DEF S
  <2>2. p \in S \X {0} <=> \E c \in S : p = <<c, 0>>
    BY PairedWith0
  <2>3. p \in S \X {0} <=> \E c \in Causes : p = <<c, 0>> /\ <<r, c>> \in lost'
    BY <2>1, <2>2
  <2> QED
    BY <2>3 DEF S
<1> QED
  BY <1>1, <1>2, <1>3, <1>4, <1>5, <1>6 DEF Where

\* No result is in two places.
Once == \A r \in Results : \A p, q \in Where(r) : p = q

LEMMA AloneInBuffer ==
  ASSUME Once, NEW r \in Results, r \in buffer
  PROVE  Where(r) # {} /\ Unbatched(r) /\ Unsent(r) /\ Unqueued(r) /\ Uncredited(r) /\ Unlost(r)
<1>1. <<"buffer", 0>> \in Where(r)
  BY WhereIs
<1>2. \A p \in Where(r) : p = <<"buffer", 0>>
  BY <1>1 DEF Once
<1>3. Unbatched(r) /\ Unlost(r)
  BY <1>2, WhereIs, PlacesDiffer DEF Unbatched, Unlost
<1>4. Unsent(r) /\ Unqueued(r) /\ Uncredited(r)
  BY <1>2, WhereIs DEF Unsent, Unqueued, Uncredited
<1> QED
  BY <1>1, <1>3, <1>4

LEMMA AloneInBatch ==
  ASSUME Once, NEW r \in Results, NEW f \in Flushers, r \in batch[f]
  PROVE  /\ Where(r) # {}
         /\ \A g \in Flushers : r \in batch[g] => g = f
         /\ Unbuffered(r) /\ Unsent(r) /\ Unqueued(r) /\ Uncredited(r) /\ Unlost(r)
<1>1. f \in Where(r)
  BY WhereIs
<1>2. \A p \in Where(r) : p = f
  BY <1>1 DEF Once
<1>3. \A g \in Flushers : r \in batch[g] => g = f
  BY <1>2, WhereIs
<1>4. Unbuffered(r)
  BY <1>2, WhereIs, PlacesDiffer DEF Unbuffered
<1>6. Unlost(r)
  <2> SUFFICES ASSUME NEW c \in Causes, <<r, c>> \in lost PROVE FALSE
    BY DEF Unlost
  <2>1. <<c, 0>> \in Where(r)
    BY WhereIs
  <2> QED
    BY <1>2, <2>1, PlacesDiffer
<1>5. Unsent(r) /\ Unqueued(r) /\ Uncredited(r)
  <2>1. Unsent(r)
    BY <1>2, WhereIs, PlacesDiffer DEF Unsent
  <2>2. Unqueued(r)
    BY <1>2, WhereIs, PlacesDiffer DEF Unqueued
  <2>3. Uncredited(r)
    BY <1>2, WhereIs, PlacesDiffer DEF Uncredited
  <2> QED
    BY <2>1, <2>2, <2>3
<1> QED
  BY <1>1, <1>3, <1>4, <1>5, <1>6

LEMMA AloneInTransit ==
  ASSUME Once, NEW r \in Results, NEW i \in DOMAIN transit, r \in transit[i].results
  PROVE  /\ Where(r) # {}
         /\ \A j \in DOMAIN transit : r \in transit[j].results => j = i
         /\ Unbuffered(r) /\ Unbatched(r) /\ Unqueued(r) /\ Uncredited(r) /\ Unlost(r)
<1>1. <<"transit", i>> \in Where(r)
  BY WhereIs
<1>2. \A p \in Where(r) : p = <<"transit", i>>
  BY <1>1 DEF Once
<1>3. \A j \in DOMAIN transit : r \in transit[j].results => j = i
  BY <1>2, WhereIs
<1>4. Unbatched(r) /\ Unlost(r)
  BY <1>2, WhereIs, PlacesDiffer DEF Unbatched, Unlost
<1>5. Unbuffered(r) /\ Unqueued(r) /\ Uncredited(r)
  BY <1>2, WhereIs DEF Unbuffered, Unqueued, Uncredited
<1> QED
  BY <1>1, <1>3, <1>4, <1>5

LEMMA AloneInChannel ==
  ASSUME Once, NEW r \in Results, NEW i \in DOMAIN channel, r \in channel[i].results
  PROVE  /\ Where(r) # {}
         /\ \A j \in DOMAIN channel : r \in channel[j].results => j = i
         /\ Unbuffered(r) /\ Unbatched(r) /\ Unsent(r) /\ Uncredited(r) /\ Unlost(r)
<1>1. <<"channel", i>> \in Where(r)
  BY WhereIs
<1>2. \A p \in Where(r) : p = <<"channel", i>>
  BY <1>1 DEF Once
<1>3. \A j \in DOMAIN channel : r \in channel[j].results => j = i
  BY <1>2, WhereIs
<1>4. Unbatched(r) /\ Unlost(r)
  BY <1>2, WhereIs, PlacesDiffer DEF Unbatched, Unlost
<1>5. Unbuffered(r) /\ Unsent(r) /\ Uncredited(r)
  BY <1>2, WhereIs DEF Unbuffered, Unsent, Uncredited
<1> QED
  BY <1>1, <1>3, <1>4, <1>5

\* After the step r is in the place p and in no other.
Only(r, p) == Where(r)' = {p}

LEMMA OnlyInBatch ==
  ASSUME NEW r, NEW f \in Flushers, \A g \in Flushers : r \in batch'[g] <=> g = f,
         Unbuffered(r)', Unsent(r)', Unqueued(r)', Uncredited(r)', Unlost(r)'
  PROVE  Only(r, f)
<1>1. ASSUME NEW p, p \in Where(r)' PROVE p = f
  BY <1>1, WhereIsNext DEF Unbuffered, Unsent, Unqueued, Uncredited, Unlost
<1>2. f \in Where(r)'
  BY WhereIsNext
<1> QED
  BY <1>1, <1>2 DEF Only

LEMMA OnlyInBuffer ==
  ASSUME NEW r, r \in buffer',
         Unbatched(r)', Unsent(r)', Unqueued(r)', Uncredited(r)', Unlost(r)'
  PROVE  Only(r, <<"buffer", 0>>)
<1>1. ASSUME NEW p, p \in Where(r)' PROVE p = <<"buffer", 0>>
  BY <1>1, WhereIsNext DEF Unbatched, Unsent, Unqueued, Uncredited, Unlost
<1>2. <<"buffer", 0>> \in Where(r)'
  BY WhereIsNext
<1> QED
  BY <1>1, <1>2 DEF Only

LEMMA OnlyInTransit ==
  ASSUME NEW r, NEW i \in DOMAIN transit',
         \A j \in DOMAIN transit' : r \in transit'[j].results <=> j = i,
         Unbuffered(r)', Unbatched(r)', Unqueued(r)', Uncredited(r)', Unlost(r)'
  PROVE  Only(r, <<"transit", i>>)
<1>1. ASSUME NEW p, p \in Where(r)' PROVE p = <<"transit", i>>
  <2>1. \E j \in DOMAIN transit' : p = <<"transit", j>> /\ r \in transit'[j].results
    BY <1>1, WhereIsNext DEF Unbuffered, Unbatched, Unqueued, Uncredited, Unlost
  <2> QED
    BY <2>1
<1>2. <<"transit", i>> \in Where(r)'
  BY WhereIsNext
<1> QED
  BY <1>1, <1>2 DEF Only

LEMMA OnlyInChannel ==
  ASSUME NEW r, NEW i \in DOMAIN channel',
         \A j \in DOMAIN channel' : r \in channel'[j].results <=> j = i,
         Unbuffered(r)', Unbatched(r)', Unsent(r)', Uncredited(r)', Unlost(r)'
  PROVE  Only(r, <<"channel", i>>)
<1>1. ASSUME NEW p, p \in Where(r)' PROVE p = <<"channel", i>>
  <2>1. \E j \in DOMAIN channel' : p = <<"channel", j>> /\ r \in channel'[j].results
    BY <1>1, WhereIsNext DEF Unbuffered, Unbatched, Unsent, Uncredited, Unlost
  <2> QED
    BY <2>1
<1>2. <<"channel", i>> \in Where(r)'
  BY WhereIsNext
<1> QED
  BY <1>1, <1>2 DEF Only

LEMMA OnlyInTotal ==
  ASSUME NEW r, NEW id \in IDs, \A k \in IDs : <<r, k>> \in credited' <=> k = id,
         Unbuffered(r)', Unbatched(r)', Unsent(r)', Unqueued(r)', Unlost(r)'
  PROVE  Only(r, <<"total", id>>)
<1>1. ASSUME NEW p, p \in Where(r)' PROVE p = <<"total", id>>
  <2>1. \E k \in IDs : p = <<"total", k>> /\ <<r, k>> \in credited'
    BY <1>1, WhereIsNext DEF Unbuffered, Unbatched, Unsent, Unqueued, Unlost
  <2> QED
    BY <2>1
<1>2. <<"total", id>> \in Where(r)'
  BY WhereIsNext
<1> QED
  BY <1>1, <1>2 DEF Only

LEMMA OnlyLost ==
  ASSUME NEW r, NEW c \in Causes, \A k \in Causes : <<r, k>> \in lost' <=> k = c,
         Unbuffered(r)', Unbatched(r)', Unsent(r)', Unqueued(r)', Uncredited(r)'
  PROVE  Only(r, <<c, 0>>)
<1>1. ASSUME NEW p, p \in Where(r)' PROVE p = <<c, 0>>
  <2>1. \E k \in Causes : p = <<k, 0>> /\ <<r, k>> \in lost'
    BY <1>1, WhereIsNext DEF Unbuffered, Unbatched, Unsent, Unqueued, Uncredited
  <2> QED
    BY <2>1
<1>2. <<c, 0>> \in Where(r)'
  BY WhereIsNext
<1> QED
  BY <1>1, <1>2 DEF Only

\* A step leaves a result where it is, or takes it from there to one place.
Kept(r) == Where(r)' = Where(r) \/ (Where(r) # {} /\ \E p : Only(r, p))

LEMMA KeptOnce ==
  ASSUME Once, \A r \in Results : Kept(r)
  PROVE  Once' /\ Placed' = Placed
<1>1. ASSUME NEW r \in Results
      PROVE  (\A p, q \in Where(r)' : p = q) /\ (Where(r) = {} <=> Where(r)' = {})
  BY DEF Kept, Once, Only
<1>2. Once'
  BY <1>1 DEF Once
<1>3. Placed' = Placed
  BY <1>1 DEF Placed
<1> QED
  BY <1>2, <1>3

\* A flush that is not under way holds nothing.
IdleEmpty == \A f \in Flushers : stage[f] \in {"check", "send"} \/ batch[f] = {}

LEMMA TakeKeeps ==
  ASSUME TypeOK, Once, IdleEmpty, NEW f \in Flushers, Take(f), NEW r \in Results
  PROVE  Kept(r)
<1>1. /\ buffer' = {} /\ UNCHANGED <<transit, channel, credited, lost>> /\ batch[f] = {}
      /\ \A g \in Flushers : batch'[g] = IF g = f THEN buffer ELSE batch[g]
  BY DEF Take, TypeOK, IdleEmpty
<1>2. CASE r \in buffer
  <2>1. Where(r) # {} /\ Unbatched(r) /\ Unsent(r) /\ Unqueued(r) /\ Uncredited(r) /\ Unlost(r)
    BY <1>2, AloneInBuffer
  <2>2. /\ \A g \in Flushers : r \in batch'[g] <=> g = f
        /\ Unbuffered(r)' /\ Unsent(r)' /\ Unqueued(r)' /\ Uncredited(r)' /\ Unlost(r)'
    BY <1>1, <1>2, <2>1 DEF Unbuffered, Unbatched, Unsent, Unqueued, Uncredited, Unlost
  <2>3. Only(r, f)
    BY <2>2, OnlyInBatch
  <2> QED
    BY <2>1, <2>3 DEF Kept
<1>3. CASE r \notin buffer
  <2>1. {g \in Flushers : r \in batch'[g]} = {g \in Flushers : r \in batch[g]}
    BY <1>1, <1>3
  <2>2. Where(r)' = Where(r)
    BY <1>1, <1>3, <2>1 DEF Where
  <2> QED
    BY <2>2 DEF Kept
<1> QED
  BY <1>2, <1>3

\* A batch that is dropped.
LEMMA DropKeeps ==
  ASSUME Once, NEW f \in Flushers, NEW cause \in Causes, lost' = lost \cup (batch[f] \X {cause}),
         UNCHANGED <<buffer, transit, channel, credited>>,
         \A g \in Flushers : batch'[g] = IF g = f THEN {} ELSE batch[g],
         NEW r \in Results
  PROVE  Kept(r)
<1>1. CASE r \in batch[f]
  <2>1. /\ Where(r) # {} /\ \A g \in Flushers : r \in batch[g] => g = f
        /\ Unbuffered(r) /\ Unsent(r) /\ Unqueued(r) /\ Uncredited(r) /\ Unlost(r)
    BY <1>1, AloneInBatch
  <2>2. /\ \A c \in Causes : <<r, c>> \in lost' <=> c = cause
        /\ Unbuffered(r)' /\ Unbatched(r)' /\ Unsent(r)' /\ Unqueued(r)' /\ Uncredited(r)'
    BY <1>1, <2>1 DEF Unbuffered, Unbatched, Unsent, Unqueued, Uncredited, Unlost
  <2>3. Only(r, <<cause, 0>>)
    BY <2>2, OnlyLost
  <2> QED
    BY <2>1, <2>3 DEF Kept
<1>2. CASE r \notin batch[f]
  <2>1. {g \in Flushers : r \in batch'[g]} = {g \in Flushers : r \in batch[g]}
    BY <1>2
  <2>2. \A c \in Causes : <<r, c>> \in lost' <=> <<r, c>> \in lost
    BY <1>2
  <2>3. Where(r)' = Where(r)
    BY <2>1, <2>2 DEF Where
  <2> QED
    BY <2>3 DEF Kept
<1> QED
  BY <1>1, <1>2

LEMMA SendKeeps ==
  ASSUME TypeOK, Once, NEW f \in Flushers, Send(f), NEW r \in Results
  PROVE  Kept(r)
<1> DEFINE n == Len(transit)
           m == [id |-> taskID, results |-> batch[f]]
<1>1. /\ UNCHANGED <<buffer, channel, credited, lost>>
      /\ \A g \in Flushers : batch'[g] = IF g = f THEN {} ELSE batch[g]
  BY DEF Send, TypeOK
<1>2. /\ n \in Nat /\ DOMAIN transit = 1 .. n /\ DOMAIN transit' = 1 .. n + 1
      /\ transit'[n + 1].results = batch[f] /\ \A i \in 1 .. n : transit'[i] = transit[i]
  <2>1. transit \in Seq(Messages) /\ transit' = Append(transit, m) /\ m \in Messages
    BY DEF Send, TypeOK, Messages
  <2> QED
    BY <2>1, AppendProperties
<1>3. CASE r \in batch[f]
  <2>1. /\ Where(r) # {} /\ \A g \in Flushers : r \in batch[g] => g = f
        /\ Unbuffered(r) /\ Unsent(r) /\ Unqueued(r) /\ Uncredited(r) /\ Unlost(r)
    BY <1>3, AloneInBatch
  <2>2. /\ n + 1 \in DOMAIN transit'
        /\ \A j \in DOMAIN transit' : r \in transit'[j].results <=> j = n + 1
    BY <1>2, <1>3, <2>1 DEF Unsent
  <2>3. Unbuffered(r)' /\ Unbatched(r)' /\ Unqueued(r)' /\ Uncredited(r)' /\ Unlost(r)'
    BY <1>1, <2>1 DEF Unbuffered, Unbatched, Unqueued, Uncredited, Unlost
  <2>4. Only(r, <<"transit", n + 1>>)
    BY <2>2, <2>3, OnlyInTransit
  <2> QED
    BY <2>1, <2>4 DEF Kept
<1>4. CASE r \notin batch[f]
  <2>1. {i \in DOMAIN transit' : r \in transit'[i].results} = {i \in DOMAIN transit : r \in transit[i].results}
    BY <1>2, <1>4
  <2>2. Where(r)' = Where(r)
    BY <1>1, <1>4, <2>1 DEF Where
  <2> QED
    BY <2>2 DEF Kept
<1> QED
  BY <1>3, <1>4

\* The messages that a break takes with it.
LEMMA BreakKeeps ==
  ASSUME TypeOK, Once, Break, NEW r \in Results
  PROVE  Kept(r)
<1>1. PICK n \in 0 .. Len(transit) :
        /\ transit' = SubSeq(transit, 1, n)
        /\ lost' = lost \cup ((UNION {transit[i].results : i \in n + 1 .. Len(transit)}) \X {"stream"})
  BY DEF Break
<1>2. /\ UNCHANGED <<buffer, batch, channel, credited>>
      /\ Len(transit) \in Nat /\ DOMAIN transit = 1 .. Len(transit)
      /\ DOMAIN transit' = 1 .. n /\ \A i \in 1 .. n : transit'[i] = transit[i]
  BY <1>1, SubSeqProperties, LenProperties DEF Break, TypeOK
<1>3. CASE \E i \in n + 1 .. Len(transit) : r \in transit[i].results
  <2>1. PICK i \in n + 1 .. Len(transit) : r \in transit[i].results
    BY <1>3
  <2>2. i \in DOMAIN transit /\ i \notin DOMAIN transit'
    BY <1>2, <2>1
  <2>3. /\ Where(r) # {} /\ \A j \in DOMAIN transit : r \in transit[j].results => j = i
        /\ Unbuffered(r) /\ Unbatched(r) /\ Unqueued(r) /\ Uncredited(r) /\ Unlost(r)
    BY <2>1, <2>2, AloneInTransit
  <2>4. Unsent(r)'
    BY <1>2, <2>2, <2>3 DEF Unsent
  <2>5. \A c \in Causes : <<r, c>> \in lost' <=> c = "stream"
    BY <1>1, <2>1, <2>3 DEF Unlost
  <2>6. Unbuffered(r)' /\ Unbatched(r)' /\ Unqueued(r)' /\ Uncredited(r)'
    BY <1>2, <2>3 DEF Unbuffered, Unbatched, Unqueued, Uncredited
  <2>7. Only(r, <<"stream", 0>>)
    BY <2>4, <2>5, <2>6, OnlyLost DEF Causes
  <2> QED
    BY <2>3, <2>7 DEF Kept
<1>4. CASE ~\E i \in n + 1 .. Len(transit) : r \in transit[i].results
  <2>1. {i \in DOMAIN transit' : r \in transit'[i].results} = {i \in DOMAIN transit : r \in transit[i].results}
    BY <1>2, <1>4
  <2>2. \A c \in Causes : <<r, c>> \in lost' <=> <<r, c>> \in lost
    BY <1>1, <1>4
  <2>3. Where(r)' = Where(r)
    BY <1>2, <2>1, <2>2 DEF Where
  <2> QED
    BY <2>3 DEF Kept
<1> QED
  BY <1>3, <1>4

\* What a message in the stream and one in the channel become when the first is
\* taken out.
LEMMA TailOf ==
  ASSUME NEW s \in Seq(Messages), s # << >>
  PROVE  /\ Len(s) \in Nat \ {0} /\ DOMAIN s = 1 .. Len(s) /\ Head(s) = s[1]
         /\ DOMAIN Tail(s) = 1 .. Len(s) - 1
         /\ \A i \in 1 .. Len(s) - 1 : Tail(s)[i] = s[i + 1]
         /\ Tail(s) \in Seq(Messages) /\ Head(s) \in Messages
BY HeadTailProperties, LenProperties

LEMMA ReceiveKeeps ==
  ASSUME TypeOK, Once, Receive, NEW r \in Results
  PROVE  Kept(r)
<1> DEFINE n == Len(transit)
           k == Len(channel)
           full == ~(Len(channel) < ChannelSize)
<1>1. /\ UNCHANGED <<buffer, batch, credited>>
      /\ full => lost' = lost \cup (transit[1].results \X {"full"}) /\ channel' = channel
      /\ ~full => lost' = lost /\ channel' = Append(channel, transit[1])
      /\ n \in Nat \ {0} /\ DOMAIN transit = 1 .. n /\ transit[1] \in Messages
      /\ DOMAIN transit' = 1 .. n - 1 /\ \A i \in 1 .. n - 1 : transit'[i] = transit[i + 1]
  BY TailOf DEF Receive, TypeOK
<1>2. /\ k \in Nat /\ DOMAIN channel = 1 .. k
      /\ ~full => /\ DOMAIN channel' = 1 .. k + 1 /\ channel'[k + 1] = transit[1]
                  /\ \A i \in 1 .. k : channel'[i] = channel[i]
  <2>1. channel \in Seq(Messages) /\ transit[1] \in Messages
    BY <1>1 DEF TypeOK
  <2>2. k \in Nat /\ DOMAIN channel = 1 .. k
    BY <2>1, LenProperties
  <2>3. ASSUME ~full
        PROVE  /\ DOMAIN channel' = 1 .. k + 1 /\ channel'[k + 1] = transit[1]
               /\ \A i \in 1 .. k : channel'[i] = channel[i]
    <3>1. channel' = Append(channel, transit[1])
      BY <1>1, <2>3
    <3> QED
      BY <2>1, <3>1, AppendProperties
  <2> QED
    BY <2>2, <2>3
<1>3. CASE r \in transit[1].results
  <2>1. /\ Where(r) # {} /\ \A j \in DOMAIN transit : r \in transit[j].results => j = 1
        /\ Unbuffered(r) /\ Unbatched(r) /\ Unqueued(r) /\ Uncredited(r) /\ Unlost(r)
    BY <1>1, <1>3, AloneInTransit
  <2>2. Unbuffered(r)' /\ Unbatched(r)' /\ Uncredited(r)'
    BY <1>1, <2>1 DEF Unbuffered, Unbatched, Uncredited
  <2>3. Unsent(r)'
    <3> SUFFICES ASSUME NEW i \in 1 .. n - 1, r \in transit[i + 1].results PROVE FALSE
      BY <1>1 DEF Unsent
    <3>1. i + 1 \in DOMAIN transit /\ i + 1 # 1
      BY <1>1
    <3> QED
      BY <2>1, <3>1
  <2>4. CASE full
    <3>1. Unqueued(r)'
      BY <1>1, <2>1, <2>4 DEF Unqueued
    <3>2. \A c \in Causes : <<r, c>> \in lost' <=> c = "full"
      BY <1>1, <1>3, <2>1, <2>4 DEF Unlost
    <3>3. Only(r, <<"full", 0>>)
      BY <2>2, <2>3, <3>1, <3>2, OnlyLost DEF Causes
    <3> QED
      BY <2>1, <3>3 DEF Kept
  <2>5. CASE ~full
    <3>1. Unlost(r)'
      BY <1>1, <2>1, <2>5 DEF Unlost
    <3>2. k + 1 \in DOMAIN channel' /\ \A j \in DOMAIN channel' : r \in channel'[j].results <=> j = k + 1
      BY <1>2, <1>3, <2>1, <2>5 DEF Unqueued
    <3>3. Only(r, <<"channel", k + 1>>)
      BY <2>2, <2>3, <3>1, <3>2, OnlyInChannel
    <3> QED
      BY <2>1, <3>3 DEF Kept
  <2> QED
    BY <2>4, <2>5
<1>4. CASE \E i \in 2 .. n : r \in transit[i].results
  <2>1. PICK i \in 2 .. n : r \in transit[i].results
    BY <1>4
  <2>2. i \in DOMAIN transit /\ i - 1 \in DOMAIN transit' /\ 1 \in DOMAIN transit /\ i # 1
    BY <1>1, <2>1
  <2>3. /\ Where(r) # {} /\ \A j \in DOMAIN transit : r \in transit[j].results => j = i
        /\ Unbuffered(r) /\ Unbatched(r) /\ Unqueued(r) /\ Uncredited(r) /\ Unlost(r)
    BY <2>1, <2>2, AloneInTransit
  <2>4. \A j \in DOMAIN transit' : r \in transit'[j].results <=> j = i - 1
    <3> TAKE j \in DOMAIN transit'
    <3>1. j \in 1 .. n - 1 /\ j + 1 \in DOMAIN transit /\ transit'[j] = transit[j + 1]
      BY <1>1
    <3>2. r \in transit[j + 1].results <=> j + 1 = i
      BY <2>1, <2>3, <3>1
    <3> QED
      BY <2>1, <3>1, <3>2
  <2>5. Unbuffered(r)' /\ Unbatched(r)' /\ Uncredited(r)'
    BY <1>1, <2>3 DEF Unbuffered, Unbatched, Uncredited
  <2>6. r \notin transit[1].results
    BY <2>2, <2>3
  <2>7. Unqueued(r)' /\ Unlost(r)'
    <3>1. CASE full
      BY <1>1, <2>3, <2>6, <3>1 DEF Unqueued, Unlost
    <3>2. CASE ~full
      BY <1>1, <1>2, <2>3, <2>6, <3>2 DEF Unqueued, Unlost
    <3> QED
      BY <3>1, <3>2
  <2>8. Only(r, <<"transit", i - 1>>)
    BY <2>2, <2>4, <2>5, <2>7, OnlyInTransit
  <2> QED
    BY <2>3, <2>8 DEF Kept
<1>5. CASE Unsent(r)
  <2>1. r \notin transit[1].results
    BY <1>1, <1>5 DEF Unsent
  <2>2. {i \in DOMAIN transit' : r \in transit'[i].results} = {i \in DOMAIN transit : r \in transit[i].results}
    <3>1. {i \in DOMAIN transit : r \in transit[i].results} = {}
      BY <1>5 DEF Unsent
    <3>2. \A i \in 1 .. n - 1 : i + 1 \in DOMAIN transit
      BY <1>1
    <3>3. \A i \in DOMAIN transit' : r \notin transit'[i].results
      BY <1>1, <1>5, <3>2 DEF Unsent
    <3> QED
      BY <3>1, <3>3
  <2>3. /\ {i \in DOMAIN channel' : r \in channel'[i].results} = {i \in DOMAIN channel : r \in channel[i].results}
        /\ \A c \in Causes : <<r, c>> \in lost' <=> <<r, c>> \in lost
    <3>1. CASE full
      BY <1>1, <2>1, <3>1
    <3>2. CASE ~full
      BY <1>1, <1>2, <2>1, <3>2
    <3> QED
      BY <3>1, <3>2
  <2>4. Where(r)' = Where(r)
    BY <1>1, <2>2, <2>3 DEF Where
  <2> QED
    BY <2>4 DEF Kept
<1> QED
  BY <1>1, <1>3, <1>4, <1>5 DEF Unsent

LEMMA ProcessKeeps ==
  ASSUME TypeOK, Once, ProcessStats, NEW r \in Results
  PROVE  Kept(r)
<1> DEFINE n == Len(channel)
           m == channel[1]
<1>1. /\ UNCHANGED <<buffer, batch, transit, lost>>
      /\ credited' = credited \cup (m.results \X {m.id})
      /\ n \in Nat \ {0} /\ DOMAIN channel = 1 .. n /\ m \in Messages
      /\ DOMAIN channel' = 1 .. n - 1 /\ \A i \in 1 .. n - 1 : channel'[i] = channel[i + 1]
  BY TailOf DEF ProcessStats, TypeOK
<1>2. m.id \in IDs
  BY <1>1 DEF Messages
<1>3. CASE r \in m.results
  <2>1. /\ Where(r) # {} /\ \A j \in DOMAIN channel : r \in channel[j].results => j = 1
        /\ Unbuffered(r) /\ Unbatched(r) /\ Unsent(r) /\ Uncredited(r) /\ Unlost(r)
    BY <1>1, <1>3, AloneInChannel
  <2>2. Unbuffered(r)' /\ Unbatched(r)' /\ Unsent(r)' /\ Unlost(r)'
    BY <1>1, <2>1 DEF Unbuffered, Unbatched, Unsent, Unlost
  <2>3. Unqueued(r)'
    <3> SUFFICES ASSUME NEW i \in 1 .. n - 1, r \in channel[i + 1].results PROVE FALSE
      BY <1>1 DEF Unqueued
    <3>1. i + 1 \in DOMAIN channel /\ i + 1 # 1
      BY <1>1
    <3> QED
      BY <2>1, <3>1
  <2>4. \A id \in IDs : <<r, id>> \in credited' <=> id = m.id
    BY <1>1, <1>3, <2>1 DEF Uncredited
  <2>5. Only(r, <<"total", m.id>>)
    BY <1>2, <2>2, <2>3, <2>4, OnlyInTotal
  <2> QED
    BY <2>1, <2>5 DEF Kept
<1>4. CASE \E i \in 2 .. n : r \in channel[i].results
  <2>1. PICK i \in 2 .. n : r \in channel[i].results
    BY <1>4
  <2>2. i \in DOMAIN channel /\ i - 1 \in DOMAIN channel' /\ 1 \in DOMAIN channel /\ i # 1
    BY <1>1, <2>1
  <2>3. /\ Where(r) # {} /\ \A j \in DOMAIN channel : r \in channel[j].results => j = i
        /\ Unbuffered(r) /\ Unbatched(r) /\ Unsent(r) /\ Uncredited(r) /\ Unlost(r)
    BY <2>1, <2>2, AloneInChannel
  <2>4. \A j \in DOMAIN channel' : r \in channel'[j].results <=> j = i - 1
    <3> TAKE j \in DOMAIN channel'
    <3>1. j \in 1 .. n - 1 /\ j + 1 \in DOMAIN channel /\ channel'[j] = channel[j + 1]
      BY <1>1
    <3>2. r \in channel[j + 1].results <=> j + 1 = i
      BY <2>1, <2>3, <3>1
    <3> QED
      BY <2>1, <3>1, <3>2
  <2>5. Unbuffered(r)' /\ Unbatched(r)' /\ Unsent(r)' /\ Unlost(r)'
    BY <1>1, <2>3 DEF Unbuffered, Unbatched, Unsent, Unlost
  <2>6. r \notin m.results
    BY <2>2, <2>3
  <2>7. Uncredited(r)'
    BY <1>1, <2>3, <2>6 DEF Uncredited
  <2>8. Only(r, <<"channel", i - 1>>)
    BY <2>2, <2>4, <2>5, <2>7, OnlyInChannel
  <2> QED
    BY <2>3, <2>8 DEF Kept
<1>5. CASE Unqueued(r)
  <2>1. r \notin m.results
    BY <1>1, <1>5 DEF Unqueued
  <2>2. {i \in DOMAIN channel' : r \in channel'[i].results} = {i \in DOMAIN channel : r \in channel[i].results}
    <3>1. {i \in DOMAIN channel : r \in channel[i].results} = {}
      BY <1>5 DEF Unqueued
    <3>2. \A i \in 1 .. n - 1 : i + 1 \in DOMAIN channel
      BY <1>1
    <3>3. \A i \in DOMAIN channel' : r \notin channel'[i].results
      BY <1>1, <1>5, <3>2 DEF Unqueued
    <3> QED
      BY <3>1, <3>3
  <2>3. \A id \in IDs : <<r, id>> \in credited' <=> <<r, id>> \in credited
    BY <1>1, <2>1
  <2>4. Where(r)' = Where(r)
    BY <1>1, <2>2, <2>3 DEF Where
  <2> QED
    BY <2>4 DEF Kept
<1> QED
  BY <1>1, <1>3, <1>4, <1>5 DEF Unqueued

\* As many results have a place as were made, and a total counts those credited
\* to it.
PlacedInv ==
  /\ \A r \in Placed : r[2] <= made
  /\ Cardinality(Placed) = made

TotalInv == \A id \in IDs : total[id] = Cardinality({c \in credited : c[2] = id})

PlaceInv == Once /\ IdleEmpty /\ PlacedInv /\ TotalInv

LEMMA FiniteSets ==
  /\ IsFiniteSet(Results)
  /\ \A C \in SUBSET (Results \X IDs) : IsFiniteSet(C) /\ Cardinality(C) \in Nat
<1>1. IsFiniteSet(Tasks) /\ IsFiniteSet(1 .. MaxResults)
  BY ConstantTypes, FS_Interval DEF Tasks
<1>2. IsFiniteSet(Results)
  BY <1>1, FS_Product DEF Results
<1>3. IsFiniteSet(IDs)
  BY <1>1, FS_AddElement DEF IDs
<1>4. IsFiniteSet(Results \X IDs)
  BY <1>2, <1>3, FS_Product
<1> QED
  BY <1>2, <1>4, FS_Subset, FS_CardinalityType

LEMMA InitPlace == Init => PlaceInv
<1> SUFFICES ASSUME Init PROVE PlaceInv
  OBVIOUS
<1>1. \A r \in Results : Where(r) = {}
  <2> TAKE r \in Results
  <2>1. /\ buffer = {} /\ \A f \in Flushers : batch[f] = {}
        /\ DOMAIN transit = {} /\ DOMAIN channel = {} /\ credited = {} /\ lost = {}
    BY DEF Init
  <2>2. \A p : p \notin Where(r)
    BY <2>1, WhereIs
  <2> QED
    BY <2>2
<1>2. Once
  BY <1>1 DEF Once
<1>3. IdleEmpty
  BY DEF Init, IdleEmpty
<1>4. PlacedInv
  <2>1. Placed = {} /\ made = 0
    BY <1>1 DEF Placed, Init
  <2> QED
    BY <2>1, FS_EmptySet DEF PlacedInv
<1>5. TotalInv
  <2>1. \A id \in IDs : {c \in credited : c[2] = id} = {} /\ total[id] = 0
    BY DEF Init
  <2> QED
    BY <2>1, FS_EmptySet DEF TotalInv
<1> QED
  BY <1>2, <1>3, <1>4, <1>5 DEF PlaceInv

\* A result that is made.
LEMMA AddPlaces ==
  ASSUME TypeOK, TypeOK', PlaceInv, NEW t \in Tasks, Add(t)
  PROVE  PlaceInv'
<1>1. /\ made' = made + 1 /\ made \in Nat /\ <<t, made'>> \in Results
      /\ buffer' = buffer \cup {<<t, made'>>}
      /\ UNCHANGED <<batch, transit, channel, total, credited, lost>>
  BY ConstantTypes DEF Add, TypeOK, Results
<1> PICK new \in Results : new = <<t, made'>>
  BY <1>1
<1>2. /\ made' = made + 1 /\ made \in Nat /\ buffer' = buffer \cup {new} /\ new \in Results
      /\ UNCHANGED <<batch, transit, channel, total, credited, lost>>
  BY <1>1
<1>3. new \notin Placed
  BY <1>2 DEF PlaceInv, PlacedInv
<1>4. new[2] = made'
  OBVIOUS
<1>5. Where(new) = {} /\ Where(new)' = {<<"buffer", 0>>}
  <2>1. Where(new) = {}
    BY <1>2, <1>3 DEF Placed
  <2>2. new \notin buffer /\ Unbatched(new) /\ Unsent(new) /\ Unqueued(new) /\ Uncredited(new) /\ Unlost(new)
    BY <2>1, WhereIs DEF Unbatched, Unsent, Unqueued, Uncredited, Unlost
  <2>3. /\ new \in buffer'
        /\ Unbatched(new)' /\ Unsent(new)' /\ Unqueued(new)' /\ Uncredited(new)' /\ Unlost(new)'
    BY <1>2, <2>2 DEF Unbatched, Unsent, Unqueued, Uncredited, Unlost
  <2> QED
    BY <2>1, <2>3, OnlyInBuffer DEF Only
<1>6. \A r \in Results : r # new => Where(r)' = Where(r)
  <2> TAKE r \in Results
  <2> HAVE r # new
  <2>1. r \in buffer' <=> r \in buffer
    BY <1>2
  <2> QED
    BY <1>2, <2>1 DEF Where
<1>7. Once'
  BY <1>6, <1>5 DEF PlaceInv, Once
<1>8. PlacedInv'
  <2>1. Placed' = Placed \cup {new}
    BY <1>2, <1>6, <1>5 DEF Placed
  <2>2. IsFiniteSet(Placed)
    BY FiniteSets, FS_Subset DEF Placed
  <2>3. Cardinality(Placed') = Cardinality(Placed) + 1
    BY <1>3, <2>1, <2>2, FS_AddElement
  <2>4. \A r \in Placed : r[2] \in Nat
    BY DEF Placed, Results
  <2> QED
    BY <1>2, <1>4, <2>1, <2>3, <2>4 DEF PlaceInv, PlacedInv
<1>9. IdleEmpty'
  BY DEF Add, PlaceInv, IdleEmpty, TypeOK, Async, Flushers
<1> QED
  BY <1>2, <1>7, <1>8, <1>9 DEF PlaceInv, TotalInv

\* The total of a message's ID grows by the results that it did not have.
LEMMA ProcessTotals ==
  ASSUME TypeOK, PlaceInv, ProcessStats
  PROVE  TotalInv'
<1> DEFINE m == channel[1]
           Of(C, id) == {c \in C : c[2] = id}
           more == m.results \X {m.id}
<1>1. /\ 1 \in DOMAIN channel /\ m \in Messages /\ m.id \in IDs /\ m.results \in SUBSET Results
      /\ total' = [total EXCEPT ![m.id] = @ + Cardinality(m.results)]
      /\ credited' = credited \cup more
  <2>1. /\ channel \in Seq(Messages) /\ channel # << >> /\ total' = [total EXCEPT ![Head(channel).id] = @ + Cardinality(Head(channel).results)]
        /\ credited' = credited \cup (Head(channel).results \X {Head(channel).id})
    BY DEF ProcessStats, TypeOK
  <2>2. 1 \in DOMAIN channel /\ m \in Messages /\ Head(channel) = m
    BY <2>1, TailOf
  <2>3. m.id \in IDs /\ m.results \in SUBSET Results
    BY <2>2 DEF Messages
  <2> QED
    BY <2>1, <2>2, <2>3
<1>2. \A r \in m.results : <<r, m.id>> \notin credited
  BY <1>1, AloneInChannel DEF PlaceInv, Uncredited
<1>3. IsFiniteSet(m.results) /\ IsFiniteSet({m.id}) /\ Cardinality(m.results) \in Nat
  BY <1>1, ResultsFinite, FS_Singleton
<1>4. Cardinality(more) = Cardinality(m.results) /\ IsFiniteSet(more)
  <2>1. Cardinality({m.id}) = 1
    BY FS_Singleton
  <2>2. IsFiniteSet(more) /\ Cardinality(more) = Cardinality(m.results) * Cardinality({m.id})
    BY <1>3, FS_Product
  <2> QED
    BY <1>3, <2>1, <2>2
<1>5. \A id \in IDs : id # m.id => Of(credited', id) = Of(credited, id) /\ total'[id] = total[id]
  BY <1>1 DEF TypeOK
<1>6. Of(credited', m.id) = Of(credited, m.id) \cup more /\ Of(credited, m.id) \cap more = {}
  BY <1>1, <1>2
<1>7. IsFiniteSet(Of(credited, m.id)) /\ Cardinality(Of(credited, m.id)) \in Nat
  BY FiniteSets DEF TypeOK
<1>8. Cardinality(Of(credited', m.id)) = Cardinality(Of(credited, m.id)) + Cardinality(m.results)
  <2>1. Cardinality(Of(credited, m.id) \cup more)
          = Cardinality(Of(credited, m.id)) + Cardinality(more) - Cardinality({})
    BY <1>4, <1>6, <1>7, FS_Union
  <2>2. Cardinality({}) = 0
    BY FS_EmptySet
  <2> HIDE DEF Of, more
  <2> QED
    BY <1>3, <1>4, <1>6, <1>7, <2>1, <2>2
<1>9. total'[m.id] = total[m.id] + Cardinality(m.results) /\ total[m.id] = Cardinality(Of(credited, m.id))
  BY <1>1 DEF TypeOK, PlaceInv, TotalInv
<1> QED
  BY <1>5, <1>8, <1>9 DEF PlaceInv, TotalInv

LEMMA PlaceStep == TypeOK /\ TypeOK' /\ PlaceInv /\ [Next]_vars => PlaceInv'
<1> SUFFICES ASSUME TypeOK, TypeOK', PlaceInv, [Next]_vars PROVE PlaceInv'
  OBVIOUS
<1>1. ASSUME \A r \in Results : Kept(r), made' = made, IdleEmpty', UNCHANGED <<total, credited>>
      PROVE  PlaceInv'
  BY <1>1, KeptOnce DEF PlaceInv, PlacedInv, TotalInv
<1>2. ASSUME NEW f \in Flushers, Take(f) \/ Check(f) \/ Send(f) \/ SendFails(f)
      PROVE  PlaceInv'
  <2>1. IdleEmpty' /\ made' = made /\ UNCHANGED <<total, credited>>
    <3>1. CASE Take(f)      BY <3>1 DEF Take, TypeOK, PlaceInv, IdleEmpty
    <3>2. CASE Check(f)     BY <3>2 DEF Check, TypeOK, PlaceInv, IdleEmpty
    <3>3. CASE Send(f)      BY <3>3 DEF Send, TypeOK, PlaceInv, IdleEmpty
    <3>4. CASE SendFails(f) BY <3>4 DEF SendFails, TypeOK, PlaceInv, IdleEmpty
    <3> QED
      BY <1>2, <3>1, <3>2, <3>3, <3>4
  <2>2. \A r \in Results : Kept(r)
    <3>1. CASE Take(f)
      BY <3>1, TakeKeeps DEF PlaceInv
    <3>2. CASE Check(f) /\ taskID = NoTask
      <4>1. /\ lost' = lost \cup (batch[f] \X {"unassigned"})
            /\ UNCHANGED <<buffer, transit, channel, credited>>
            /\ \A g \in Flushers : batch'[g] = IF g = f THEN {} ELSE batch[g]
        BY <3>2 DEF Check, TypeOK
      <4> QED
        BY <4>1, DropKeeps DEF PlaceInv, Causes
    <3>3. CASE Check(f) /\ taskID # NoTask
      BY <3>3 DEF Check, Kept, Where
    <3>4. CASE Send(f)
      BY <3>4, SendKeeps DEF PlaceInv
    <3>5. CASE SendFails(f)
      <4>1. /\ lost' = lost \cup (batch[f] \X {"stream"})
            /\ UNCHANGED <<buffer, transit, channel, credited>>
            /\ \A g \in Flushers : batch'[g] = IF g = f THEN {} ELSE batch[g]
        BY <3>5 DEF SendFails, TypeOK
      <4> QED
        BY <4>1, DropKeeps DEF PlaceInv, Causes
    <3> QED
      BY <1>2, <3>1, <3>2, <3>3, <3>4, <3>5
  <2> QED
    BY <1>1, <2>1, <2>2
<1>3. ASSUME UNCHANGED <<buffer, batch, transit, channel, lost, credited>>
      PROVE  \A r \in Results : Kept(r)
  BY <1>3 DEF Kept, Where
<1>4. ASSUME NEW t \in Tasks, Start(t) \/ End(t) \/ FinalFlushDone(t) \/ StopTask(t)
      PROVE  PlaceInv'
  <2>1. /\ UNCHANGED <<buffer, batch, transit, channel, lost, credited, total>> /\ made' = made
        /\ IdleEmpty'
    <3>1. CASE Start(t)          BY <3>1 DEF Start, PlaceInv, IdleEmpty
    <3>2. CASE End(t)            BY <3>2, FlusherOfRun DEF End, PlaceInv, IdleEmpty, TypeOK
    <3>3. CASE FinalFlushDone(t) BY <3>3 DEF FinalFlushDone, PlaceInv, IdleEmpty
    <3>4. CASE StopTask(t)       BY <3>4 DEF StopTask, PlaceInv, IdleEmpty
    <3> QED
      BY <1>4, <3>1, <3>2, <3>3, <3>4
  <2> QED
    BY <1>1, <1>3, <2>1
<1>5. CASE (\E c \in closing : CloseStream(c)) \/ StreamClosed \/ UNCHANGED vars
  <2>1. /\ UNCHANGED <<buffer, batch, transit, channel, lost, credited, total>> /\ made' = made
        /\ IdleEmpty'
    BY <1>5 DEF CloseStream, StreamClosed, vars, PlaceInv, IdleEmpty
  <2> QED
    BY <1>1, <1>3, <2>1
<1>6. CASE Break \/ Receive
  <2>1. IdleEmpty' /\ made' = made /\ UNCHANGED <<total, credited>>
    BY <1>6 DEF Break, Receive, PlaceInv, IdleEmpty
  <2>2. \A r \in Results : Kept(r)
    BY <1>6, BreakKeeps, ReceiveKeeps DEF PlaceInv
  <2> QED
    BY <1>1, <2>1, <2>2
<1>7. CASE ProcessStats
  <2>1. IdleEmpty' /\ made' = made
    BY <1>7 DEF ProcessStats, PlaceInv, IdleEmpty
  <2>2. \A r \in Results : Kept(r)
    BY <1>7, ProcessKeeps DEF PlaceInv
  <2>3. TotalInv'
    BY <1>7, ProcessTotals
  <2> QED
    BY <2>1, <2>2, <2>3, KeptOnce DEF PlaceInv, PlacedInv
<1> QED
  BY <1>2, <1>4, <1>5, <1>6, <1>7, AddPlaces DEF Next, Progress

\* However flushes, sends, breaks and the collector interleave, every result
\* that was made is in one place and counted once.
THEOREM AccountedAlways == Spec => []Accounted
<1>1. PlaceInv => Accounted
  <2> SUFFICES ASSUME PlaceInv PROVE Accounted
    OBVIOUS
  <2>1. ASSUME NEW r \in Placed PROVE Cardinality(Where(r)) = 1
    <3>1. PICK p : p \in Where(r)
      BY DEF Placed
    <3>2. Where(r) = {p}
      BY <3>1 DEF Placed, PlaceInv, Once
    <3> QED
      BY <3>2, FS_Singleton
  <2> QED
    BY <2>1 DEF Accounted, PlaceInv, PlacedInv, TotalInv
<1>2. QED
  BY <1>1, TypeInit, TypeStep, InitPlace, PlaceStep, PTL DEF Spec
=============================================================================
