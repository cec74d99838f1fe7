-------------------------- MODULE CollectorProofs ---------------------------
(***************************************************************************)
(* Proofs about Collector, for any number of workers, results and failing  *)
(* writes, and any sizes of channel and batch.                             *)
(*                                                                         *)
(* IInv is what the storage and the workers know of the written results:   *)
(* each is somewhere, lost only for a reason, and the storage is closed    *)
(* only after the last worker.  HeldInv adds that each is in one place, by *)
(* sequences without duplicates that share nothing (ApartInv), and that    *)
(* the counters of the storage count what was stored, what failed to be    *)
(* and what is being committed (CountsInv).  FiguresInv is about the       *)
(* figures: how far a map that workers read and then write lags behind     *)
(* (Tally).  ExportInv and BoundsInv are the page and the sizes.  Ranks    *)
(* are how a set of numbers becomes the rows of a query.                   *)
(***************************************************************************)
EXTENDS Collector, FiniteSetTheorems, TLAPS

LostOnes == {x[1] : x \in lost}

\* What holds of the numbers a worker and the collector give to results.
NumberInv ==
  /\ class \in Seq(Classes) /\ number \in [Workers -> Nat]
  /\ DOMAIN pc = Workers
  /\ \A w \in Workers :
       /\ number[w] <= Len(class)
       /\ pc[w] \in {"check", "send", "commit"} <=> number[w] # 0
       /\ \A v \in Workers \ {w} : number[w] # 0 => number[v] # number[w]

\* The storage is closed only when no worker will write any more.
ClosedInv ==
  /\ begun <= MaxResults /\ begun \in Nat
  /\ life # "open" => RunIsOver
  /\ ~panicked

\* What is left in the channel and in the batch when the loop has ended, and in memory.
LoopInv ==
  /\ backend \in Backends
  /\ life \in {"open", "flagged", "cancelled", "waiting", "closed"}
  /\ queue \in Seq(Nat) /\ batch \in Seq(Nat) /\ table \in Seq(Nat)
  /\ failures \in Nat
  /\ backend # "memory" /\ ~loop => batch = << >> /\ life # "open"
  /\ backend = "sqlite" /\ ~loop => queue = << >>
  /\ backend = "memory" => /\ queue = << >> /\ batch = << >> /\ lost = {} /\ ~loop
                           /\ life \in {"open", "closed"}
                           /\ \A w \in Workers : pc[w] \notin {"send", "commit"}
  /\ \A w \in Workers : pc[w] = "commit" => backend = "badger"
  /\ flush \in {"none", "batch", "last"} /\ (flush # "none" => loop)
  /\ flush = "last" => life # "open" /\ (backend = "sqlite" => queue = << >>)
  /\ life = "closed" => queue = << >> /\ batch = << >> /\ ~loop

\* A result that was written is somewhere.
PlaceInv == Written = ToSet(queue) \cup ToSet(batch) \cup ToSet(table) \cup LostOnes

IInv == NumberInv /\ ClosedInv /\ LoopInv /\ PlaceInv /\ LossesExplained

\* Abbreviations, expanded everywhere.
USE DEF storageVars, workerVars, figureVars, Goto

-----------------------------------------------------------------------------
(* Sequences as sets.                                                      *)

LEMMA SetOfAppend ==
  ASSUME NEW S, NEW s \in Seq(S), NEW x \in S
  PROVE  Append(s, x) \in Seq(S) /\ ToSet(Append(s, x)) = ToSet(s) \cup {x}
<1>1. /\ Append(s, x) \in Seq(S) /\ Len(Append(s, x)) = Len(s) + 1 /\ Len(s) \in Nat
      /\ \A i \in 1 .. Len(s) : Append(s, x)[i] = s[i]
      /\ Append(s, x)[Len(s) + 1] = x
  OBVIOUS
<1>2. DOMAIN s = 1 .. Len(s) /\ DOMAIN Append(s, x) = 1 .. Len(s) + 1
  BY <1>1
<1>3. QED BY <1>1, <1>2 DEF ToSet

LEMMA SetOfTail ==
  ASSUME NEW S, NEW s \in Seq(S), s # << >>
  PROVE  /\ Head(s) \in S /\ Tail(s) \in Seq(S)
         /\ ToSet(s) = {Head(s)} \cup ToSet(Tail(s))
<1>1. /\ Head(s) = s[1] /\ Head(s) \in S /\ Tail(s) \in Seq(S) /\ Len(s) \in Nat \ {0}
      /\ Len(Tail(s)) = Len(s) - 1
      /\ \A i \in 1 .. Len(s) - 1 : Tail(s)[i] = s[i + 1]
  OBVIOUS
<1>2. DOMAIN s = 1 .. Len(s) /\ DOMAIN Tail(s) = 1 .. Len(s) - 1
  BY <1>1
<1>3. ASSUME NEW x \in ToSet(s) PROVE x \in {Head(s)} \cup ToSet(Tail(s))
  <2>1. PICK i \in 1 .. Len(s) : x = s[i]
    BY <1>2, <1>3 DEF ToSet
  <2>2. CASE i = 1
    BY <1>1, <2>1, <2>2
  <2>3. CASE i # 1
    <3>1. i - 1 \in 1 .. Len(s) - 1 /\ Tail(s)[i - 1] = x
      BY <1>1, <2>1, <2>3
    <3>2. QED BY <1>2, <3>1 DEF ToSet
  <2>4. QED BY <2>2, <2>3
<1>4. ASSUME NEW x \in {Head(s)} \cup ToSet(Tail(s)) PROVE x \in ToSet(s)
  BY <1>1, <1>2, <1>4 DEF ToSet
<1>5. QED BY <1>1, <1>3, <1>4

LEMMA SetOfConcat ==
  ASSUME NEW S, NEW s \in Seq(S), NEW t \in Seq(S)
  PROVE  s \o t \in Seq(S) /\ ToSet(s \o t) = ToSet(s) \cup ToSet(t)
<1>1. /\ s \o t \in Seq(S) /\ Len(s \o t) = Len(s) + Len(t) /\ Len(s) \in Nat /\ Len(t) \in Nat
      /\ \A i \in 1 .. Len(s) + Len(t) : (s \o t)[i] = IF i <= Len(s) THEN s[i] ELSE t[i - Len(s)]
  OBVIOUS
<1>2. DOMAIN s = 1 .. Len(s) /\ DOMAIN t = 1 .. Len(t) /\ DOMAIN (s \o t) = 1 .. Len(s) + Len(t)
  BY <1>1
<1>3. ASSUME NEW x \in ToSet(s \o t) PROVE x \in ToSet(s) \cup ToSet(t)
  <2>1. PICK i \in 1 .. Len(s) + Len(t) : x = (s \o t)[i]
    BY <1>2, <1>3 DEF ToSet
  <2>2. CASE i <= Len(s)
    BY <1>1, <1>2, <2>1, <2>2 DEF ToSet
  <2>3. CASE i > Len(s)
    <3>1. i - Len(s) \in 1 .. Len(t) /\ x = t[i - Len(s)]
      BY <1>1, <2>1, <2>3
    <3>2. QED BY <1>2, <3>1 DEF ToSet
  <2>4. QED BY <1>1, <2>1, <2>2, <2>3
<1>4. ASSUME NEW x \in ToSet(s) PROVE x \in ToSet(s \o t)
  <2>1. PICK i \in 1 .. Len(s) : x = s[i]
    BY <1>2, <1>4 DEF ToSet
  <2>2. i \in 1 .. Len(s) + Len(t) /\ (s \o t)[i] = x
    BY <1>1, <2>1
  <2>3. QED BY <1>2, <2>2 DEF ToSet
<1>5. ASSUME NEW x \in ToSet(t) PROVE x \in ToSet(s \o t)
  <2>1. PICK i \in 1 .. Len(t) : x = t[i]
    BY <1>2, <1>5 DEF ToSet
  <2>2. i + Len(s) \in 1 .. Len(s) + Len(t) /\ (s \o t)[i + Len(s)] = x
    BY <1>1, <2>1
  <2>3. QED BY <1>2, <2>2 DEF ToSet
<1>6. QED BY <1>1, <1>3, <1>4, <1>5

LEMMA SetOfEmpty == ToSet(<< >>) = {}
BY DEF ToSet

-----------------------------------------------------------------------------
(* What the operations of the storage do with a result.                    *)

LEMMA Flushed ==
  ASSUME NEW ok \in BOOLEAN, Flush(ok), batch \in Seq(Nat), table \in Seq(Nat), failures \in Nat
  PROVE  /\ table' \in Seq(Nat) /\ batch' = << >> /\ failures' \in Nat /\ failures' >= failures
         /\ ToSet(table') \cup LostOnes' = ToSet(table) \cup LostOnes \cup ToSet(batch)
         /\ \A x \in lost' : x \in lost \/ (x[2] = "failed" /\ failures' > 0)
<1>1. CASE ok
  <2>1. table' = table \o batch /\ lost' = lost /\ batch' = << >> /\ failures' = failures
    BY <1>1 DEF Flush, Fails
  <2>2. table' \in Seq(Nat) /\ ToSet(table') = ToSet(table) \cup ToSet(batch)
    BY <2>1, SetOfConcat
  <2>3. LostOnes' = LostOnes
    BY <2>1 DEF LostOnes
  <2>4. QED BY <2>1, <2>2, <2>3
<1>2. CASE ~ok
  <2>1. /\ lost' = lost \cup (ToSet(batch) \X {"failed"}) /\ table' = table /\ batch' = << >>
        /\ failures' = failures + 1
    BY <1>2 DEF Flush, Fails
  <2>2. LostOnes' = LostOnes \cup ToSet(batch)
    <3>1. ASSUME NEW r \in ToSet(batch) PROVE r \in LostOnes'
      <4>1. <<r, "failed">> \in lost' /\ <<r, "failed">>[1] = r
        BY <2>1
      <4>2. QED BY <4>1 DEF LostOnes
    <3>2. QED BY <2>1, <3>1 DEF LostOnes
  <2>3. QED BY <2>1, <2>2
<1>3. QED BY <1>1, <1>2

LEMMA WroteOne ==
  ASSUME NEW r \in Nat, NEW ok \in BOOLEAN, CommitOne(r, ok), table \in Seq(Nat), failures \in Nat
  PROVE  /\ table' \in Seq(Nat) /\ failures' \in Nat /\ failures' >= failures
         /\ ToSet(table') \cup LostOnes' = ToSet(table) \cup LostOnes \cup {r}
         /\ \A x \in lost' : x \in lost \/ (x[2] = "failed" /\ failures' > 0)
<1>1. CASE ok
  <2>1. table' = Append(table, r) /\ lost' = lost /\ failures' = failures
    BY <1>1 DEF CommitOne, Fails
  <2>2. table' \in Seq(Nat) /\ ToSet(table') = ToSet(table) \cup {r}
    BY <2>1, SetOfAppend
  <2>3. LostOnes' = LostOnes
    BY <2>1 DEF LostOnes
  <2>4. QED BY <2>1, <2>2, <2>3
<1>2. CASE ~ok
  <2>1. /\ lost' = lost \cup {<<r, "failed">>} /\ table' = table /\ failures' = failures + 1
    BY <1>2 DEF CommitOne, Fails
  <2>2. <<r, "failed">>[1] = r /\ <<r, "failed">>[2] = "failed"
    OBVIOUS
  <2>3. LostOnes' = LostOnes \cup {r}
    BY <2>1, <2>2 DEF LostOnes
  <2>4. QED BY <2>1, <2>2, <2>3
<1>3. QED BY <1>1, <1>2

\* Before the channel is closed, what is sent is in the channel or lost.
LEMMA Sent ==
  ASSUME NEW r \in Nat, Send(r), life = "open", LoopInv
  PROVE  /\ queue' \in Seq(Nat) /\ UNCHANGED <<table, failures, panicked>>
         /\ ToSet(queue') \cup LostOnes' = ToSet(queue) \cup LostOnes \cup {r}
         /\ \A x \in lost' : x \in lost \/ x[2] = "full"
<1>1. CASE Len(queue) < ChannelSize
  <2>1. queue' = Append(queue, r) /\ UNCHANGED <<table, lost, failures, panicked>>
    BY <1>1 DEF Send
  <2>2. queue \in Seq(Nat)
    BY DEF LoopInv
  <2>3. queue' \in Seq(Nat) /\ ToSet(queue') = ToSet(queue) \cup {r}
    BY <2>1, <2>2, SetOfAppend
  <2>4. LostOnes' = LostOnes
    BY <2>1 DEF LostOnes
  <2>5. QED BY <2>1, <2>3, <2>4
<1>2. CASE ~(Len(queue) < ChannelSize)
  <2>1. lost' = lost \cup {<<r, "full">>} /\ UNCHANGED <<queue, table, failures, panicked>>
    BY <1>2 DEF Send
  <2>2. <<r, "full">>[1] = r /\ <<r, "full">>[2] = "full"
    OBVIOUS
  <2>3. LostOnes' = LostOnes \cup {r}
    BY <2>1, <2>2 DEF LostOnes
  <2>4. QED BY <2>1, <2>2, <2>3 DEF LoopInv
<1>3. QED BY <1>1, <1>2

\* New losses that are explained keep the losses explained.
LEMMA StillExplained ==
  ASSUME LossesExplained, failures \in Nat, failures' \in Nat, failures' >= failures,
         backend' = backend, backend # "memory",
         \A x \in lost' : \/ x \in lost \/ x[2] = "full" \/ (x[2] = "failed" /\ failures' > 0)
                          \/ (x[2] = "abandoned" /\ backend = "badger")
  PROVE  LossesExplained'
BY DEF LossesExplained

\* The loop and Close only move results, or lose some of them for a reason.
LEMMA BackgroundStep ==
  ASSUME LoopInv, LossesExplained, LoopStep \/ CloseStep, UNCHANGED pc
  PROVE  /\ LoopInv' /\ LossesExplained'
         /\ (ToSet(queue) \cup ToSet(batch) \cup ToSet(table) \cup LostOnes)'
              = ToSet(queue) \cup ToSet(batch) \cup ToSet(table) \cup LostOnes
<1> DEFINE All == ToSet(queue) \cup ToSet(batch) \cup ToSet(table) \cup LostOnes
           Goal == LoopInv' /\ LossesExplained' /\ All' = All
<1>0. Backends = {"memory", "sqlite", "badger"}
  BY DEF Backends
<1>1. CASE Receive
  <2> DEFINE rs == Append(batch, Head(queue))
  <2>1. /\ backend # "memory" /\ backend' = backend /\ life' = life /\ loop' = loop /\ loop /\ flush = "none"
        /\ flush' \in {"none", "batch"} /\ batch' = rs /\ UNCHANGED <<table, lost, failures>>
    BY <1>1 DEF Receive, WriteBatch, LoopInv
  <2>2. /\ Head(queue) \in Nat /\ queue' \in Seq(Nat) /\ life # "closed"
        /\ ToSet(queue) = {Head(queue)} \cup ToSet(queue')
    BY <1>1, SetOfTail DEF Receive, LoopInv
  <2>3. rs \in Seq(Nat) /\ ToSet(rs) = ToSet(batch) \cup {Head(queue)}
    BY <2>2, SetOfAppend DEF LoopInv
  <2> HIDE DEF rs
  <2>4. LossesExplained'
    BY <2>1 DEF LossesExplained
  <2>5. LoopInv'
    BY <2>1, <2>2, <2>3 DEF LoopInv
  <2>6. All' = All
    BY <2>1, <2>2, <2>3 DEF LostOnes
  <2>7. QED BY <2>4, <2>5, <2>6
<1>2. ASSUME NEW ok \in BOOLEAN, Flush(ok) PROVE Goal
  <2>1. /\ table' \in Seq(Nat) /\ batch' = << >> /\ failures' \in Nat /\ failures' >= failures
        /\ ToSet(table') \cup LostOnes' = ToSet(table) \cup LostOnes \cup ToSet(batch)
        /\ \A x \in lost' : x \in lost \/ (x[2] = "failed" /\ failures' > 0)
    BY <1>2, Flushed DEF LoopInv
  <2>2. /\ backend # "memory" /\ UNCHANGED <<backend, life, queue>>
        /\ flush # "none" /\ flush' = "none" /\ loop' = (flush = "batch")
    BY <1>2 DEF Flush, LoopInv
  <2>3. LossesExplained'
    BY <2>1, <2>2, StillExplained DEF LoopInv
  <2>4. LoopInv'
    <3>1. batch' \in Seq(Nat)
      BY <2>1
    <3>2. /\ loop /\ life # "closed"
          /\ flush = "last" => life # "open" /\ (backend = "sqlite" => queue = << >>)
      BY <2>2 DEF LoopInv
    <3>3. QED BY <2>1, <2>2, <3>1, <3>2 DEF LoopInv
  <2>5. All' = All
    BY <2>1, <2>2, SetOfEmpty
  <2>6. QED BY <2>3, <2>4, <2>5
<1>3. CASE Tick \/ Shutdown
  <2>1. /\ backend # "memory" /\ UNCHANGED <<backend, life, queue, batch, table, lost, failures>>
        /\ loop /\ flush = "none"
        /\ \/ loop' = loop /\ flush' = "batch"
           \/ /\ life # "open" /\ (backend = "sqlite" => queue = << >>)
              /\ \/ loop' = loop /\ flush' = "last"
                 \/ batch = << >> /\ loop' = FALSE /\ flush' = flush
    BY <1>3 DEF Tick, Shutdown, WriteBatch, LoopInv
  <2>2. LossesExplained' /\ LoopInv'
    BY <2>1 DEF LoopInv, LossesExplained
  <2>3. All' = All
    BY <2>1 DEF LostOnes
  <2>4. QED BY <2>2, <2>3
<1>4. CASE CancelLoop \/ CloseChannel
  <2>1. LossesExplained' /\ LoopInv'
    BY <1>4 DEF CancelLoop, CloseChannel, LoopInv, LossesExplained
  <2>2. All' = All
    BY <1>4 DEF CancelLoop, CloseChannel, LostOnes
  <2>3. QED BY <2>1, <2>2
<1>5. CASE CloseDatabase
  <2>1. /\ backend # "memory" /\ backend' = backend /\ batch = << >> /\ batch' = << >>
        /\ life' = "closed" /\ loop' = loop /\ ~loop /\ queue' = << >> /\ flush' = flush
        /\ table' = table /\ failures' = failures
        /\ lost' = lost \cup (ToSet(queue) \X {"abandoned"})
    BY <1>5 DEF CloseDatabase, LoopInv
  <2>2. \A x \in lost' : x \in lost \/ (x[2] = "abandoned" /\ backend = "badger")
    <3>1. CASE backend = "sqlite"
      BY <2>1, <3>1, SetOfEmpty DEF LoopInv
    <3>2. CASE backend = "badger"
      BY <2>1, <3>2
    <3>3. QED BY <1>0, <2>1, <3>1, <3>2 DEF LoopInv
  <2>3. LossesExplained'
    BY <2>1, <2>2, StillExplained DEF LoopInv
  <2>4. LoopInv'
    BY <2>1 DEF LoopInv
  <2>5. LostOnes' = LostOnes \cup ToSet(queue)
    <3>1. ASSUME NEW r \in ToSet(queue) PROVE r \in LostOnes'
      <4>1. <<r, "abandoned">> \in lost' /\ <<r, "abandoned">>[1] = r
        BY <2>1
      <4>2. QED BY <4>1 DEF LostOnes
    <3>2. QED BY <2>1, <3>1 DEF LostOnes
  <2>6. All' = All
    BY <2>1, <2>5, SetOfEmpty
  <2>7. QED BY <2>3, <2>4, <2>6
<1>6. QED BY <1>1, <1>2, <1>3, <1>4, <1>5 DEF LoopStep, CloseStep

-----------------------------------------------------------------------------
(* The steps of a worker.                                                  *)

LEMMA StorageIsOpen ==
  ASSUME ClosedInv, NEW w \in Workers, pc[w] # "idle" \/ begun < MaxResults
  PROVE  life = "open"
BY DetailStorageAssumption DEF ClosedInv, RunIsOver, WorkersDone

\* Before the result has its ID the storage is not involved.
LEMMA CountingStep ==
  ASSUME IInv, NEW w \in Workers, NEW to, life = "open", pc' = [pc EXCEPT ![w] = to],
         pc[w] \notin {"check", "send", "commit"}, to \notin {"check", "send", "commit"},
         UNCHANGED <<storageVars, number>>, begun' \in Nat, begun' <= MaxResults
  PROVE  IInv'
<1>1. NumberInv'
  BY DEF IInv, NumberInv
<1>2. ClosedInv'
  BY DEF IInv, ClosedInv
<1>3. LoopInv'
  BY DEF IInv, LoopInv, NumberInv
<1>4. PlaceInv'
  BY DEF IInv, PlaceInv, Written, LostOnes
<1>5. LossesExplained'
  BY DEF IInv, LossesExplained
<1>6. QED BY <1>1, <1>2, <1>3, <1>4, <1>5 DEF IInv

LEMMA IdentifyStep ==
  ASSUME IInv, NEW w \in Workers, Identify(w), cur[w] \in Classes
  PROVE  IInv'
<1>0. /\ life = "open" /\ pc[w] = "identify" /\ number[w] = 0
      /\ pc' = [pc EXCEPT ![w] = "check"] /\ number' = [number EXCEPT ![w] = Len(class) + 1]
      /\ class' = Append(class, cur[w])
      /\ UNCHANGED <<backend, queue, batch, table, lost, failures, life, loop, flush, panicked, begun>>
  BY StorageIsOpen DEF Identify, IInv, NumberInv
<1>1. /\ class' \in Seq(Classes) /\ Len(class') = Len(class) + 1 /\ Len(class) \in Nat
      /\ \A v \in Workers : number[v] \in Nat /\ number[v] <= Len(class)
  BY <1>0 DEF IInv, NumberInv
<1>2. NumberInv'
  BY <1>0, <1>1 DEF IInv, NumberInv
<1>3. Written' = Written
  <2>1. \A v \in Workers \ {w} : number'[v] = number[v]
    BY <1>0 DEF IInv, NumberInv
  <2>2. number'[w] = Len(class) + 1 /\ number[w] = 0
    BY <1>0 DEF IInv, NumberInv
  <2>3. ASSUME NEW r PROVE r \in Written' <=> r \in Written
    <3>1. CASE r \in 1 .. Len(class)
      BY <1>1, <2>1, <2>2, <3>1 DEF Written
    <3>2. CASE r \notin 1 .. Len(class)
      BY <1>1, <2>2, <3>2 DEF Written
    <3>3. QED BY <3>1, <3>2
  <2>4. QED BY <2>3 DEF Written
<1>4. ClosedInv' /\ LoopInv' /\ LossesExplained'
  BY <1>0 DEF IInv, ClosedInv, LoopInv, LossesExplained, NumberInv
<1>5. PlaceInv'
  BY <1>0, <1>3 DEF IInv, PlaceInv, LostOnes
<1>6. QED BY <1>2, <1>4, <1>5 DEF IInv

\* With its result a worker gives up the number.
LEMMA FinishStep ==
  ASSUME NumberInv, NEW w \in Workers, pc[w] \in {"check", "send", "commit"}, Finish(w), class' = class
  PROVE  NumberInv' /\ number[w] \in Nat /\ Written' = Written \cup {number[w]}
<1>1. pc' = [pc EXCEPT ![w] = "idle"] /\ number' = [number EXCEPT ![w] = 0]
  BY DEF Finish
<1>2. /\ number[w] \in 1 .. Len(class)
      /\ \A v \in Workers \ {w} : number'[v] = number[v] /\ number[v] # number[w]
      /\ number'[w] = 0
  BY <1>1 DEF NumberInv
<1>3. NumberInv'
  BY <1>1 DEF NumberInv
<1>4. Written' = Written \cup {number[w]}
  BY <1>2 DEF Written
<1>5. QED BY <1>2, <1>3, <1>4

LEMMA CheckOpenStep ==
  ASSUME IInv, NEW w \in Workers, CheckOpen(w)
  PROVE  IInv'
<1>0. /\ life = "open" /\ pc[w] = "check" /\ ~panicked
      /\ UNCHANGED <<backend, class, life, loop, flush, begun>>
      /\ backend \in {"memory", "sqlite", "badger"}
  BY StorageIsOpen DEF CheckOpen, IInv, ClosedInv, LoopInv, Backends
<1>1. CASE backend = "memory"
  <2>1. WriteMemory(number[w]) /\ Finish(w) /\ UNCHANGED batch
    BY <1>0, <1>1 DEF CheckOpen
  <2>2. NumberInv' /\ number[w] \in Nat /\ Written' = Written \cup {number[w]}
    BY <1>0, <2>1, FinishStep DEF IInv
  <2>3. table' = Append(table, number[w]) /\ UNCHANGED <<lost, queue, failures, panicked, batch>>
    BY <1>0, <2>1 DEF WriteMemory
  <2>4. table' \in Seq(Nat) /\ ToSet(table') = ToSet(table) \cup {number[w]}
    BY <2>2, <2>3, SetOfAppend DEF IInv, LoopInv
  <2>5. PlaceInv'
    BY <2>2, <2>3, <2>4 DEF IInv, PlaceInv, LostOnes
  <2>6. ClosedInv' /\ LossesExplained'
    BY <1>0, <2>3 DEF IInv, ClosedInv, LossesExplained
  <2>7. LoopInv'
    BY <1>0, <2>1, <2>3, <2>4 DEF IInv, LoopInv, Finish, NumberInv
  <2>8. QED BY <2>2, <2>5, <2>6, <2>7 DEF IInv
<1>2. CASE backend # "memory"
  <2>1. /\ pc' = [pc EXCEPT ![w] = "send"]
        /\ UNCHANGED <<number, queue, batch, table, lost, failures, panicked>>
    BY <1>0, <1>2 DEF CheckOpen
  <2>2. NumberInv'
    BY <1>0, <2>1 DEF IInv, NumberInv
  <2>3. ClosedInv' /\ LoopInv' /\ LossesExplained'
    BY <1>0, <1>2, <2>1 DEF IInv, ClosedInv, LoopInv, LossesExplained
  <2>4. PlaceInv'
    BY <1>0, <2>1 DEF IInv, PlaceInv, Written, LostOnes
  <2>5. QED BY <2>2, <2>3, <2>4 DEF IInv
<1>3. QED BY <1>1, <1>2

LEMMA SendResultStep ==
  ASSUME IInv, NEW w \in Workers, SendResult(w)
  PROVE  IInv'
<1>0. /\ life = "open" /\ pc[w] = "send" /\ backend # "memory"
      /\ UNCHANGED <<backend, class, batch, life, loop, flush, begun>>
  BY StorageIsOpen DEF SendResult, IInv, LoopInv
<1>1. CASE Send(number[w]) /\ Finish(w)
  <2>1. NumberInv' /\ number[w] \in Nat /\ Written' = Written \cup {number[w]}
    BY <1>0, <1>1, FinishStep DEF IInv
  <2>2. /\ queue' \in Seq(Nat) /\ UNCHANGED <<table, failures, panicked>>
        /\ ToSet(queue') \cup LostOnes' = ToSet(queue) \cup LostOnes \cup {number[w]}
        /\ \A x \in lost' : x \in lost \/ x[2] = "full"
    BY <1>0, <1>1, <2>1, Sent DEF IInv
  <2>3. LossesExplained'
    BY <1>0, <2>2, StillExplained DEF IInv, LoopInv
  <2>4. ClosedInv'
    BY <1>0, <2>2 DEF IInv, ClosedInv
  <2>5. LoopInv'
    BY <1>0, <1>1, <2>2 DEF IInv, LoopInv, Finish, NumberInv
  <2>6. PlaceInv'
    BY <1>0, <2>1, <2>2 DEF IInv, PlaceInv
  <2>7. QED BY <2>1, <2>3, <2>4, <2>5, <2>6 DEF IInv
<1>2. CASE CountOne(number[w]) /\ Goto(w, "commit") /\ UNCHANGED <<cur, status, loaded, number>>
  <2>1. /\ pc' = [pc EXCEPT ![w] = "commit"] /\ backend = "badger"
        /\ UNCHANGED <<number, queue, batch, table, lost, failures, panicked>>
    BY <1>0, <1>2 DEF CountOne
  <2>2. NumberInv'
    BY <1>0, <2>1 DEF IInv, NumberInv
  <2>3. ClosedInv' /\ LoopInv' /\ LossesExplained'
    BY <1>0, <2>1 DEF IInv, ClosedInv, LoopInv, LossesExplained, NumberInv
  <2>4. PlaceInv'
    BY <1>0, <2>1 DEF IInv, PlaceInv, Written, LostOnes
  <2>5. QED BY <2>2, <2>3, <2>4 DEF IInv
<1>3. QED BY <1>1, <1>2 DEF SendResult

LEMMA CommitResultStep ==
  ASSUME IInv, NEW w \in Workers, CommitResult(w)
  PROVE  IInv'
<1>1. PICK ok \in BOOLEAN : CommitOne(number[w], ok)
  BY DEF CommitResult
<1>2. /\ life = "open" /\ pc[w] = "commit" /\ backend = "badger" /\ Finish(w)
      /\ UNCHANGED <<backend, class, queue, batch, life, loop, flush, begun, panicked>>
  BY <1>1, StorageIsOpen DEF CommitResult, CommitOne, IInv, LoopInv
<1>3. NumberInv' /\ number[w] \in Nat /\ Written' = Written \cup {number[w]}
  BY <1>2, FinishStep DEF IInv
<1>4. /\ table' \in Seq(Nat) /\ failures' \in Nat /\ failures' >= failures
      /\ ToSet(table') \cup LostOnes' = ToSet(table) \cup LostOnes \cup {number[w]}
      /\ \A x \in lost' : x \in lost \/ (x[2] = "failed" /\ failures' > 0)
  BY <1>1, <1>3, WroteOne DEF IInv, LoopInv
<1>5. LossesExplained'
  BY <1>2, <1>4, StillExplained DEF IInv, LoopInv
<1>6. ClosedInv'
  BY <1>2 DEF IInv, ClosedInv
<1>7. LoopInv'
  BY <1>2, <1>4 DEF IInv, LoopInv, Finish, NumberInv
<1>8. PlaceInv'
  BY <1>2, <1>3, <1>4 DEF IInv, PlaceInv
<1>9. QED BY <1>3, <1>5, <1>6, <1>7, <1>8 DEF IInv

-----------------------------------------------------------------------------
(* All steps.                                                              *)

\* A worker in Collect has a result of a class.
ClassInv == \A w \in Workers : pc[w] # "idle" => cur[w] \in Classes
CurType == DOMAIN cur = Workers

LEMMA InitInv == Init => IInv /\ ClassInv /\ CurType
<1> SUFFICES ASSUME Init PROVE IInv /\ ClassInv /\ CurType
  OBVIOUS
<1>1. backend \in {"memory", "sqlite", "badger"}
  BY DEF Init, StorageInit, CreateStorage, Backends
<1>2. NumberInv
  BY DEF Init, StorageInit, NumberInv
<1>3. ClosedInv
  BY DetailStorageAssumption DEF Init, StorageInit, ClosedInv
<1>4. LoopInv
  <2>1. (backend = "memory" => ~loop) /\ (backend # "memory" => loop)
    BY Zenon DEF Init, StorageInit
  <2>2. << >> \in Seq(Nat)
    OBVIOUS
  <2>3. QED BY <1>1, <2>1, <2>2 DEF Init, StorageInit, LoopInv, Backends
<1>5. PlaceInv
  BY SetOfEmpty DEF Init, StorageInit, PlaceInv, Written, LostOnes
<1>6. LossesExplained
  BY DEF Init, StorageInit, LossesExplained
<1>7. QED BY <1>2, <1>3, <1>4, <1>5, <1>6 DEF IInv, ClassInv, CurType, Init

LEMMA ClassStep ==
  ASSUME NumberInv, ClassInv, CurType, [Next]_vars
  PROVE  ClassInv' /\ CurType'
<1> USE DEF NumberInv, ClassInv, CurType
<1>1. CASE UNCHANGED <<pc, cur>>
  BY <1>1
<1>2. ASSUME NEW w \in Workers, Collect(w) PROVE ClassInv' /\ CurType'
  <2>1. ASSUME NEW c \in Classes, NEW coded \in BOOLEAN, Begin(w, c, coded) PROVE ClassInv' /\ CurType'
    BY <2>1 DEF Begin
  <2>2. CASE LoadError(w) \/ LoadCode(w) \/ StoreError(w) \/ StoreCode(w) \/ Identify(w)
    BY <2>2 DEF LoadError, LoadCode, Load, StoreError, StoreCode, Identify
  <2>3. CASE CheckOpen(w) \/ SendResult(w) \/ CommitResult(w)
    BY <2>3 DEF CheckOpen, SendResult, CommitResult, Finish
  <2>4. QED BY <1>2, <2>1, <2>2, <2>3 DEF Collect
<1>3. QED BY <1>1, <1>2 DEF Next, Export, Close, Background, vars

LEMMA InvStep == IInv /\ ClassInv /\ [Next]_vars => IInv'
<1> SUFFICES ASSUME IInv, ClassInv, [Next]_vars PROVE IInv'
  OBVIOUS
<1>1. ASSUME NEW w \in Workers, NEW c \in Classes, NEW coded \in BOOLEAN, Begin(w, c, coded)
      PROVE  IInv'
  <2>1. life = "open"
    BY <1>1, StorageIsOpen DEF Begin, IInv
  <2>2. PICK to \in {"loadError", "loadCode", "identify"} : pc' = [pc EXCEPT ![w] = to]
    BY <1>1 DEF Begin
  <2>3. begun' \in Nat /\ begun' <= MaxResults
    BY <1>1, DetailStorageAssumption DEF Begin, IInv, ClosedInv
  <2>4. pc[w] = "idle" /\ UNCHANGED <<storageVars, number>>
    BY <1>1 DEF Begin
  <2>5. QED BY <2>1, <2>2, <2>3, <2>4, CountingStep
<1>2. ASSUME NEW w \in Workers, LoadError(w) \/ LoadCode(w) \/ StoreError(w) \/ StoreCode(w)
      PROVE  IInv'
  <2>1. PICK to \in {"storeError", "storeCode", "loadCode", "identify"} : pc' = [pc EXCEPT ![w] = to]
    BY <1>2 DEF LoadError, LoadCode, Load, StoreError, StoreCode, AfterErrors
  <2>2. /\ pc[w] \in {"loadError", "loadCode", "storeError", "storeCode"}
        /\ UNCHANGED <<storageVars, number, begun>>
    BY <1>2 DEF LoadError, LoadCode, Load, StoreError, StoreCode
  <2>3. life = "open"
    BY <2>2, StorageIsOpen DEF IInv
  <2>4. begun' \in Nat /\ begun' <= MaxResults
    BY <2>2 DEF IInv, ClosedInv
  <2>5. QED BY <2>1, <2>2, <2>3, <2>4, CountingStep
<1>3. ASSUME NEW w \in Workers, Identify(w) PROVE IInv'
  BY <1>3, IdentifyStep DEF Identify, ClassInv
<1>4. ASSUME NEW w \in Workers, CheckOpen(w) \/ SendResult(w) \/ CommitResult(w) PROVE IInv'
  BY <1>4, CheckOpenStep, SendResultStep, CommitResultStep
<1>5. CASE Close
  <2>1. /\ RunIsOver /\ UNCHANGED <<backend, class, queue, batch, table, lost, failures, loop, flush,
                                    panicked, pc, number, begun>>
        /\ life' = IF backend = "memory" THEN "closed" ELSE "flagged"
    BY <1>5 DEF Close, Flag
  <2>2. NumberInv' /\ LossesExplained' /\ LoopInv'
    BY <2>1 DEF IInv, NumberInv, LossesExplained, LoopInv
  <2>3. ClosedInv'
    BY <2>1 DEF IInv, ClosedInv, RunIsOver, WorkersDone
  <2>4. PlaceInv'
    BY <2>1 DEF IInv, PlaceInv, Written, LostOnes
  <2>5. QED BY <2>2, <2>3, <2>4 DEF IInv
<1>6. CASE Background
  <2>1. LoopStep \/ CloseStep
    BY <1>6 DEF Background
  <2>2. UNCHANGED <<pc, number, begun>>
    BY <1>6 DEF Background
  <2>3. /\ LoopInv' /\ LossesExplained'
        /\ (ToSet(queue) \cup ToSet(batch) \cup ToSet(table) \cup LostOnes)'
             = ToSet(queue) \cup ToSet(batch) \cup ToSet(table) \cup LostOnes
    BY <2>1, <2>2, BackgroundStep DEF IInv
  <2>4. UNCHANGED <<class, panicked>>
    BY <2>1 DEF LoopStep, CloseStep, Receive, Tick, Shutdown, Flush, CancelLoop, CloseChannel, CloseDatabase
  <2>5. life' # "open" => life # "open"
    BY <2>1 DEF LoopStep, CloseStep, Receive, Tick, Shutdown, Flush, CancelLoop, CloseChannel, CloseDatabase
  <2>6. NumberInv'
    BY <2>2, <2>4 DEF IInv, NumberInv
  <2>7. ClosedInv'
    BY <2>2, <2>4, <2>5 DEF IInv, ClosedInv, RunIsOver, WorkersDone
  <2>8. Written' = Written
    BY <2>2, <2>4 DEF Written
  <2>9. PlaceInv'
    BY <2>3, <2>8 DEF IInv, PlaceInv
  <2>10. QED BY <2>3, <2>6, <2>7, <2>9 DEF IInv
<1>7. CASE Export \/ UNCHANGED vars
  <2>1. UNCHANGED <<storageVars, pc, number, begun>>
    BY <1>7 DEF Export, vars
  <2>2. NumberInv' /\ LossesExplained' /\ LoopInv'
    BY <2>1 DEF IInv, NumberInv, LossesExplained, LoopInv
  <2>3. ClosedInv'
    BY <2>1 DEF IInv, ClosedInv, RunIsOver, WorkersDone
  <2>4. PlaceInv'
    BY <2>1 DEF IInv, PlaceInv, Written, LostOnes
  <2>5. QED BY <2>2, <2>3, <2>4 DEF IInv
<1>8. QED BY <1>1, <1>2, <1>3, <1>4, <1>5, <1>6, <1>7 DEF Next, Collect

LEMMA Invariant == Spec => []IInv
<1>1. IInv /\ ClassInv /\ CurType /\ [Next]_vars => (IInv /\ ClassInv /\ CurType)'
  BY InvStep, ClassStep DEF IInv
<1>2. QED BY InitInv, <1>1, PTL DEF Spec

-----------------------------------------------------------------------------

\* No worker sends to the channel that Close has closed (sqlite.go and badger.go release
\* their lock between the check and the send): the run closes the storage only after its
\* last worker, which then is past both.
THEOREM NoSendAfterClose == Spec => []~panicked
<1>1. IInv => ~panicked
  BY DEF IInv, ClosedInv
<1>2. QED BY Invariant, <1>1, PTL

\* No result is lost without one of the reasons there are: a failed write, a full channel of
\* SQLite, or the channel that Badger abandons; none in memory, and none to an early Close.
THEOREM LossesAlwaysExplained == Spec => []LossesExplained
<1>1. IInv => LossesExplained
  BY DEF IInv
<1>2. QED BY Invariant, <1>1, PTL

\* When Close has returned, every result that was written is stored or lost: none is left in
\* the channel or in the batch of the loop.
THEOREM NoneIsLeft == Spec => []NoneLeft
<1>1. IInv => NoneLeft
  <2>1. IInv /\ life = "closed" => queue = << >> /\ batch = << >>
    BY DEF IInv, LoopInv
  <2>2. QED BY <2>1, SetOfEmpty DEF IInv, NoneLeft, PlaceInv, LostOnes
<1>2. QED BY Invariant, <1>1, PTL

-----------------------------------------------------------------------------
(* Ranks, and the rows of a query.                                        *)

LEMMA UpTo ==
  ASSUME NEW n \in Nat
  PROVE  IsFiniteSet(1 .. n) /\ Cardinality(1 .. n) = n
BY FS_Interval

LEMMA RankStep ==
  ASSUME NEW S \in SUBSET Int, IsFiniteSet(S), NEW x \in S, NEW y \in S, x < y
  PROVE  Cardinality({z \in S : z <= x}) < Cardinality({z \in S : z <= y})
<1> DEFINE below(k) == {z \in S : z <= k}
<1>1. IsFiniteSet(below(y)) /\ below(x) \in SUBSET below(y) /\ y \in below(y) /\ y \notin below(x)
  <2>1. below(y) \in SUBSET S
    OBVIOUS
  <2>2. IsFiniteSet(below(y))
    BY <2>1, FS_Subset
  <2>3. x \in Int /\ y \in Int /\ \A z \in S : z \in Int
    OBVIOUS
  <2>4. below(x) \in SUBSET below(y)
    <3>1. ASSUME NEW z \in S, z <= x PROVE z <= y
      BY <2>3, <3>1
    <3> QED
      BY <3>1
  <2>5. y \in below(y) /\ y \notin below(x)
    BY <2>3
  <2> QED
    BY <2>2, <2>4, <2>5
<1>2. /\ IsFiniteSet(below(x)) /\ Cardinality(below(x)) <= Cardinality(below(y))
      /\ Cardinality(below(x)) # Cardinality(below(y))
  BY <1>1, FS_Subset
<1>3. Cardinality(below(x)) \in Nat /\ Cardinality(below(y)) \in Nat
  BY <1>1, <1>2, FS_CardinalityType
<1> QED
  BY <1>2, <1>3

LEMMA NthRank ==
  ASSUME NEW S \in SUBSET Int, IsFiniteSet(S), NEW k \in 1 .. Cardinality(S)
  PROVE  Nth(S, k) \in S /\ Cardinality({z \in S : z <= Nth(S, k)}) = k
<1> DEFINE rank == [x \in S |-> Cardinality({z \in S : z <= x})]
           n == Cardinality(S)
<1>0. n \in Nat
  BY FS_CardinalityType
<1>1. \A x \in S : rank[x] \in 1 .. n
  <2> SUFFICES ASSUME NEW x \in S PROVE rank[x] \in 1 .. n
    OBVIOUS
  <2> DEFINE T == {z \in S : z <= x}
  <2>1. T \in SUBSET S /\ x \in T
    OBVIOUS
  <2>2. IsFiniteSet(T) /\ Cardinality(T) <= n
    BY <2>1, FS_Subset
  <2>3. Cardinality(T) \in Nat /\ Cardinality(T) # 0
    BY <2>1, <2>2, FS_CardinalityType, FS_EmptySet
  <2> QED
    BY <1>0, <2>2, <2>3
<1>2. \A x, y \in S : rank[x] = rank[y] => x = y
  <2> SUFFICES ASSUME NEW x \in S, NEW y \in S, x # y PROVE rank[x] # rank[y]
    OBVIOUS
  <2>1. CASE x < y
    <3>1. Cardinality({z \in S : z <= x}) < Cardinality({z \in S : z <= y})
      BY <2>1, RankStep
    <3> QED
      BY <1>0, <1>1, <3>1
  <2>2. CASE y < x
    <3>1. Cardinality({z \in S : z <= y}) < Cardinality({z \in S : z <= x})
      BY <2>2, RankStep
    <3> QED
      BY <1>0, <1>1, <3>1
  <2> QED
    BY <2>1, <2>2
<1>3. rank \in Injection(S, 1 .. n)
  BY <1>1, <1>2 DEF Injection, IsInjective
<1>4. IsFiniteSet(1 .. n) /\ Cardinality(1 .. n) = n
  BY <1>0, FS_Interval
<1>5. rank \in Surjection(S, 1 .. n)
  BY <1>3, <1>4, FS_Injection
<1>6. \E x \in S : rank[x] = k
  BY <1>5 DEF Surjection
<1> QED
  BY <1>6 DEF Nth

\* The elements of a sequence without duplicates that are in a set.
LEMMA ChosenOnce ==
  ASSUME NEW s, NEW n \in Nat, DOMAIN s = 1 .. n, IsInjective(s), NEW A
  PROVE  /\ IsFiniteSet({i \in 1 .. n : s[i] \in A})
         /\ IsFiniteSet(ToSet(s) \cap A)
         /\ Cardinality({i \in 1 .. n : s[i] \in A}) = Cardinality(ToSet(s) \cap A)
<1> DEFINE I == {i \in 1 .. n : s[i] \in A}
           f == [i \in I |-> s[i]]
<1>1. IsFiniteSet(I)
  <2>1. IsFiniteSet(1 .. n) /\ I \in SUBSET (1 .. n)
    BY FS_Interval
  <2> QED
    BY <2>1, FS_Subset
<1>2. f \in Surjection(I, ToSet(s) \cap A)
  BY DEF Surjection, ToSet
<1>3. f \in Injection(I, ToSet(s) \cap A)
  BY <1>2 DEF Surjection, Injection, IsInjective
<1> QED
  BY <1>1, <1>2, <1>3, FS_Surjection

\* Counting by rank takes every element once.
LEMMA NthOnto ==
  ASSUME NEW S \in SUBSET Int, IsFiniteSet(S)
  PROVE  /\ \A j, k \in 1 .. Cardinality(S) : Nth(S, j) = Nth(S, k) => j = k
         /\ \A x \in S : \E k \in 1 .. Cardinality(S) : Nth(S, k) = x
<1> DEFINE n == Cardinality(S)
           nth == [k \in 1 .. n |-> Nth(S, k)]
<1>1. n \in Nat /\ IsFiniteSet(1 .. n) /\ Cardinality(1 .. n) = n
  BY FS_CardinalityType, FS_Interval
<1>2. \A k \in 1 .. n : Nth(S, k) \in S /\ Cardinality({z \in S : z <= Nth(S, k)}) = k
  BY NthRank
<1>3. \A j, k \in 1 .. n : Nth(S, j) = Nth(S, k) => j = k
  <2> SUFFICES ASSUME NEW j \in 1 .. n, NEW k \in 1 .. n, Nth(S, j) = Nth(S, k) PROVE j = k
    OBVIOUS
  <2>1. Cardinality({z \in S : z <= Nth(S, j)}) = j /\ Cardinality({z \in S : z <= Nth(S, k)}) = k
    BY <1>2
  <2> QED
    BY <2>1
<1>4. nth \in Injection(1 .. n, S)
  BY <1>2, <1>3 DEF Injection, IsInjective
<1>5. nth \in Surjection(1 .. n, S)
  BY <1>1, <1>4, FS_Injection
<1> QED
  BY <1>3, <1>5 DEF Surjection

LEMMA NewestRows ==
  ASSUME table \in Seq(Nat), IsInjective(table)
  PROVE  /\ DOMAIN Newest = 1 .. Len(table) /\ Len(Newest) = Len(table)
         /\ \A i \in 1 .. Len(table) : Newest[i] \in Nat
         /\ IsInjective(Newest) /\ ToSet(Newest) = ToSet(table)
<1> DEFINE n == Len(table)
           S == ToSet(table)
<1>1. n \in Nat /\ DOMAIN table = 1 .. n /\ \A i \in 1 .. n : table[i] \in Nat
  OBVIOUS
<1>2. S \in SUBSET Nat /\ S \in SUBSET Int
  BY <1>1 DEF ToSet
<1>3. CASE backend = "memory"
  <2>1. Newest = [i \in 1 .. n |-> table[(n - i) + 1]]
    BY <1>3 DEF Newest, Reverse
  <2>2. \A i \in 1 .. n : (n - i) + 1 \in 1 .. n /\ (n - ((n - i) + 1)) + 1 = i
    BY <1>1
  <2>3. DOMAIN Newest = 1 .. n /\ Len(Newest) = n /\ \A i \in 1 .. n : Newest[i] \in Nat
    BY <1>1, <2>1, <2>2
  <2>4. IsInjective(Newest)
    <3> SUFFICES ASSUME NEW i \in 1 .. n, NEW j \in 1 .. n, Newest[i] = Newest[j] PROVE i = j
      BY <2>3 DEF IsInjective
    <3>1. table[(n - i) + 1] = table[(n - j) + 1]
      BY <2>1
    <3>2. (n - i) + 1 = (n - j) + 1
      BY <1>1, <2>2, <3>1 DEF IsInjective
    <3> QED
      BY <1>1, <3>2
  <2>5. ToSet(Newest) = S
    <3>1. \A i \in 1 .. n : Newest[i] \in S
      BY <1>1, <2>1, <2>2 DEF ToSet
    <3>2. ASSUME NEW i \in 1 .. n PROVE table[i] \in ToSet(Newest)
      <4>1. (n - i) + 1 \in 1 .. n /\ Newest[(n - i) + 1] = table[i]
        BY <2>1, <2>2
      <4> QED
        BY <2>3, <4>1 DEF ToSet
    <3> QED
      BY <1>1, <2>3, <3>1, <3>2 DEF ToSet
  <2> QED
    BY <2>3, <2>4, <2>5
<1>4. CASE backend # "memory"
  <2>1. Newest = [i \in 1 .. n |-> Nth(S, n + 1 - i)]
    BY <1>4 DEF Newest
  <2>2. IsFiniteSet(S) /\ Cardinality(S) = n
    <3>1. S \cap S = S /\ {i \in 1 .. n : table[i] \in S} = 1 .. n
      BY <1>1 DEF ToSet
    <3>2. /\ IsFiniteSet(ToSet(table) \cap S)
          /\ Cardinality({i \in 1 .. n : table[i] \in S}) = Cardinality(ToSet(table) \cap S)
      BY <1>1, ChosenOnce
    <3> QED
      BY <1>1, <3>1, <3>2, UpTo
  <2>3. \A i \in 1 .. n : n + 1 - i \in 1 .. n /\ n + 1 - (n + 1 - i) = i
    BY <1>1
  <2>4. \A k \in 1 .. n : Nth(S, k) \in S
    BY <1>2, <2>2, NthRank
  <2>5. DOMAIN Newest = 1 .. n /\ Len(Newest) = n /\ \A i \in 1 .. n : Newest[i] \in S
    BY <1>1, <2>1, <2>3, <2>4
  <2>6. /\ \A j, k \in 1 .. n : Nth(S, j) = Nth(S, k) => j = k
        /\ \A x \in S : \E k \in 1 .. n : Nth(S, k) = x
    BY <1>2, <2>2, NthOnto
  <2>7. IsInjective(Newest)
    <3> SUFFICES ASSUME NEW i \in 1 .. n, NEW j \in 1 .. n, Newest[i] = Newest[j] PROVE i = j
      BY <2>5 DEF IsInjective
    <3> DEFINE a == n + 1 - i
               b == n + 1 - j
    <3>1. a \in 1 .. n /\ b \in 1 .. n
      BY <2>3
    <3>2. Nth(S, a) = Nth(S, b)
      BY <2>1
    <3>3. a = b
      <4> HIDE DEF a, b
      <4> QED
        BY <2>6, <3>1, <3>2
    <3> QED
      BY <1>1, <3>3
  <2>8. ASSUME NEW x \in S PROVE \E i \in 1 .. n : Newest[i] = x
    <3>1. PICK k \in 1 .. n : Nth(S, k) = x
      BY <2>6
    <3>2. n + 1 - k \in 1 .. n /\ Newest[n + 1 - k] = x
      BY <2>1, <2>3, <3>1
    <3> QED
      BY <3>2
  <2>9. ToSet(Newest) = S
    BY <2>5, <2>8 DEF ToSet
  <2> QED
    BY <1>2, <2>5, <2>7, <2>9
<1> QED
  BY <1>3, <1>4

OfClass(S, f) == {r \in S : MatchFilter(r, f)}

LEMMA QueryRows ==
  ASSUME table \in Seq(Nat), IsInjective(table), Len(table) <= MaxResults, Readable, NEW f
  PROVE  /\ Query(0, MaxResults, f) \in Seq(Nat)
         /\ ToSet(Query(0, MaxResults, f)) = OfClass(ToSet(table), f)
         /\ Len(Query(0, MaxResults, f)) = Cardinality(OfClass(ToSet(table), f))
<1> DEFINE n == Len(table)
           S == ToSet(table)
           A == {r \in Nat : MatchFilter(r, f)}
           kept == {i \in 1 .. Len(Newest) : MatchFilter(Newest[i], f)}
           m == Cardinality(kept)
<1>1. /\ n \in Nat /\ n <= MaxResults /\ MaxResults \in Nat
      /\ DOMAIN Newest = 1 .. n /\ Len(Newest) = n /\ \A i \in 1 .. n : Newest[i] \in Nat
      /\ IsInjective(Newest) /\ ToSet(Newest) = S
  BY NewestRows, DetailStorageAssumption
<1>2. OfClass(S, f) = S \cap A /\ kept = {i \in 1 .. n : Newest[i] \in A}
  <2>1. S \in SUBSET Nat
    BY <1>1 DEF ToSet
  <2> QED
    BY <1>1, <2>1 DEF OfClass
<1>3. IsFiniteSet(kept) /\ m = Cardinality(OfClass(S, f))
  <2>1. /\ IsFiniteSet({i \in 1 .. n : Newest[i] \in A})
        /\ Cardinality({i \in 1 .. n : Newest[i] \in A}) = Cardinality(ToSet(Newest) \cap A)
    BY <1>1, ChosenOnce
  <2> QED
    BY <1>1, <1>2, <2>1
<1>4. m \in Nat /\ m <= MaxResults
  <2>1. kept \in SUBSET (1 .. n)
    BY <1>1
  <2>3. IsFiniteSet(1 .. n) /\ Cardinality(1 .. n) = n
    BY <1>1, UpTo
  <2>2. m <= n /\ m \in Nat
    BY <1>3, <2>1, <2>3, FS_Subset, FS_CardinalityType
  <2> QED
    BY <1>1, <2>2
<1>5. Min({MaxResults, m - 0}) = m
  BY <1>1, <1>4 DEF Min
<1>6. Query(0, MaxResults, f) = [k \in 1 .. m |-> Newest[Nth(kept, k)]]
  <2>1. Query(0, MaxResults, f) = [k \in 1 .. Min({MaxResults, m - 0}) |-> Newest[Nth(kept, 0 + k)]]
    BY DEF Query
  <2>2. \A k \in 1 .. m : 0 + k = k
    BY <1>4
  <2> QED
    BY <1>5, <2>1, <2>2
<1> HIDE DEF kept
<1>7. kept \in SUBSET (1 .. n) /\ kept \in SUBSET Int
  BY <1>1 DEF kept
<1>8. /\ \A k \in 1 .. m : Nth(kept, k) \in kept
      /\ \A i \in kept : \E k \in 1 .. m : Nth(kept, k) = i
  BY <1>3, <1>7, NthRank, NthOnto
<1>9. \A r : r \in OfClass(S, f) <=> \E i \in kept : Newest[i] = r
  BY <1>1 DEF kept, OfClass, ToSet
<1> DEFINE rows == [k \in 1 .. m |-> Newest[Nth(kept, k)]]
<1>10. rows \in Seq(Nat) /\ Len(rows) = m /\ DOMAIN rows = 1 .. m
  <2>1. \A k \in 1 .. m : Newest[Nth(kept, k)] \in Nat
    BY <1>1, <1>7, <1>8
  <2> QED
    BY <1>4, <2>1
<1>11. ToSet(rows) = OfClass(S, f)
  BY <1>8, <1>9, <1>10 DEF ToSet
<1> QED
  BY <1>3, <1>6, <1>10, <1>11

\* Sequences without duplicates.
LEMMA DistinctAppend ==
  ASSUME NEW S, NEW s \in Seq(S), NEW x \in S, IsInjective(s), x \notin ToSet(s)
  PROVE  IsInjective(Append(s, x))
<1>1. /\ Len(s) \in Nat /\ DOMAIN s = 1 .. Len(s) /\ DOMAIN Append(s, x) = 1 .. Len(s) + 1
      /\ \A i \in 1 .. Len(s) : Append(s, x)[i] = s[i]
      /\ Append(s, x)[Len(s) + 1] = x
  OBVIOUS
<1>2. \A i \in 1 .. Len(s) : s[i] # x
  BY <1>1 DEF ToSet
<1>3. \A i, j \in 1 .. Len(s) : s[i] = s[j] => i = j
  BY <1>1 DEF IsInjective
<1> SUFFICES ASSUME NEW i \in 1 .. Len(s) + 1, NEW j \in 1 .. Len(s) + 1,
                    Append(s, x)[i] = Append(s, x)[j]
             PROVE  i = j
  BY <1>1 DEF IsInjective
<1>4. \A k \in 1 .. Len(s) + 1 : k = Len(s) + 1 \/ k \in 1 .. Len(s)
  BY <1>1
<1> QED
  BY <1>1, <1>2, <1>3, <1>4

LEMMA DistinctTail ==
  ASSUME NEW S, NEW s \in Seq(S), s # << >>, IsInjective(s)
  PROVE  IsInjective(Tail(s)) /\ Head(s) \notin ToSet(Tail(s))
<1>1. /\ Head(s) = s[1] /\ Len(s) \in Nat \ {0} /\ DOMAIN s = 1 .. Len(s)
      /\ DOMAIN Tail(s) = 1 .. Len(s) - 1
      /\ \A i \in 1 .. Len(s) - 1 : Tail(s)[i] = s[i + 1]
  OBVIOUS
<1>2. \A i, j \in 1 .. Len(s) : s[i] = s[j] => i = j
  BY <1>1 DEF IsInjective
<1>3. \A i \in 1 .. Len(s) - 1 : i + 1 \in 1 .. Len(s) /\ i + 1 # 1
  BY <1>1
<1>4. Head(s) \notin ToSet(Tail(s))
  BY <1>1, <1>2, <1>3 DEF ToSet
<1>5. ASSUME NEW i \in 1 .. Len(s) - 1, NEW j \in 1 .. Len(s) - 1, Tail(s)[i] = Tail(s)[j]
      PROVE  i = j
  <2>1. i + 1 = j + 1
    BY <1>1, <1>2, <1>3, <1>5
  <2> QED
    BY <2>1
<1> QED
  BY <1>1, <1>4, <1>5 DEF IsInjective

LEMMA DistinctConcat ==
  ASSUME NEW S, NEW s \in Seq(S), NEW t \in Seq(S), IsInjective(s), IsInjective(t),
         ToSet(s) \cap ToSet(t) = {}
  PROVE  IsInjective(s \o t)
<1>1. /\ Len(s) \in Nat /\ Len(t) \in Nat /\ DOMAIN s = 1 .. Len(s) /\ DOMAIN t = 1 .. Len(t)
      /\ DOMAIN (s \o t) = 1 .. Len(s) + Len(t)
      /\ \A i \in 1 .. Len(s) + Len(t) : (s \o t)[i] = IF i <= Len(s) THEN s[i] ELSE t[i - Len(s)]
  OBVIOUS
<1>2. \A i \in 1 .. Len(s), j \in 1 .. Len(t) : s[i] # t[j]
  BY <1>1 DEF ToSet
<1>3. /\ \A i, j \in 1 .. Len(s) : s[i] = s[j] => i = j
      /\ \A i, j \in 1 .. Len(t) : t[i] = t[j] => i = j
  BY <1>1 DEF IsInjective
<1> SUFFICES ASSUME NEW i \in 1 .. Len(s) + Len(t), NEW j \in 1 .. Len(s) + Len(t),
                    (s \o t)[i] = (s \o t)[j]
             PROVE  i = j
  BY <1>1 DEF IsInjective
<1>4. \A k \in 1 .. Len(s) + Len(t) :
        \/ k \in 1 .. Len(s) /\ (s \o t)[k] = s[k]
        \/ k - Len(s) \in 1 .. Len(t) /\ (s \o t)[k] = t[k - Len(s)]
  BY <1>1
<1>5. CASE i \in 1 .. Len(s) /\ (s \o t)[i] = s[i]
  BY <1>2, <1>3, <1>4, <1>5
<1>6. CASE i - Len(s) \in 1 .. Len(t) /\ (s \o t)[i] = t[i - Len(s)]
  <2>1. CASE j \in 1 .. Len(s) /\ (s \o t)[j] = s[j]
    BY <1>2, <1>6, <2>1
  <2>2. CASE j - Len(s) \in 1 .. Len(t) /\ (s \o t)[j] = t[j - Len(s)]
    <3>1. i - Len(s) = j - Len(s)
      BY <1>3, <1>6, <2>2
    <3> QED
      BY <1>1, <3>1
  <2> QED
    BY <1>4, <2>1, <2>2
<1> QED
  BY <1>4, <1>5, <1>6

LEMMA DistinctEmpty == IsInjective(<< >>)
BY DEF IsInjective

-----------------------------------------------------------------------------
(* One place only.                                                         *)

Stored == ToSet(table) \cup LostOnes
Disjoint(S, T) == S \cap T = {}

TableInv ==
  /\ IsInjective(table) /\ Disjoint(ToSet(table), LostOnes)
  /\ \A x, y \in lost : x[1] = y[1] => x = y

ApartInv ==
  /\ TableInv /\ IsInjective(queue) /\ IsInjective(batch)
  /\ Disjoint(ToSet(queue), ToSet(batch))
  /\ Disjoint(ToSet(queue), Stored) /\ Disjoint(ToSet(batch), Stored)

LEMMA StoredMore ==
  ASSUME NEW rs \in Seq(Nat), table \in Seq(Nat), TableInv, IsInjective(rs),
         Disjoint(ToSet(rs), Stored), table' = table \o rs, lost' = lost
  PROVE  TableInv'
<1>1. ToSet(table') = ToSet(table) \cup ToSet(rs) /\ LostOnes' = LostOnes
  BY SetOfConcat DEF LostOnes
<1>2. IsInjective(table')
  BY DistinctConcat DEF TableInv, Disjoint, Stored
<1> QED
  BY <1>1, <1>2 DEF TableInv, Disjoint, Stored

LEMMA LostMore ==
  ASSUME NEW R, NEW how, TableInv, Disjoint(R, Stored), table' = table,
         lost' = lost \cup (R \X {how})
  PROVE  TableInv' /\ LostOnes' = LostOnes \cup R
<1>1. \A x \in R \X {how} : x[1] \in R /\ x[2] = how /\ x = <<x[1], how>>
  OBVIOUS
<1>2. \A x \in lost : x[1] \in LostOnes /\ x[1] \notin R
  BY DEF LostOnes, Disjoint, Stored
<1>3. ASSUME NEW x \in lost', NEW y \in lost', x[1] = y[1] PROVE x = y
  <2>1. CASE x \in lost /\ y \in lost
    BY <1>3, <2>1 DEF TableInv
  <2>2. CASE x \in R \X {how} /\ y \in R \X {how}
    BY <1>1, <1>3, <2>2
  <2> QED
    BY <1>1, <1>2, <1>3, <2>1, <2>2
<1>4. LostOnes' = LostOnes \cup R
  <2>1. ASSUME NEW r \in R PROVE r \in LostOnes'
    <3>1. <<r, how>> \in lost' /\ <<r, how>>[1] = r
      OBVIOUS
    <3> QED
      BY <3>1 DEF LostOnes
  <2>2. \A r \in LostOnes : r \in LostOnes'
    BY DEF LostOnes
  <2>3. \A r \in LostOnes' : r \in LostOnes \cup R
    BY <1>1 DEF LostOnes
  <2> QED
    BY <2>1, <2>2, <2>3
<1> QED
  BY <1>3, <1>4 DEF TableInv, Disjoint, Stored

LEMMA FlushedApart ==
  ASSUME NEW ok \in BOOLEAN, Flush(ok), table \in Seq(Nat), batch \in Seq(Nat),
         TableInv, IsInjective(batch), Disjoint(ToSet(batch), Stored)
  PROVE  TableInv' /\ Stored' = Stored \cup ToSet(batch)
<1>1. CASE ok
  <2>1. table' = table \o batch /\ lost' = lost
    BY <1>1 DEF Flush
  <2>2. ToSet(table') = ToSet(table) \cup ToSet(batch)
    BY <2>1, SetOfConcat
  <2> QED
    BY <2>1, <2>2, StoredMore DEF Stored, LostOnes
<1>2. CASE ~ok
  <2>1. table' = table /\ lost' = lost \cup (ToSet(batch) \X {"failed"})
    BY <1>2 DEF Flush
  <2> QED
    BY <2>1, LostMore DEF Stored
<1> QED
  BY <1>1, <1>2

\* What the loop and Close do.
LEMMA BackgroundApart ==
  ASSUME LoopInv, ApartInv, LoopStep \/ CloseStep
  PROVE  ApartInv'
<1>1. CASE Receive
  <2> DEFINE h == Head(queue)
             rs == Append(batch, h)
  <2>1. /\ h \in Nat /\ queue' = Tail(queue) /\ queue' \in Seq(Nat)
        /\ ToSet(queue) = {h} \cup ToSet(queue')
        /\ IsInjective(queue') /\ h \notin ToSet(queue')
    BY <1>1, SetOfTail, DistinctTail DEF Receive, LoopInv, ApartInv
  <2>2. rs \in Seq(Nat) /\ ToSet(rs) = ToSet(batch) \cup {h}
    BY <2>1, SetOfAppend DEF LoopInv
  <2>3. IsInjective(rs) /\ Disjoint(ToSet(rs), Stored) /\ Disjoint(ToSet(queue'), ToSet(rs))
    <3>1. h \notin ToSet(batch) /\ h \notin Stored
      BY <2>1 DEF ApartInv, Disjoint
    <3>2. IsInjective(rs)
      BY <2>1, <3>1, DistinctAppend DEF LoopInv, ApartInv
    <3> QED
      BY <2>1, <2>2, <3>1, <3>2 DEF ApartInv, Disjoint
  <2>4. batch' = rs /\ UNCHANGED <<table, lost>>
    BY <1>1 DEF Receive, WriteBatch
  <2>5. Stored' = Stored /\ TableInv'
    BY <2>4 DEF Stored, LostOnes, ApartInv, TableInv, Disjoint
  <2> QED
    BY <2>1, <2>2, <2>3, <2>4, <2>5 DEF ApartInv, Disjoint
<1>2. ASSUME NEW ok \in BOOLEAN, Flush(ok) PROVE ApartInv'
  <2>1. TableInv' /\ Stored' = Stored \cup ToSet(batch)
    BY <1>2, FlushedApart DEF LoopInv, ApartInv
  <2>2. batch' = << >> /\ queue' = queue
    BY <1>2 DEF Flush
  <2> QED
    BY <2>1, <2>2, DistinctEmpty, SetOfEmpty DEF ApartInv, Disjoint
<1>3. CASE UNCHANGED <<queue, batch, table, lost>>
  BY <1>3 DEF ApartInv, TableInv, Stored, LostOnes, Disjoint
<1>4. CASE CloseDatabase
  <2>1. /\ batch = << >> /\ batch' = << >> /\ queue' = << >> /\ table' = table
        /\ lost' = lost \cup (ToSet(queue) \X {"abandoned"})
    BY <1>4 DEF CloseDatabase, LoopInv
  <2>2. TableInv'
    BY <2>1, LostMore DEF ApartInv
  <2> QED
    BY <2>1, <2>2, DistinctEmpty, SetOfEmpty DEF ApartInv, Disjoint
<1> QED
  BY <1>1, <1>2, <1>3, <1>4
     DEF LoopStep, CloseStep, Tick, Shutdown, WriteBatch, CancelLoop, CloseChannel

\* A result a worker is about to write is nowhere yet.
LEMMA NewResult ==
  ASSUME IInv, NEW w \in Workers, pc[w] \in {"check", "send", "commit"}
  PROVE  number[w] \in Nat /\ number[w] \notin ToSet(queue) \cup ToSet(batch) \cup Stored
BY DEF IInv, NumberInv, PlaceInv, Written, Stored

LEMMA WriteMemoryApart ==
  ASSUME LoopInv, ApartInv, NEW r \in Nat, r \notin ToSet(queue) \cup ToSet(batch) \cup Stored,
         table' = Append(table, r), UNCHANGED <<queue, batch, lost>>
  PROVE  ApartInv'
<1>1. ToSet(table') = ToSet(table) \cup {r} /\ LostOnes' = LostOnes /\ IsInjective(table')
  BY SetOfAppend, DistinctAppend DEF LoopInv, ApartInv, TableInv, Stored, LostOnes
<1>2. TableInv'
  BY <1>1 DEF ApartInv, TableInv, Stored, Disjoint
<1> QED
  BY <1>1, <1>2 DEF ApartInv, Stored, Disjoint

LEMMA LostOneApart ==
  ASSUME ApartInv, NEW r, NEW how, r \notin ToSet(queue) \cup ToSet(batch) \cup Stored,
         lost' = lost \cup {<<r, how>>}, UNCHANGED <<queue, batch, table>>
  PROVE  ApartInv'
<1>1. lost' = lost \cup ({r} \X {how}) /\ Disjoint({r}, Stored)
  BY DEF Disjoint
<1>2. TableInv' /\ LostOnes' = LostOnes \cup {r}
  BY <1>1, LostMore DEF ApartInv
<1> QED
  BY <1>2 DEF ApartInv, Stored, Disjoint

LEMMA SendApart ==
  ASSUME LoopInv, ApartInv, NEW r \in Nat, r \notin ToSet(queue) \cup ToSet(batch) \cup Stored,
         Send(r), life = "open", batch' = batch
  PROVE  ApartInv'
<1>1. CASE queue' = Append(queue, r) /\ UNCHANGED <<table, lost>>
  <2>1. ToSet(queue') = ToSet(queue) \cup {r} /\ IsInjective(queue')
    BY <1>1, SetOfAppend, DistinctAppend DEF LoopInv, ApartInv
  <2>2. TableInv' /\ Stored' = Stored
    BY <1>1 DEF ApartInv, TableInv, Stored, LostOnes, Disjoint
  <2> QED
    BY <2>1, <2>2 DEF ApartInv, Disjoint
<1>2. CASE lost' = lost \cup {<<r, "full">>} /\ UNCHANGED <<queue, table>>
  BY <1>2, LostOneApart
<1> QED
  BY <1>1, <1>2 DEF Send

LEMMA CommitApart ==
  ASSUME LoopInv, ApartInv, NEW r \in Nat, r \notin ToSet(queue) \cup ToSet(batch) \cup Stored,
         NEW ok \in BOOLEAN, CommitOne(r, ok), batch' = batch
  PROVE  ApartInv'
<1>1. CASE ok
  BY <1>1, WriteMemoryApart DEF CommitOne
<1>2. CASE ~ok
  BY <1>2, LostOneApart DEF CommitOne
<1> QED
  BY <1>1, <1>2

-----------------------------------------------------------------------------
(* What the counters of the memory and the Badger storage count.           *)

FailedOnes == {x[1] : x \in {y \in lost : y[2] = "failed"}}
Committing == {number[w] : w \in {v \in Workers : pc[v] = "commit"}}
CountedOnes == ToSet(table) \cup FailedOnes \cup Uncommitted

CountsInv ==
  \A f \in Filters :
    counts[f] = IF backend = "sqlite" THEN 0 ELSE Cardinality(OfClass(CountedOnes, f))

LEMMA UncommittedOnes ==
  Uncommitted = Committing \cup IF flush = "none" THEN {} ELSE ToSet(batch)
BY DEF Uncommitted, Committing

\* What workers are committing is not yet among the written results.
LEMMA CommittingNew ==
  ASSUME IInv
  PROVE  Committing \subseteq 1 .. Len(class) /\ Disjoint(Committing, Written)
<1> SUFFICES ASSUME NEW r \in Committing PROVE r \in 1 .. Len(class) /\ r \notin Written
  BY DEF Disjoint
<1>1. PICK w \in Workers : pc[w] = "commit" /\ r = number[w]
  BY DEF Committing
<1> QED
  BY <1>1 DEF IInv, NumberInv, Written

LEMMA FiniteWritten ==
  ASSUME IInv
  PROVE  /\ IsFiniteSet(CountedOnes) /\ CountedOnes \subseteq 1 .. Len(class)
         /\ \A r \in Written : r \in 1 .. Len(class)
<1>1. ToSet(table) \cup FailedOnes \cup ToSet(batch) \subseteq Written
  BY DEF IInv, PlaceInv, FailedOnes, LostOnes
<1>2. \A r \in Written : r \in 1 .. Len(class)
  BY DEF Written
<1>3. CountedOnes \in SUBSET (1 .. Len(class))
  BY <1>1, <1>2, CommittingNew, UncommittedOnes DEF CountedOnes
<1>4. IsFiniteSet(1 .. Len(class))
  <2>1. Len(class) \in Nat
    BY DEF IInv, NumberInv
  <2> QED
    BY <2>1, UpTo
<1>5. IsFiniteSet(CountedOnes)
  BY <1>3, <1>4, FS_Subset
<1> QED
  BY <1>2, <1>3, <1>5

\* Counting new results that are now stored or about to be.
LEMMA CountedMore ==
  ASSUME CountsInv, backend # "sqlite", NEW R, IsFiniteSet(R), Disjoint(R, CountedOnes),
         IsFiniteSet(CountedOnes), counts' = Counted(R), CountedOnes' = CountedOnes \cup R,
         UNCHANGED <<backend, class>>
  PROVE  CountsInv'
<1> SUFFICES ASSUME NEW f \in Filters
             PROVE  counts'[f] = Cardinality(OfClass(CountedOnes, f)')
  BY DEF CountsInv
<1>1. OfClass(CountedOnes, f)' = OfClass(CountedOnes, f) \cup OfClass(R, f)
  BY DEF OfClass, MatchFilter
<1>2. IsFiniteSet(OfClass(CountedOnes, f)) /\ IsFiniteSet(OfClass(R, f))
  <2>1. OfClass(CountedOnes, f) \in SUBSET CountedOnes /\ OfClass(R, f) \in SUBSET R
    BY DEF OfClass
  <2> QED
    BY <2>1, FS_Subset
<1>3. OfClass(CountedOnes, f) \cap OfClass(R, f) = {}
  BY DEF OfClass, Disjoint
<1>4. Cardinality(OfClass(CountedOnes, f) \cup OfClass(R, f))
        = Cardinality(OfClass(CountedOnes, f)) + Cardinality(OfClass(R, f))
  <2>1. Cardinality(OfClass(CountedOnes, f) \cup OfClass(R, f))
          = Cardinality(OfClass(CountedOnes, f)) + Cardinality(OfClass(R, f))
            - Cardinality(OfClass(CountedOnes, f) \cap OfClass(R, f))
    BY <1>2, FS_Union
  <2>2. Cardinality(OfClass(CountedOnes, f) \cap OfClass(R, f)) = 0
    BY <1>3, FS_EmptySet
  <2>3. Cardinality(OfClass(CountedOnes, f)) \in Nat /\ Cardinality(OfClass(R, f)) \in Nat
    BY <1>2, FS_CardinalityType
  <2> QED
    BY <2>1, <2>2, <2>3
<1>5. counts'[f] = counts[f] + Cardinality(OfClass(R, f))
  BY DEF Counted, OfClass
<1> QED
  BY <1>1, <1>4, <1>5 DEF CountsInv

LEMMA SameCounts ==
  ASSUME CountsInv, counts' = counts, backend' = backend, CountedOnes' = CountedOnes,
         \A r \in CountedOnes : class'[r] = class[r]
  PROVE  CountsInv'
<1>1. ASSUME NEW f \in Filters PROVE OfClass(CountedOnes, f)' = OfClass(CountedOnes, f)
  BY DEF OfClass, MatchFilter
<1> QED
  BY <1>1 DEF CountsInv

LEMMA FiniteSequence ==
  ASSUME NEW S, NEW s \in Seq(S)
  PROVE  IsFiniteSet(ToSet(s))
<1>1. Len(s) \in Nat /\ DOMAIN s = 1 .. Len(s)
  OBVIOUS
<1>2. [i \in 1 .. Len(s) |-> s[i]] \in Surjection(1 .. Len(s), ToSet(s))
  BY <1>1 DEF Surjection, ToSet
<1> QED
  BY <1>1, <1>2, UpTo, FS_Surjection

\* A batch is counted when it begins to be written.
LEMMA BatchCounts ==
  ASSUME IInv, ApartInv, CountsInv, NEW rs \in Seq(Nat), NEW kind, kind # "none", WriteBatch(rs, kind),
         flush = "none", ToSet(rs) \subseteq ToSet(queue) \cup ToSet(batch), backend # "memory",
         UNCHANGED <<backend, class, table, lost, pc, number>>
  PROVE  CountsInv'
<1>1. CASE backend = "sqlite"
  BY <1>1 DEF WriteBatch, CountsInv
<1>2. CASE backend = "badger"
  <2>1. counts' = Counted(ToSet(rs)) /\ batch' = rs /\ flush' # "none"
    BY <1>2 DEF WriteBatch
  <2>2. Committing' = Committing /\ FailedOnes' = FailedOnes
    BY DEF Committing, FailedOnes
  <2>3. Uncommitted = Committing /\ Uncommitted' = Committing' \cup ToSet(rs)
    BY <2>1, UncommittedOnes DEF Uncommitted, Committing
  <2>4. CountedOnes' = CountedOnes \cup ToSet(rs)
    BY <2>2, <2>3 DEF CountedOnes
  <2>5. Disjoint(ToSet(rs), CountedOnes)
    <3>1. Disjoint(ToSet(rs), Stored)
      BY DEF ApartInv, Disjoint
    <3>2. Disjoint(ToSet(rs), Committing)
      BY CommittingNew DEF IInv, PlaceInv, Disjoint
    <3> QED
      BY <2>3, <3>1, <3>2 DEF Disjoint, Stored, CountedOnes, FailedOnes, LostOnes
  <2>6. IsFiniteSet(ToSet(rs)) /\ IsFiniteSet(CountedOnes)
    BY FiniteSequence, FiniteWritten
  <2> QED
    BY <1>2, <2>1, <2>4, <2>5, <2>6, CountedMore
<1> QED
  BY <1>1, <1>2 DEF IInv, LoopInv, Backends

\* Then it is stored, or lost to a failure, and counts as before.
LEMMA FlushedCounts ==
  ASSUME LoopInv, CountsInv, NEW ok \in BOOLEAN, Flush(ok), UNCHANGED <<pc, number>>
  PROVE  CountsInv'
<1>1. flush # "none" /\ flush' = "none" /\ UNCHANGED <<backend, class, counts>>
  BY DEF Flush
<1>2. Uncommitted = Committing \cup ToSet(batch) /\ Uncommitted' = Committing
  BY <1>1 DEF Uncommitted, Committing
<1>3. (ToSet(table) \cup FailedOnes)' = ToSet(table) \cup FailedOnes \cup ToSet(batch)
  <2>1. CASE ok
    <3>1. table' = table \o batch /\ lost' = lost
      BY <2>1 DEF Flush
    <3>2. ToSet(table') = ToSet(table) \cup ToSet(batch) /\ FailedOnes' = FailedOnes
      BY <3>1, SetOfConcat DEF FailedOnes, LoopInv
    <3> QED
      BY <3>2
  <2>2. CASE ~ok
    <3>1. table' = table /\ lost' = lost \cup (ToSet(batch) \X {"failed"})
      BY <2>2 DEF Flush
    <3>2. \A x \in ToSet(batch) \X {"failed"} : x[1] \in ToSet(batch) /\ x[2] = "failed"
      OBVIOUS
    <3>3. ASSUME NEW r \in ToSet(batch) PROVE r \in FailedOnes'
      <4>1. <<r, "failed">> \in lost' /\ <<r, "failed">>[1] = r /\ <<r, "failed">>[2] = "failed"
        BY <3>1
      <4> QED
        BY <4>1 DEF FailedOnes
    <3>4. FailedOnes' = FailedOnes \cup ToSet(batch)
      BY <3>1, <3>2, <3>3 DEF FailedOnes
    <3> QED
      BY <3>1, <3>4
  <2> QED
    BY <2>1, <2>2
<1>4. CountedOnes' = CountedOnes
  BY <1>2, <1>3 DEF CountedOnes
<1> QED
  BY <1>1, <1>4, SameCounts

\* A result that is lost to anything but a failed write is not counted.
LEMMA LostUncounted ==
  ASSUME NEW R, NEW how, how # "failed", table' = table, lost' = lost \cup (R \X {how}),
         Uncommitted' = Uncommitted
  PROVE  CountedOnes' = CountedOnes
<1>1. \A x \in R \X {how} : x[2] # "failed"
  OBVIOUS
<1> QED
  BY <1>1 DEF CountedOnes, FailedOnes

LEMMA BackgroundCounts ==
  ASSUME IInv, ApartInv, CountsInv, LoopStep \/ CloseStep, UNCHANGED <<pc, number>>
  PROVE  CountsInv'
<1>1. CASE Receive
  <2> DEFINE h == Head(queue)
             rs == Append(batch, h)
  <2>1. h \in Nat /\ h \in ToSet(queue) /\ backend # "memory" /\ flush = "none"
    BY <1>1, SetOfTail DEF Receive, IInv, LoopInv
  <2>2. rs \in Seq(Nat) /\ ToSet(rs) = ToSet(batch) \cup {h}
    BY <2>1, SetOfAppend DEF IInv, LoopInv
  <2>3. UNCHANGED <<backend, class, table, lost>>
    BY <1>1 DEF Receive
  <2>4. CASE UNCHANGED <<counts, flush>>
    <3>1. Uncommitted' = Uncommitted
      BY <2>1, <2>4 DEF Uncommitted
    <3>2. CountedOnes' = CountedOnes
      BY <2>3, <3>1 DEF CountedOnes, FailedOnes
    <3> QED
      BY <2>3, <2>4, <3>2, SameCounts
  <2>5. CASE WriteBatch(rs, "batch")
    BY <2>1, <2>2, <2>3, <2>5, BatchCounts
  <2> QED
    BY <1>1, <2>4, <2>5 DEF Receive
<1>2. ASSUME NEW kind \in {"batch", "last"}, WriteBatch(batch, kind), Tick \/ Shutdown PROVE CountsInv'
  <2>1. backend # "memory" /\ flush = "none" /\ UNCHANGED <<backend, class, table, lost>>
    BY <1>2 DEF Tick, Shutdown, IInv, LoopInv
  <2>2. batch \in Seq(Nat)
    BY DEF IInv, LoopInv
  <2> QED
    BY <1>2, <2>1, <2>2, BatchCounts
<1>3. ASSUME NEW ok \in BOOLEAN, Flush(ok) PROVE CountsInv'
  BY <1>3, FlushedCounts DEF IInv
<1>4. CASE UNCHANGED <<batch, table, counts, lost, backend, class, flush>>
  <2>1. CountedOnes' = CountedOnes
    BY <1>4 DEF CountedOnes, FailedOnes, Uncommitted
  <2> QED
    BY <1>4, <2>1, SameCounts
<1>5. CASE CloseDatabase
  <2>1. Uncommitted' = Uncommitted
    BY <1>5 DEF CloseDatabase, Uncommitted
  <2>2. CountedOnes' = CountedOnes
    BY <1>5, <2>1, LostUncounted DEF CloseDatabase
  <2> QED
    BY <1>5, <2>2, SameCounts DEF CloseDatabase
<1> QED
  BY <1>1, <1>2, <1>3, <1>4, <1>5
     DEF LoopStep, CloseStep, Tick, Shutdown, CancelLoop, CloseChannel

\* The steps of a worker other than CountOne and CommitOne.
LEMMA CommittingSame ==
  ASSUME NumberInv, NEW w \in Workers, NEW to, pc' = [pc EXCEPT ![w] = to], to # "commit",
         pc[w] # "commit", \A v \in Workers \ {w} : number'[v] = number[v]
  PROVE  Committing' = Committing
BY DEF Committing, NumberInv

LEMMA StoredCounts ==
  ASSUME IInv, CountsInv, NEW r \in Nat, r \in 1 .. Len(class), r \notin Written,
         r \notin Uncommitted, backend # "sqlite", counts' = Counted({r}), UNCHANGED <<backend, class>>,
         CountedOnes' = CountedOnes \cup {r}
  PROVE  CountsInv'
<1>1. Disjoint({r}, CountedOnes)
  BY DEF Disjoint, CountedOnes, FailedOnes, LostOnes, IInv, PlaceInv
<1>2. IsFiniteSet({r}) /\ IsFiniteSet(CountedOnes)
  BY FiniteWritten, FS_Singleton
<1> QED
  BY <1>1, <1>2, CountedMore

LEMMA MemoryCounts ==
  ASSUME IInv, CountsInv, NEW w \in Workers, pc[w] = "check", WriteMemory(number[w]), Finish(w),
         life = "open", backend = "memory", UNCHANGED <<backend, class, batch, flush>>
  PROVE  CountsInv'
<1>1. /\ number[w] \in 1 .. Len(class) /\ number[w] \notin Written /\ number[w] \in Nat
  BY DEF IInv, NumberInv, Written
<1>2. Uncommitted = {} /\ Uncommitted' = {}
  <2>1. flush = "none" /\ \A v \in Workers : pc[v] # "commit"
    BY DEF IInv, LoopInv
  <2>2. \A v \in Workers : pc'[v] # "commit"
    BY <2>1 DEF Finish, IInv, NumberInv
  <2> QED
    BY <2>1, <2>2 DEF Uncommitted
<1>3. table' = Append(table, number[w]) /\ counts' = Counted({number[w]}) /\ lost' = lost
  BY DEF WriteMemory
<1>4. ToSet(table') = ToSet(table) \cup {number[w]}
  BY <1>1, <1>3, SetOfAppend DEF IInv, LoopInv
<1>5. CountedOnes' = CountedOnes \cup {number[w]}
  BY <1>2, <1>3, <1>4 DEF CountedOnes, FailedOnes
<1> QED
  BY <1>1, <1>2, <1>3, <1>5, StoredCounts

LEMMA SendCounts ==
  ASSUME IInv, CountsInv, NEW w \in Workers, pc[w] = "send", Send(number[w]), Finish(w), life = "open",
         UNCHANGED <<backend, class, batch, flush>>
  PROVE  CountsInv'
<1>1. Committing' = Committing
  BY CommittingSame DEF Finish, IInv, NumberInv
<1>2. Uncommitted' = Uncommitted
  BY <1>1 DEF Uncommitted, Committing
<1>3. CASE UNCHANGED <<table, counts, lost>>
  BY <1>2, <1>3, SameCounts DEF CountedOnes, FailedOnes
<1>4. CASE lost' = lost \cup {<<number[w], "full">>} /\ UNCHANGED <<table, counts>>
  <2>1. lost' = lost \cup ({number[w]} \X {"full"})
    BY <1>4
  <2>2. CountedOnes' = CountedOnes
    BY <1>2, <1>4, <2>1, LostUncounted
  <2> QED
    BY <1>4, <2>2, SameCounts
<1> QED
  BY <1>3, <1>4 DEF Send

\* Badger counts one result, in a transaction that it has yet to commit.
LEMMA CountOneCounts ==
  ASSUME IInv, CountsInv, NEW w \in Workers, pc[w] = "send", CountOne(number[w]), Goto(w, "commit"),
         UNCHANGED <<backend, class, batch, flush, number>>
  PROVE  CountsInv'
<1>1. /\ number[w] \in 1 .. Len(class) /\ number[w] \notin Written /\ number[w] \in Nat
  BY DEF IInv, NumberInv, Written
<1>2. Committing' = Committing \cup {number[w]} /\ number[w] \notin Committing
  BY DEF Committing, IInv, NumberInv
<1>3. Uncommitted' = Uncommitted \cup {number[w]}
  BY <1>2 DEF Uncommitted, Committing
<1>4. number[w] \notin Uncommitted
  BY <1>1, <1>2 DEF Uncommitted, Committing, IInv, PlaceInv
<1>5. counts' = Counted({number[w]}) /\ UNCHANGED <<table, lost>> /\ backend # "sqlite"
  BY DEF CountOne
<1>6. CountedOnes' = CountedOnes \cup {number[w]}
  BY <1>3, <1>5 DEF CountedOnes, FailedOnes
<1> QED
  BY <1>1, <1>4, <1>5, <1>6, StoredCounts

\* The commit stores it or loses it, and counts no more.
LEMMA CommitCounts ==
  ASSUME IInv, CountsInv, NEW w \in Workers, pc[w] = "commit", NEW ok \in BOOLEAN,
         CommitOne(number[w], ok), Finish(w), UNCHANGED <<backend, class, batch, flush>>
  PROVE  CountsInv'
<1>1. number[w] \in Nat
  BY DEF IInv, NumberInv
<1>2. Committing = Committing' \cup {number[w]}
  <2>1. /\ \A v \in Workers \ {w} : pc'[v] = pc[v] /\ number'[v] = number[v]
        /\ pc'[w] # "commit"
    BY DEF Finish, IInv, NumberInv
  <2> QED
    BY <2>1 DEF Committing
<1>3. Uncommitted = Uncommitted' \cup {number[w]}
  BY <1>2 DEF Uncommitted, Committing
<1>4. (ToSet(table) \cup FailedOnes)' = ToSet(table) \cup FailedOnes \cup {number[w]}
  <2>1. CASE ok
    <3>1. table' = Append(table, number[w]) /\ lost' = lost
      BY <2>1 DEF CommitOne
    <3>2. ToSet(table') = ToSet(table) \cup {number[w]} /\ FailedOnes' = FailedOnes
      BY <1>1, <3>1, SetOfAppend DEF FailedOnes, IInv, LoopInv
    <3> QED
      BY <3>2
  <2>2. CASE ~ok
    <3>1. table' = table /\ lost' = lost \cup {<<number[w], "failed">>}
      BY <2>2 DEF CommitOne
    <3>2. <<number[w], "failed">>[1] = number[w] /\ <<number[w], "failed">>[2] = "failed"
      OBVIOUS
    <3>3. FailedOnes' = FailedOnes \cup {number[w]}
      BY <3>1, <3>2 DEF FailedOnes
    <3> QED
      BY <3>1, <3>3
  <2> QED
    BY <2>1, <2>2
<1>5. CountedOnes' = CountedOnes
  BY <1>3, <1>4 DEF CountedOnes
<1>6. counts' = counts
  BY DEF CommitOne
<1> QED
  BY <1>5, <1>6, SameCounts

-----------------------------------------------------------------------------

HeldInv == ApartInv /\ CountsInv

LEMMA InitHeld == Init => HeldInv
<1> SUFFICES ASSUME Init PROVE HeldInv
  OBVIOUS
<1>1. LostOnes = {} /\ FailedOnes = {} /\ ToSet(table) = {} /\ Uncommitted = {}
  BY SetOfEmpty DEF Init, StorageInit, LostOnes, FailedOnes, Uncommitted
<1>2. ApartInv
  BY <1>1, SetOfEmpty, DistinctEmpty DEF Init, StorageInit, ApartInv, TableInv, Stored, Disjoint
<1>3. CountsInv
  <2>1. \A f \in Filters : OfClass(CountedOnes, f) = {}
    BY <1>1 DEF CountedOnes, OfClass
  <2> QED
    BY <2>1, FS_EmptySet DEF Init, StorageInit, CountsInv
<1> QED
  BY <1>2, <1>3 DEF HeldInv

LEMMA HeldStep == IInv /\ ClassInv /\ HeldInv /\ [Next]_vars => HeldInv'
<1> SUFFICES ASSUME IInv, ClassInv, HeldInv, [Next]_vars PROVE HeldInv'
  OBVIOUS
<1>0. ApartInv /\ CountsInv
  BY DEF HeldInv
<1>1. ASSUME UNCHANGED <<queue, batch, table, counts, lost, backend, class, flush>>, Committing' = Committing
      PROVE  HeldInv'
  <2>1. CountedOnes' = CountedOnes
    BY <1>1 DEF CountedOnes, FailedOnes, Uncommitted, Committing
  <2>2. CountsInv'
    BY <1>0, <1>1, <2>1, SameCounts
  <2>3. ApartInv'
    BY <1>0, <1>1 DEF ApartInv, TableInv, Stored, LostOnes, Disjoint
  <2> QED
    BY <2>2, <2>3 DEF HeldInv
<1>2. ASSUME NEW w \in Workers, Identify(w) PROVE HeldInv'
  <2>1. /\ class' = Append(class, cur[w])
        /\ UNCHANGED <<queue, batch, table, counts, lost, backend, flush>>
    BY <1>2 DEF Identify
  <2>2. \A r \in 1 .. Len(class) : class'[r] = class[r]
    BY <1>2, <2>1 DEF IInv, NumberInv, ClassInv, Identify
  <2>3. Committing' = Committing
    BY <1>2, CommittingSame DEF Identify, IInv, NumberInv
  <2>4. CountedOnes' = CountedOnes
    BY <2>1, <2>3 DEF CountedOnes, FailedOnes, Uncommitted, Committing
  <2>5. CountsInv'
    BY <1>0, <2>1, <2>2, <2>4, FiniteWritten, SameCounts
  <2>6. ApartInv'
    BY <1>0, <2>1 DEF ApartInv, TableInv, Stored, LostOnes, Disjoint
  <2> QED
    BY <2>5, <2>6 DEF HeldInv
<1>3. ASSUME NEW w \in Workers, CheckOpen(w) PROVE HeldInv'
  <2>1. life = "open" /\ pc[w] = "check" /\ UNCHANGED <<backend, class, flush>>
    BY <1>3, StorageIsOpen DEF CheckOpen, IInv
  <2>2. number[w] \in Nat /\ number[w] \notin ToSet(queue) \cup ToSet(batch) \cup Stored
    BY <2>1, NewResult
  <2>3. CASE backend = "memory"
    <3>1. WriteMemory(number[w]) /\ Finish(w) /\ batch' = batch
      BY <1>3, <2>1, <2>3 DEF CheckOpen
    <3>2. table' = Append(table, number[w]) /\ UNCHANGED <<lost, queue>>
      BY <2>1, <3>1 DEF WriteMemory
    <3>3. ApartInv'
      BY <1>0, <2>2, <3>1, <3>2, WriteMemoryApart DEF IInv
    <3>4. CountsInv'
      BY <1>0, <2>1, <2>3, <3>1, MemoryCounts
    <3> QED
      BY <3>3, <3>4 DEF HeldInv
  <2>4. CASE backend # "memory"
    <3>1. /\ pc' = [pc EXCEPT ![w] = "send"]
          /\ UNCHANGED <<number, queue, batch, table, counts, lost>>
      BY <1>3, <2>1, <2>4 DEF CheckOpen
    <3>2. Committing' = Committing
      BY <2>1, <3>1, CommittingSame DEF IInv
    <3> QED
      BY <1>1, <2>1, <3>1, <3>2
  <2> QED
    BY <2>3, <2>4
<1>4. ASSUME NEW w \in Workers, SendResult(w) PROVE HeldInv'
  <2>1. life = "open" /\ pc[w] = "send" /\ UNCHANGED <<backend, class, batch, flush>>
    BY <1>4, StorageIsOpen DEF SendResult, IInv
  <2>2. number[w] \in Nat /\ number[w] \notin ToSet(queue) \cup ToSet(batch) \cup Stored
    BY <2>1, NewResult
  <2>3. CASE Send(number[w]) /\ Finish(w)
    <3>1. ApartInv'
      BY <1>0, <2>1, <2>2, <2>3, SendApart DEF IInv
    <3>2. CountsInv'
      BY <1>0, <2>1, <2>3, SendCounts
    <3> QED
      BY <3>1, <3>2 DEF HeldInv
  <2>4. CASE CountOne(number[w]) /\ Goto(w, "commit") /\ UNCHANGED <<cur, status, loaded, number>>
    <3>1. CountsInv'
      BY <1>0, <2>1, <2>4, CountOneCounts
    <3>2. ApartInv'
      BY <1>0, <2>1, <2>4 DEF CountOne, ApartInv, TableInv, Stored, LostOnes, Disjoint
    <3> QED
      BY <3>1, <3>2 DEF HeldInv
  <2> QED
    BY <1>4, <2>3, <2>4 DEF SendResult
<1>5. ASSUME NEW w \in Workers, CommitResult(w) PROVE HeldInv'
  <2>1. PICK ok \in BOOLEAN : CommitOne(number[w], ok)
    BY <1>5 DEF CommitResult
  <2>2. pc[w] = "commit" /\ Finish(w) /\ UNCHANGED <<backend, class, batch, flush>>
    BY <1>5 DEF CommitResult
  <2>3. number[w] \in Nat /\ number[w] \notin ToSet(queue) \cup ToSet(batch) \cup Stored
    BY <2>2, NewResult
  <2>4. ApartInv'
    BY <1>0, <2>1, <2>2, <2>3, CommitApart DEF IInv
  <2>5. CountsInv'
    BY <1>0, <2>1, <2>2, CommitCounts
  <2> QED
    BY <2>4, <2>5 DEF HeldInv
<1>6. CASE Background
  BY <1>0, <1>6, BackgroundApart, BackgroundCounts DEF Background, HeldInv, IInv
<1>7. ASSUME NEW w \in Workers, Collect(w) PROVE HeldInv'
  <2>1. ASSUME NEW c \in Classes, NEW coded \in BOOLEAN, Begin(w, c, coded) PROVE HeldInv'
    <3>1. PICK to \in {"loadError", "loadCode", "identify"} : pc' = [pc EXCEPT ![w] = to]
      BY <2>1 DEF Begin
    <3>2. Committing' = Committing
      BY <2>1, <3>1, CommittingSame DEF Begin, IInv
    <3> QED
      BY <1>1, <2>1, <3>2 DEF Begin
  <2>2. CASE LoadError(w) \/ LoadCode(w) \/ StoreError(w) \/ StoreCode(w)
    <3>1. PICK to \in {"storeError", "storeCode", "loadCode", "identify"} : pc' = [pc EXCEPT ![w] = to]
      BY <2>2 DEF LoadError, LoadCode, Load, StoreError, StoreCode, AfterErrors
    <3>2. /\ pc[w] # "commit" /\ number' = number
          /\ UNCHANGED <<queue, batch, table, counts, lost, backend, class, flush>>
      BY <2>2 DEF LoadError, LoadCode, Load, StoreError, StoreCode
    <3>3. Committing' = Committing
      BY <3>1, <3>2, CommittingSame DEF IInv
    <3> QED
      BY <1>1, <3>2, <3>3
  <2> QED
    BY <1>2, <1>3, <1>4, <1>5, <1>7, <2>1, <2>2 DEF Collect
<1>8. CASE Export \/ Close \/ UNCHANGED vars
  <2>1. UNCHANGED <<queue, batch, table, counts, lost, backend, class, flush, pc, number>>
    BY <1>8 DEF Export, Close, Flag, vars
  <2> QED
    BY <1>1, <2>1 DEF Committing
<1> QED
  BY <1>6, <1>7, <1>8 DEF Next

\* Where the one place of a result is.
LEMMA OnePlace ==
  ASSUME IInv, ApartInv
  PROVE  InOnePlace
<1> SUFFICES ASSUME NEW r \in Written PROVE Cardinality(Places(r)) = 1
  BY DEF InOnePlace
<1> DEFINE Q == {<<"queue", i>> : i \in {j \in 1 .. Len(queue) : queue[j] = r}}
           B == {<<"batch", i>> : i \in {j \in 1 .. Len(batch) : batch[j] = r}}
           T == {<<"table", i>> : i \in {j \in 1 .. Len(table) : table[j] = r}}
           L == {<<"lost", x>> : x \in {y \in lost : y[1] = r}}
<1>1. /\ DOMAIN queue = 1 .. Len(queue) /\ DOMAIN batch = 1 .. Len(batch) /\ DOMAIN table = 1 .. Len(table)
  BY DEF IInv, LoopInv
<1>2. /\ r \notin ToSet(queue) => Q = {}
      /\ r \notin ToSet(batch) => B = {}
      /\ r \notin ToSet(table) => T = {}
      /\ r \notin LostOnes => L = {}
  BY <1>1 DEF ToSet, LostOnes
<1>3. ASSUME r \in ToSet(queue) PROVE \E p : Q = {p}
  <2>1. PICK i \in 1 .. Len(queue) : queue[i] = r
    BY <1>1, <1>3 DEF ToSet
  <2>2. \A j \in 1 .. Len(queue) : queue[j] = r <=> j = i
    BY <1>1, <2>1 DEF ApartInv, IsInjective
  <2>3. Q = {<<"queue", i>>}
    BY <2>1, <2>2
  <2> QED
    BY <2>3
<1>4. ASSUME r \in ToSet(batch) PROVE \E p : B = {p}
  <2>1. PICK i \in 1 .. Len(batch) : batch[i] = r
    BY <1>1, <1>4 DEF ToSet
  <2>2. \A j \in 1 .. Len(batch) : batch[j] = r <=> j = i
    BY <1>1, <2>1 DEF ApartInv, IsInjective
  <2>3. B = {<<"batch", i>>}
    BY <2>1, <2>2
  <2> QED
    BY <2>3
<1>5. ASSUME r \in ToSet(table) PROVE \E p : T = {p}
  <2>1. PICK i \in 1 .. Len(table) : table[i] = r
    BY <1>1, <1>5 DEF ToSet
  <2>2. \A j \in 1 .. Len(table) : table[j] = r <=> j = i
    BY <1>1, <2>1 DEF ApartInv, TableInv, IsInjective
  <2>3. T = {<<"table", i>>}
    BY <2>1, <2>2
  <2> QED
    BY <2>3
<1>6. ASSUME r \in LostOnes PROVE \E p : L = {p}
  <2>1. PICK x \in lost : x[1] = r
    BY <1>6 DEF LostOnes
  <2>2. \A y \in lost : y[1] = r <=> y = x
    BY <2>1 DEF ApartInv, TableInv
  <2>3. L = {<<"lost", x>>}
    BY <2>1, <2>2
  <2> QED
    BY <2>3
<1>7. \E p : Places(r) = {p}
  <2>1. Places(r) = Q \cup B \cup T \cup L
    BY DEF Places
  <2>2. r \in ToSet(queue) \cup ToSet(batch) \cup ToSet(table) \cup LostOnes
    BY DEF IInv, PlaceInv
  <2> HIDE DEF Q, B, T, L
  <2> QED
    BY <1>2, <1>3, <1>4, <1>5, <1>6, <2>1, <2>2 DEF ApartInv, TableInv, Disjoint, Stored
<1> QED
  BY <1>7, FS_Singleton

-----------------------------------------------------------------------------
(* The figures.                                                            *)

\* A counter that some workers read and then write: owed what it should reach, pending the
\* workers that have yet to add their one, storing those of them that have loaded it.  As long
\* as no two of them met it lacks exactly the pending ones.
Tally(value, owed, pending, storing, load, kind, met) ==
  /\ storing \subseteq pending
  /\ value + Cardinality(pending) <= owed
  /\ \A w \in storing : load[w] + Cardinality(pending) <= owed
  /\ kind \notin met => /\ value + Cardinality(pending) = owed
                        /\ \A w \in storing : load[w] = value
                        /\ \A v, w \in storing : v = w

LEMMA SomeWorkers ==
  ASSUME NEW P \in SUBSET Workers
  PROVE  /\ IsFiniteSet(P) /\ Cardinality(P) \in Nat
         /\ \A w \in Workers \ P : Cardinality(P \cup {w}) = Cardinality(P) + 1
         /\ \A w \in P : Cardinality(P \ {w}) = Cardinality(P) - 1
<1>1. IsFiniteSet(Workers)
  BY CollectorAssumption, UpTo DEF Workers
<1>2. IsFiniteSet(P) /\ Cardinality(P) \in Nat
  BY <1>1, FS_Subset, FS_CardinalityType
<1> QED
  BY <1>2, FS_AddElement, FS_RemoveElement

LEMMA TallyEnter ==
  ASSUME NEW value \in Nat, NEW owed \in Nat, NEW P \in SUBSET Workers, NEW S \in SUBSET Workers,
         NEW load \in [Workers -> Nat], NEW kind, NEW met, Tally(value, owed, P, S, load, kind, met),
         NEW w \in Workers \ P
  PROVE  Tally(value, owed + 1, P \cup {w}, S, load, kind, met)
<1>1. Cardinality(P) \in Nat /\ Cardinality(P \cup {w}) = Cardinality(P) + 1
  BY SomeWorkers
<1>2. value + Cardinality(P \cup {w}) <= owed + 1
  BY <1>1 DEF Tally
<1>3. ASSUME NEW v \in S PROVE load[v] + Cardinality(P \cup {w}) <= owed + 1
  <2>1. load[v] \in Nat /\ load[v] + Cardinality(P) <= owed
    BY DEF Tally
  <2> QED
    BY <1>1, <2>1
<1>4. kind \notin met => value + Cardinality(P \cup {w}) = owed + 1
  BY <1>1 DEF Tally
<1> QED
  BY <1>2, <1>3, <1>4 DEF Tally

LEMMA TallyLoad ==
  ASSUME NEW value \in Nat, NEW owed \in Nat, NEW P \in SUBSET Workers, NEW S \in SUBSET Workers,
         NEW load \in [Workers -> Nat], NEW kind, NEW met, Tally(value, owed, P, S, load, kind, met),
         NEW w \in P \ S, NEW after, after = [load EXCEPT ![w] = value],
         NEW metNow, kind \notin metNow => kind \notin met /\ S = {}
  PROVE  Tally(value, owed, P, S \cup {w}, after, kind, metNow)
<1>1. after[w] = value /\ \A v \in S : after[v] = load[v]
  OBVIOUS
<1> QED
  BY <1>1 DEF Tally

LEMMA TallyStore ==
  ASSUME NEW value \in Nat, NEW owed \in Nat, NEW P \in SUBSET Workers, NEW S \in SUBSET Workers,
         NEW load \in [Workers -> Nat], NEW kind, NEW met, Tally(value, owed, P, S, load, kind, met),
         NEW w \in S
  PROVE  Tally(load[w] + 1, owed, P \ {w}, S \ {w}, load, kind, met)
<1>1. w \in P /\ Cardinality(P) \in Nat /\ Cardinality(P \ {w}) = Cardinality(P) - 1
  BY SomeWorkers DEF Tally
<1>2. load[w] \in Nat /\ load[w] + Cardinality(P) <= owed
  BY DEF Tally
<1>3. load[w] + 1 + Cardinality(P \ {w}) <= owed
  BY <1>1, <1>2
<1>4. ASSUME NEW v \in S PROVE load[v] + Cardinality(P \ {w}) <= owed
  <2>1. load[v] \in Nat /\ load[v] + Cardinality(P) <= owed
    BY DEF Tally
  <2> QED
    BY <1>1, <2>1
<1>5. kind \notin met => load[w] + 1 + Cardinality(P \ {w}) = owed /\ S \ {w} = {}
  <2>1. kind \notin met => value + Cardinality(P) = owed /\ load[w] = value /\ \A v \in S : v = w
    BY DEF Tally
  <2> QED
    BY <1>1, <2>1
<1> QED
  BY <1>3, <1>4, <1>5 DEF Tally

LEMMA TallyKeep ==
  ASSUME NEW value, NEW owed, NEW P, NEW S, NEW load, NEW kind, NEW met, NEW after,
         Tally(value, owed, P, S, load, kind, met), \A w \in S : after[w] = load[w]
  PROVE  Tally(value, owed, P, S, after, kind, met)
BY DEF Tally

At(step) == {w \in Workers : pc[w] = step}
Early == {w \in Workers : pc[w] \in {"loadError", "storeError", "loadCode", "storeCode", "identify"}}
ErrorsOwed == {w \in Workers : pc[w] \in {"loadError", "storeError"}}
CodesOwed ==
  {w \in Workers : status[w] /\ pc[w] \in {"loadError", "storeError", "loadCode", "storeCode"}}

Steps == {"idle", "loadError", "storeError", "loadCode", "storeCode", "identify", "check", "send",
          "commit"}

FigureTypes ==
  /\ pc \in [Workers -> Steps] /\ status \in [Workers -> BOOLEAN] /\ loaded \in [Workers -> Nat]
  /\ cur \in [Workers -> Classes \cup {NoClass}]
  /\ figures \in [Filters -> Nat] /\ due \in [error : Nat, code : Nat]
  /\ begun \in Nat /\ errors \in Nat /\ codes \in Nat /\ durations \in Nat
  /\ crossed \subseteq {"error", "code"}

ErrorTally == Tally(errors, due.error, ErrorsOwed, At("storeError"), loaded, "error", crossed)
CodeTally == Tally(codes, due.code, CodesOwed, At("storeCode"), loaded, "code", crossed)

Sums ==
  /\ figures["all"] = begun
  /\ figures["all"] = figures["success"] + figures["failed"] + figures["skipped"]
  /\ due.error = figures["failed"] /\ due.code <= begun
  /\ begun = Len(class) + Cardinality(Early) /\ durations = Len(class)

FiguresInv ==
  /\ FigureTypes /\ Sums /\ ErrorTally /\ CodeTally
  /\ \A w \in Workers : pc[w] \in {"loadCode", "storeCode"} => status[w]

LEMMA InitFigures == Init => FiguresInv
<1> SUFFICES ASSUME Init PROVE FiguresInv
  OBVIOUS
<1>1. Early = {} /\ ErrorsOwed = {} /\ CodesOwed = {} /\ At("storeError") = {} /\ At("storeCode") = {}
  BY DEF Init, Early, ErrorsOwed, CodesOwed, At
<1>2. Cardinality({}) = 0
  BY FS_EmptySet
<1>3. FigureTypes
  BY DEF Init, FigureTypes, Steps
<1>4. Sums
  BY <1>1, <1>2 DEF Init, StorageInit, Sums, Filters, Classes
<1>5. ErrorTally /\ CodeTally
  BY <1>1, <1>2 DEF Init, ErrorTally, CodeTally, Tally
<1> QED
  BY <1>3, <1>4, <1>5 DEF FiguresInv, Init

LEMMA BeginFigures ==
  ASSUME FiguresInv, class \in Seq(Classes), NEW w \in Workers, NEW c \in Classes,
         NEW coded \in BOOLEAN, Begin(w, c, coded)
  PROVE  FiguresInv'
<1> DEFINE to == IF c = "failed" THEN "loadError" ELSE IF coded THEN "loadCode" ELSE "identify"
<1>1. /\ pc[w] = "idle" /\ begun' = begun + 1 /\ pc' = [pc EXCEPT ![w] = to]
      /\ status' = [status EXCEPT ![w] = coded] /\ cur' = [cur EXCEPT ![w] = c]
      /\ figures' = [f \in Filters |-> figures[f] + IF f \in {"all", c} THEN 1 ELSE 0]
      /\ due' = [error |-> due.error + IF c = "failed" THEN 1 ELSE 0,
                 code  |-> due.code + IF coded THEN 1 ELSE 0]
      /\ UNCHANGED <<class, loaded, errors, codes, durations, crossed>>
  BY DEF Begin, CountersOf
<1>2. FigureTypes
  BY DEF FiguresInv
<1>3. FigureTypes'
  <2>1. pc' \in [Workers -> Steps] /\ status' \in [Workers -> BOOLEAN]
    BY <1>1, <1>2 DEF FigureTypes, Steps
  <2>2. figures' \in [Filters -> Nat] /\ due' \in [error : Nat, code : Nat]
    BY <1>1, <1>2 DEF FigureTypes
  <2>3. cur' \in [Workers -> Classes \cup {NoClass}]
    BY <1>1, <1>2 DEF FigureTypes
  <2> QED
    BY <1>1, <1>2, <2>1, <2>2, <2>3 DEF FigureTypes
<1>4. /\ pc'[w] = to /\ status'[w] = coded
      /\ \A v \in Workers \ {w} : pc'[v] = pc[v] /\ status'[v] = status[v]
  BY <1>1, <1>2 DEF FigureTypes
<1>5. Early' = Early \cup {w} /\ w \notin Early
  BY <1>1, <1>4 DEF Early
<1>6. Sums'
  <2>1. Cardinality(Early') = Cardinality(Early) + 1 /\ Cardinality(Early) \in Nat
    <3>1. Early \in SUBSET Workers
      BY DEF Early
    <3> QED
      BY <1>5, <3>1, SomeWorkers
  <2>2. \A f \in Filters : figures'[f] = figures[f] + IF f \in {"all", c} THEN 1 ELSE 0
    BY <1>1
  <2>3. /\ figures["all"] \in Nat /\ figures["success"] \in Nat /\ figures["failed"] \in Nat
        /\ figures["skipped"] \in Nat /\ due.error \in Nat /\ due.code \in Nat /\ begun \in Nat
        /\ Len(class) \in Nat
    BY <1>2 DEF FigureTypes, Filters, Classes
  <2>4. /\ due'.error = due.error + IF c = "failed" THEN 1 ELSE 0
        /\ due'.code = due.code + IF coded THEN 1 ELSE 0
    BY <1>1
  <2>5. /\ figures'["all"] = figures["all"] + 1
        /\ figures'["success"] = figures["success"] + IF c = "success" THEN 1 ELSE 0
        /\ figures'["failed"] = figures["failed"] + IF c = "failed" THEN 1 ELSE 0
        /\ figures'["skipped"] = figures["skipped"] + IF c = "skipped" THEN 1 ELSE 0
    BY <2>2 DEF Filters, Classes
  <2>6. c \in {"success", "failed", "skipped"}
    BY DEF Classes
  <2>7. begun' = Len(class') + Cardinality(Early') /\ durations' = Len(class')
    BY <1>1, <2>1, <2>3 DEF FiguresInv, Sums
  <2>8. due.code <= begun /\ due'.code <= begun'
    <3>1. due.code <= begun /\ begun' = begun + 1
      BY <1>1 DEF FiguresInv, Sums
    <3>2. due'.code \in {due.code, due.code + 1}
      BY <2>3, <2>4
    <3> QED
      BY <2>3, <3>1, <3>2
  <2>9. /\ figures["all"] = figures["success"] + figures["failed"] + figures["skipped"]
        /\ figures["all"] = begun /\ due.error = figures["failed"]
    BY DEF FiguresInv, Sums
  <2>10. /\ figures'["all"] = figures'["success"] + figures'["failed"] + figures'["skipped"]
         /\ figures'["all"] = begun' /\ due'.error = figures'["failed"]
    <3>1. begun' = begun + 1
      BY <1>1
    <3>2. CASE c = "success"
      <4>1. /\ figures'["success"] = figures["success"] + 1 /\ figures'["failed"] = figures["failed"]
            /\ figures'["skipped"] = figures["skipped"] /\ due'.error = due.error
        BY <2>3, <2>4, <2>5, <3>2
      <4> QED
        BY <2>3, <2>5, <2>9, <3>1, <4>1
    <3>3. CASE c = "failed"
      <4>1. /\ figures'["success"] = figures["success"] /\ figures'["failed"] = figures["failed"] + 1
            /\ figures'["skipped"] = figures["skipped"] /\ due'.error = due.error + 1
        BY <2>3, <2>4, <2>5, <3>3
      <4> QED
        BY <2>3, <2>5, <2>9, <3>1, <4>1
    <3>4. CASE c = "skipped"
      <4>1. /\ figures'["success"] = figures["success"] /\ figures'["failed"] = figures["failed"]
            /\ figures'["skipped"] = figures["skipped"] + 1 /\ due'.error = due.error
        BY <2>3, <2>4, <2>5, <3>4
      <4>2. figures'["all"] = figures["all"] + 1
        BY <2>5
      <4> QED
        BY <2>3, <2>9, <3>1, <4>1, <4>2
    <3> QED
      BY <2>6, <3>2, <3>3, <3>4
  <2> QED
    BY <2>7, <2>8, <2>10 DEF Sums
<1>7. At("storeError")' = At("storeError") /\ At("storeCode")' = At("storeCode")
  BY <1>1, <1>4 DEF At
<1>8. ErrorTally'
  <2>1. CASE c = "failed"
    <3>1. ErrorsOwed' = ErrorsOwed \cup {w} /\ w \in Workers \ ErrorsOwed /\ due'.error = due.error + 1
      BY <1>1, <1>4, <2>1 DEF ErrorsOwed
    <3>2. /\ errors \in Nat /\ due.error \in Nat /\ ErrorsOwed \in SUBSET Workers
          /\ At("storeError") \in SUBSET Workers /\ loaded \in [Workers -> Nat]
      BY <1>2 DEF FigureTypes, ErrorsOwed, At
    <3>3. Tally(errors, due.error + 1, ErrorsOwed \cup {w}, At("storeError"), loaded, "error", crossed)
      BY <3>1, <3>2, TallyEnter DEF FiguresInv, ErrorTally
    <3> QED
      BY <1>1, <1>7, <3>1, <3>3 DEF ErrorTally
  <2>2. CASE c # "failed"
    <3>1. ErrorsOwed' = ErrorsOwed /\ due'.error = due.error
      BY <1>1, <1>2, <1>4, <2>2 DEF ErrorsOwed, FigureTypes
    <3> QED
      BY <1>1, <1>7, <3>1 DEF FiguresInv, ErrorTally
  <2> QED
    BY <2>1, <2>2
<1>9. CodeTally'
  <2>1. CASE coded
    <3>1. CodesOwed' = CodesOwed \cup {w} /\ w \in Workers \ CodesOwed /\ due'.code = due.code + 1
      BY <1>1, <1>4, <2>1 DEF CodesOwed
    <3>2. /\ codes \in Nat /\ due.code \in Nat /\ CodesOwed \in SUBSET Workers
          /\ At("storeCode") \in SUBSET Workers /\ loaded \in [Workers -> Nat]
      BY <1>2 DEF FigureTypes, CodesOwed, At
    <3>3. Tally(codes, due.code + 1, CodesOwed \cup {w}, At("storeCode"), loaded, "code", crossed)
      BY <3>1, <3>2, TallyEnter DEF FiguresInv, CodeTally
    <3> QED
      BY <1>1, <1>7, <3>1, <3>3 DEF CodeTally
  <2>2. CASE ~coded
    <3>1. CodesOwed' = CodesOwed /\ due'.code = due.code
      BY <1>1, <1>2, <1>4, <2>2 DEF CodesOwed, FigureTypes
    <3> QED
      BY <1>1, <1>7, <3>1 DEF FiguresInv, CodeTally
  <2> QED
    BY <2>1, <2>2
<1>10. \A v \in Workers : pc'[v] \in {"loadCode", "storeCode"} => status'[v]
  BY <1>4 DEF FiguresInv
<1> QED
  BY <1>3, <1>6, <1>8, <1>9, <1>10 DEF FiguresInv

\* A step that adds to no counter, of workers that stay as they are or are past counting.
LEMMA FiguresKeep ==
  ASSUME FiguresInv, FigureTypes',
         UNCHANGED <<begun, figures, errors, codes, durations, due, crossed, class>>,
         \A w \in Workers : \/ UNCHANGED <<pc[w], status[w], loaded[w]>>
                           \/ {pc[w], pc'[w]} \subseteq {"idle", "check", "send", "commit"}
  PROVE  FiguresInv'
<1>1. /\ Early' = Early /\ ErrorsOwed' = ErrorsOwed /\ CodesOwed' = CodesOwed
      /\ At("storeError")' = At("storeError") /\ At("storeCode")' = At("storeCode")
  BY DEF Early, ErrorsOwed, CodesOwed, At
<1>2. Sums'
  BY <1>1 DEF FiguresInv, Sums
<1>3. \A w \in At("storeError") \cup At("storeCode") : loaded'[w] = loaded[w]
  BY DEF At
<1>4. ErrorTally' /\ CodeTally'
  <2>1. Tally(errors, due.error, ErrorsOwed, At("storeError"), loaded', "error", crossed)
    BY <1>3, TallyKeep DEF FiguresInv, ErrorTally
  <2>2. Tally(codes, due.code, CodesOwed, At("storeCode"), loaded', "code", crossed)
    BY <1>3, TallyKeep DEF FiguresInv, CodeTally
  <2> QED
    BY <1>1, <2>1, <2>2 DEF ErrorTally, CodeTally
<1>5. \A w \in Workers : pc'[w] \in {"loadCode", "storeCode"} => status'[w]
  BY DEF FiguresInv
<1> QED
  BY <1>2, <1>4, <1>5 DEF FiguresInv

LEMMA TallyInputs ==
  ASSUME FigureTypes
  PROVE  /\ errors \in Nat /\ due.error \in Nat /\ codes \in Nat /\ due.code \in Nat
         /\ ErrorsOwed \in SUBSET Workers /\ CodesOwed \in SUBSET Workers
         /\ At("storeError") \in SUBSET Workers /\ At("storeCode") \in SUBSET Workers
         /\ loaded \in [Workers -> Nat]
BY DEF FigureTypes, ErrorsOwed, CodesOwed, At

LEMMA LoadErrorFigures ==
  ASSUME FiguresInv, NEW w \in Workers, LoadError(w)
  PROVE  FiguresInv'
<1>1. /\ pc[w] = "loadError" /\ pc' = [pc EXCEPT ![w] = "storeError"]
      /\ loaded' = [loaded EXCEPT ![w] = errors]
      /\ crossed' = IF \E v \in Workers \ {w} : pc[v] = "storeError" THEN crossed \cup {"error"} ELSE crossed
      /\ UNCHANGED <<begun, cur, status, figures, errors, codes, durations, due, class>>
  BY DEF LoadError, Load
<1>2. FigureTypes /\ FigureTypes'
  BY <1>1 DEF FiguresInv, FigureTypes, Steps
<1>3. pc'[w] = "storeError" /\ \A v \in Workers \ {w} : pc'[v] = pc[v] /\ loaded'[v] = loaded[v]
  BY <1>1, <1>2 DEF FigureTypes
<1>4. /\ Early' = Early /\ ErrorsOwed' = ErrorsOwed /\ CodesOwed' = CodesOwed
      /\ At("storeError")' = At("storeError") \cup {w} /\ At("storeCode")' = At("storeCode")
      /\ w \in ErrorsOwed \ At("storeError") /\ w \notin At("storeCode")
  BY <1>1, <1>3 DEF Early, ErrorsOwed, CodesOwed, At
<1>5. "error" \in crossed' <=> ("error" \in crossed \/ At("storeError") # {})
  BY <1>1, <1>4 DEF At
<1>6. "code" \in crossed' <=> "code" \in crossed
  BY <1>1
<1>7. ErrorTally'
  <2>1. Tally(errors, due.error, ErrorsOwed, At("storeError") \cup {w}, loaded', "error", crossed')
    <3>1. Tally(errors, due.error, ErrorsOwed, At("storeError"), loaded, "error", crossed)
      BY DEF FiguresInv, ErrorTally
    <3>2. "error" \notin crossed' => "error" \notin crossed /\ At("storeError") = {}
      BY <1>5
    <3> QED
      BY <1>1, <1>2, <1>4, <3>1, <3>2, TallyInputs, TallyLoad
  <2> QED
    BY <1>1, <1>4, <2>1 DEF ErrorTally
<1>8. CodeTally'
  <2>1. \A v \in At("storeCode") : loaded'[v] = loaded[v]
    BY <1>3, <1>4 DEF At
  <2>2. Tally(codes, due.code, CodesOwed, At("storeCode"), loaded', "code", crossed)
    BY <2>1, TallyKeep DEF FiguresInv, CodeTally
  <2> QED
    BY <1>1, <1>4, <1>6, <2>2 DEF CodeTally, Tally
<1>9. Sums'
  BY <1>1, <1>4 DEF FiguresInv, Sums
<1>10. \A v \in Workers : pc'[v] \in {"loadCode", "storeCode"} => status'[v]
  BY <1>1, <1>3 DEF FiguresInv
<1> QED
  BY <1>2, <1>7, <1>8, <1>9, <1>10 DEF FiguresInv

LEMMA LoadCodeFigures ==
  ASSUME FiguresInv, NEW w \in Workers, LoadCode(w)
  PROVE  FiguresInv'
<1>1. /\ pc[w] = "loadCode" /\ pc' = [pc EXCEPT ![w] = "storeCode"]
      /\ loaded' = [loaded EXCEPT ![w] = codes]
      /\ crossed' = IF \E v \in Workers \ {w} : pc[v] = "storeCode" THEN crossed \cup {"code"} ELSE crossed
      /\ UNCHANGED <<begun, cur, status, figures, errors, codes, durations, due, class>>
  BY DEF LoadCode, Load
<1>2. FigureTypes /\ FigureTypes' /\ status[w]
  BY <1>1 DEF FiguresInv, FigureTypes, Steps
<1>3. pc'[w] = "storeCode" /\ \A v \in Workers \ {w} : pc'[v] = pc[v] /\ loaded'[v] = loaded[v]
  BY <1>1, <1>2 DEF FigureTypes
<1>4. /\ Early' = Early /\ ErrorsOwed' = ErrorsOwed /\ CodesOwed' = CodesOwed
      /\ At("storeCode")' = At("storeCode") \cup {w} /\ At("storeError")' = At("storeError")
      /\ w \in CodesOwed \ At("storeCode") /\ w \notin At("storeError")
  BY <1>1, <1>2, <1>3 DEF Early, ErrorsOwed, CodesOwed, At
<1>5. "code" \in crossed' <=> ("code" \in crossed \/ At("storeCode") # {})
  BY <1>1, <1>4 DEF At
<1>6. "error" \in crossed' <=> "error" \in crossed
  BY <1>1
<1>7. CodeTally'
  <2>1. Tally(codes, due.code, CodesOwed, At("storeCode") \cup {w}, loaded', "code", crossed')
    <3>1. Tally(codes, due.code, CodesOwed, At("storeCode"), loaded, "code", crossed)
      BY DEF FiguresInv, CodeTally
    <3>2. "code" \notin crossed' => "code" \notin crossed /\ At("storeCode") = {}
      BY <1>5
    <3> QED
      BY <1>1, <1>2, <1>4, <3>1, <3>2, TallyInputs, TallyLoad
  <2> QED
    BY <1>1, <1>4, <2>1 DEF CodeTally
<1>8. ErrorTally'
  <2>1. \A v \in At("storeError") : loaded'[v] = loaded[v]
    BY <1>3, <1>4 DEF At
  <2>2. Tally(errors, due.error, ErrorsOwed, At("storeError"), loaded', "error", crossed)
    BY <2>1, TallyKeep DEF FiguresInv, ErrorTally
  <2> QED
    BY <1>1, <1>4, <1>6, <2>2 DEF ErrorTally, Tally
<1>9. Sums'
  BY <1>1, <1>4 DEF FiguresInv, Sums
<1>10. \A v \in Workers : pc'[v] \in {"loadCode", "storeCode"} => status'[v]
  BY <1>1, <1>2, <1>3 DEF FiguresInv
<1> QED
  BY <1>2, <1>7, <1>8, <1>9, <1>10 DEF FiguresInv

LEMMA StoreErrorFigures ==
  ASSUME FiguresInv, NEW w \in Workers, StoreError(w)
  PROVE  FiguresInv'
<1> DEFINE to == IF status[w] THEN "loadCode" ELSE "identify"
<1>1. /\ pc[w] = "storeError" /\ pc' = [pc EXCEPT ![w] = to] /\ errors' = loaded[w] + 1
      /\ UNCHANGED <<begun, cur, status, loaded, figures, codes, durations, due, crossed, class>>
  BY DEF StoreError, AfterErrors
<1>2. FigureTypes /\ FigureTypes'
  BY <1>1 DEF FiguresInv, FigureTypes, Steps
<1>3. pc'[w] = to /\ \A v \in Workers \ {w} : pc'[v] = pc[v]
  BY <1>1, <1>2 DEF FigureTypes
<1>4. /\ Early' = Early /\ ErrorsOwed' = ErrorsOwed \ {w} /\ CodesOwed' = CodesOwed
      /\ At("storeError")' = At("storeError") \ {w} /\ At("storeCode")' = At("storeCode")
      /\ w \in At("storeError")
  BY <1>1, <1>3 DEF Early, ErrorsOwed, CodesOwed, At
<1>5. ErrorTally'
  <2>1. Tally(loaded[w] + 1, due.error, ErrorsOwed \ {w}, At("storeError") \ {w}, loaded,
              "error", crossed)
    BY <1>2, <1>4, TallyInputs, TallyStore DEF FiguresInv, ErrorTally
  <2> QED
    BY <1>1, <1>4, <2>1 DEF ErrorTally
<1>6. CodeTally'
  BY <1>1, <1>4 DEF FiguresInv, CodeTally
<1>7. Sums'
  BY <1>1, <1>4 DEF FiguresInv, Sums
<1>8. \A v \in Workers : pc'[v] \in {"loadCode", "storeCode"} => status'[v]
  BY <1>1, <1>3 DEF FiguresInv
<1> QED
  BY <1>2, <1>5, <1>6, <1>7, <1>8 DEF FiguresInv

LEMMA StoreCodeFigures ==
  ASSUME FiguresInv, NEW w \in Workers, StoreCode(w)
  PROVE  FiguresInv'
<1>1. /\ pc[w] = "storeCode" /\ pc' = [pc EXCEPT ![w] = "identify"] /\ codes' = loaded[w] + 1
      /\ UNCHANGED <<begun, cur, status, loaded, figures, errors, durations, due, crossed, class>>
  BY DEF StoreCode
<1>2. FigureTypes /\ FigureTypes'
  BY <1>1 DEF FiguresInv, FigureTypes, Steps
<1>3. pc'[w] = "identify" /\ \A v \in Workers \ {w} : pc'[v] = pc[v]
  BY <1>1, <1>2 DEF FigureTypes
<1>4. /\ Early' = Early /\ ErrorsOwed' = ErrorsOwed /\ CodesOwed' = CodesOwed \ {w}
      /\ At("storeCode")' = At("storeCode") \ {w} /\ At("storeError")' = At("storeError")
      /\ w \in At("storeCode")
  BY <1>1, <1>3 DEF Early, ErrorsOwed, CodesOwed, At
<1>5. CodeTally'
  <2>1. Tally(loaded[w] + 1, due.code, CodesOwed \ {w}, At("storeCode") \ {w}, loaded,
              "code", crossed)
    BY <1>2, <1>4, TallyInputs, TallyStore DEF FiguresInv, CodeTally
  <2> QED
    BY <1>1, <1>4, <2>1 DEF CodeTally
<1>6. ErrorTally'
  BY <1>1, <1>4 DEF FiguresInv, ErrorTally
<1>7. Sums'
  BY <1>1, <1>4 DEF FiguresInv, Sums
<1>8. \A v \in Workers : pc'[v] \in {"loadCode", "storeCode"} => status'[v]
  BY <1>1, <1>3 DEF FiguresInv
<1> QED
  BY <1>2, <1>5, <1>6, <1>7, <1>8 DEF FiguresInv

LEMMA IdentifyFigures ==
  ASSUME FiguresInv, class \in Seq(Classes), NEW w \in Workers, Identify(w), cur[w] \in Classes
  PROVE  FiguresInv'
<1>1. /\ pc[w] = "identify" /\ pc' = [pc EXCEPT ![w] = "check"] /\ durations' = durations + 1
      /\ class' = Append(class, cur[w])
      /\ UNCHANGED <<begun, cur, status, loaded, figures, errors, codes, due, crossed>>
  BY DEF Identify
<1>2. FigureTypes /\ FigureTypes'
  BY <1>1 DEF FiguresInv, FigureTypes, Steps
<1>3. pc'[w] = "check" /\ \A v \in Workers \ {w} : pc'[v] = pc[v]
  BY <1>1, <1>2 DEF FigureTypes
<1>4. /\ Early' = Early \ {w} /\ w \in Early /\ ErrorsOwed' = ErrorsOwed /\ CodesOwed' = CodesOwed
      /\ At("storeError")' = At("storeError") /\ At("storeCode")' = At("storeCode")
  BY <1>1, <1>3 DEF Early, ErrorsOwed, CodesOwed, At
<1>5. ErrorTally' /\ CodeTally'
  BY <1>1, <1>4 DEF FiguresInv, ErrorTally, CodeTally
<1>6. Sums'
  <2>1. Cardinality(Early') = Cardinality(Early) - 1 /\ Cardinality(Early) \in Nat
    <3>1. Early \in SUBSET Workers
      BY DEF Early
    <3> QED
      BY <1>4, <3>1, SomeWorkers
  <2>2. Len(class') = Len(class) + 1 /\ Len(class) \in Nat
    BY <1>1
  <2>3. begun' = Len(class') + Cardinality(Early') /\ durations' = Len(class')
    BY <1>1, <2>1, <2>2 DEF FiguresInv, Sums
  <2> QED
    BY <1>1, <2>3 DEF FiguresInv, Sums
<1>7. \A v \in Workers : pc'[v] \in {"loadCode", "storeCode"} => status'[v]
  BY <1>1, <1>3 DEF FiguresInv
<1> QED
  BY <1>2, <1>5, <1>6, <1>7 DEF FiguresInv

LEMMA FiguresStep ==
  ASSUME NumberInv, ClassInv, FiguresInv, [Next]_vars
  PROVE  FiguresInv'
<1>0. class \in Seq(Classes)
  BY DEF NumberInv
<1>1. ASSUME NEW w \in Workers, NEW c \in Classes, NEW coded \in BOOLEAN, Begin(w, c, coded)
      PROVE  FiguresInv'
  BY <1>0, <1>1, BeginFigures
<1>2. ASSUME NEW w \in Workers, LoadError(w) \/ StoreError(w) \/ LoadCode(w) \/ StoreCode(w)
      PROVE  FiguresInv'
  BY <1>2, LoadErrorFigures, StoreErrorFigures, LoadCodeFigures, StoreCodeFigures
<1>3. ASSUME NEW w \in Workers, Identify(w) PROVE FiguresInv'
  BY <1>0, <1>3, IdentifyFigures DEF Identify, ClassInv
<1>4. ASSUME NEW w \in Workers, CheckOpen(w) \/ SendResult(w) \/ CommitResult(w) PROVE FiguresInv'
  <2>1. /\ pc[w] \in {"check", "send", "commit"}
        /\ UNCHANGED <<begun, figures, errors, codes, durations, due, crossed, class>>
        /\ \/ Finish(w)
           \/ /\ \E to \in {"send", "commit"} : pc' = [pc EXCEPT ![w] = to]
              /\ UNCHANGED <<cur, status, loaded>>
    BY <1>4 DEF CheckOpen, SendResult, CommitResult
  <2>2. FigureTypes
    BY DEF FiguresInv
  <2>3. FigureTypes'
    <3>1. pc' \in [Workers -> Steps] /\ status' \in [Workers -> BOOLEAN]
      BY <2>1, <2>2 DEF FigureTypes, Finish, Steps
    <3>2. loaded' \in [Workers -> Nat] /\ cur' \in [Workers -> Classes \cup {NoClass}]
      BY <2>1, <2>2 DEF FigureTypes, Finish
    <3> QED
      BY <2>1, <2>2, <3>1, <3>2 DEF FigureTypes
  <2>4. /\ pc'[w] \in {"idle", "send", "commit"}
        /\ \A v \in Workers \ {w} : UNCHANGED <<pc[v], status[v], loaded[v]>>
    BY <2>1, <2>2 DEF FigureTypes, Finish
  <2> QED
    BY <2>1, <2>3, <2>4, FiguresKeep
<1>5. CASE UNCHANGED <<workerVars, figureVars, class>>
  BY <1>5, FiguresKeep DEF FiguresInv, FigureTypes
<1>6. CASE Background \/ Export \/ Close \/ UNCHANGED vars
  <2>1. UNCHANGED <<workerVars, figureVars, class>>
    BY <1>6 DEF Background, LoopStep, CloseStep, Receive, Tick, Shutdown, Flush, CancelLoop, CloseChannel,
                CloseDatabase, Export, Close, Flag, vars
  <2> QED
    BY <1>5, <2>1
<1> QED
  BY <1>1, <1>2, <1>3, <1>4, <1>6 DEF Next, Collect

-----------------------------------------------------------------------------
(* The page, and the bounds of the channel, the batch and the counters.    *)

ExportInv ==
  exported # NotExported =>
    /\ RunIsOver
    /\ exported \in Seq(Nat) /\ ToSet(exported) \subseteq ToSet(table)
    /\ backend = "memory" => ToSet(exported) = Written

WrittenFits ==
  /\ Len(class) <= MaxResults
  /\ Written \subseteq Results
  /\ Len(table) <= MaxResults

LEMMA Fits ==
  ASSUME IInv, HeldInv, FiguresInv
  PROVE  WrittenFits
<1>1. Len(class) \in Nat /\ Len(class) <= MaxResults /\ MaxResults \in Nat
  <2>1. Cardinality(Early) \in Nat
    <3>1. Early \in SUBSET Workers
      BY DEF Early
    <3> QED
      BY <3>1, SomeWorkers
  <2>2. Len(class) \in Nat /\ MaxResults \in Nat /\ begun <= MaxResults /\ begun \in Nat
    BY DetailStorageAssumption DEF IInv, NumberInv, ClosedInv
  <2> QED
    <3>1. begun = Len(class) + Cardinality(Early)
      BY DEF FiguresInv, Sums
    <3> QED
      BY <2>1, <2>2, <3>1
<1>2. Written \subseteq Results
  BY <1>1 DEF Written, Results
<1>3. Len(table) <= MaxResults
  <2>1. Len(table) \in Nat /\ DOMAIN table = 1 .. Len(table) /\ IsInjective(table)
    BY DEF IInv, LoopInv, HeldInv, ApartInv, TableInv
  <2>2. [i \in 1 .. Len(table) |-> table[i]] \in Injection(1 .. Len(table), 1 .. MaxResults)
    <3>1. \A i \in 1 .. Len(table) : table[i] \in 1 .. MaxResults
      BY <1>2, <2>1 DEF IInv, PlaceInv, ToSet, Results
    <3>2. \A i, j \in 1 .. Len(table) : table[i] = table[j] => i = j
      BY <2>1 DEF IsInjective
    <3> QED
      BY <3>1, <3>2 DEF Injection, IsInjective
  <2>3. Cardinality(1 .. Len(table)) <= Cardinality(1 .. MaxResults)
    BY <1>1, <2>2, UpTo, FS_Injection
  <2> QED
    BY <1>1, <2>1, <2>3, UpTo
<1> QED
  BY <1>1, <1>2, <1>3 DEF WrittenFits

\* The table only grows.
LEMMA TableGrows ==
  ASSUME IInv, LoopStep \/ CloseStep
  PROVE  ToSet(table) \subseteq ToSet(table')
<1>1. ASSUME NEW ok \in BOOLEAN, Flush(ok)
      PROVE  ToSet(table) \subseteq ToSet(table')
  <2>1. table' = table \/ table' = table \o batch
    BY <1>1 DEF Flush
  <2>2. ToSet(table \o batch) = ToSet(table) \cup ToSet(batch)
    BY SetOfConcat DEF IInv, LoopInv
  <2> QED
    BY <2>1, <2>2
<1> QED
  BY <1>1 DEF LoopStep, CloseStep, Receive, Tick, Shutdown, CancelLoop, CloseChannel, CloseDatabase

LEMMA ExportStep ==
  ASSUME IInv, HeldInv, FiguresInv, ExportInv, [Next]_vars
  PROVE  ExportInv'
<1>1. CASE Export
  <2>1. /\ RunIsOver /\ life = "open" /\ exported' = Query(0, MaxResults, "all")
        /\ UNCHANGED <<class, number, begun, pc, table, backend>>
    BY <1>1 DEF Export
  <2>2. /\ exported' \in Seq(Nat) /\ ToSet(exported') = OfClass(ToSet(table), "all")
    <3>1. table \in Seq(Nat) /\ IsInjective(table) /\ Len(table) <= MaxResults /\ Readable
      BY <2>1, Fits DEF IInv, LoopInv, HeldInv, ApartInv, TableInv, WrittenFits, Readable
    <3> QED
      BY <2>1, <3>1, QueryRows
  <2>3. OfClass(ToSet(table), "all") = ToSet(table)
    BY DEF OfClass, MatchFilter
  <2>4. backend = "memory" => Written = ToSet(table)
    BY SetOfEmpty DEF IInv, LoopInv, PlaceInv, LostOnes
  <2>5. Written' = Written /\ RunIsOver'
    BY <2>1 DEF Written, RunIsOver, WorkersDone
  <2> QED
    BY <2>1, <2>2, <2>3, <2>4, <2>5 DEF ExportInv
<1>2. ASSUME UNCHANGED <<class, number, begun, pc, exported, backend>>, ToSet(table) \subseteq ToSet(table')
      PROVE  ExportInv'
  BY <1>2 DEF ExportInv, Written, RunIsOver, WorkersDone
<1>3. CASE Close \/ UNCHANGED vars
  BY <1>2, <1>3 DEF Close, Flag, vars
<1>4. CASE Background
  <2>1. UNCHANGED <<class, number, begun, pc, exported, backend>>
    BY <1>4 DEF Background, LoopStep, CloseStep, Receive, Tick, Shutdown, Flush, CancelLoop, CloseChannel,
                CloseDatabase
  <2> QED
    BY <1>2, <1>4, <2>1, TableGrows DEF Background
<1>5. ASSUME NEW w \in Workers, Collect(w) PROVE ExportInv'
  <2>1. exported' = exported
    BY <1>5 DEF Collect, Begin, LoadError, LoadCode, Load, StoreError, StoreCode, Identify, CheckOpen,
                SendResult, CommitResult
  <2>2. ~RunIsOver
    <3>1. ASSUME NEW c \in Classes, NEW coded \in BOOLEAN, Begin(w, c, coded) PROVE ~RunIsOver
      BY <3>1, DetailStorageAssumption DEF Begin, RunIsOver, WorkersDone
    <3>2. CASE pc[w] # "idle"
      BY <3>2 DEF RunIsOver, WorkersDone
    <3> QED
      BY <1>5, <3>1, <3>2
         DEF Collect, LoadError, LoadCode, Load, StoreError, StoreCode, Identify, CheckOpen, SendResult,
             CommitResult
  <2> QED
    BY <2>1, <2>2 DEF ExportInv
<1> QED
  BY <1>1, <1>3, <1>4, <1>5 DEF Next

Causes == {"closed", "full", "failed", "abandoned"}

BoundsInv ==
  /\ Len(queue) <= ChannelSize
  /\ Len(batch) <= BatchSize /\ (Len(batch) = BatchSize => flush # "none")
  /\ lost \in SUBSET (Nat \X Causes) /\ failures \in 0 .. MaxFailures
  /\ loop \in BOOLEAN /\ panicked \in BOOLEAN
  /\ counts = [f \in Filters |-> counts[f]]
  /\ \A w \in Workers : loaded[w] <= MaxResults

LEMMA FlushBounds ==
  ASSUME LoopInv, BoundsInv, NEW ok \in BOOLEAN, Flush(ok), loaded' = loaded
  PROVE  BoundsInv'
<1>1. batch' = << >> /\ Len(batch') < BatchSize /\ BatchSize \in Nat /\ loop' \in BOOLEAN
  BY DetailStorageAssumption DEF Flush
<1>2. failures' \in 0 .. MaxFailures
  BY DetailStorageAssumption DEF Flush, Fails, BoundsInv
<1>3. lost' \in SUBSET (Nat \X Causes)
  <2>1. ToSet(batch) \X {"failed"} \in SUBSET (Nat \X Causes)
    <3>1. \A x \in ToSet(batch) : x \in Nat
      BY DEF ToSet, LoopInv
    <3> QED
      BY <3>1 DEF Causes
  <2> QED
    BY <2>1 DEF Flush, BoundsInv
<1>4. UNCHANGED <<counts, queue, panicked>>
  BY DEF Flush
<1> QED
  BY <1>1, <1>2, <1>3, <1>4 DEF BoundsInv

LEMMA BatchBounds ==
  ASSUME BoundsInv, NEW rs \in Seq(Nat), Len(rs) <= BatchSize, NEW kind, kind # "none",
         WriteBatch(rs, kind), Len(queue') <= ChannelSize, UNCHANGED <<lost, failures, loop, panicked, loaded>>
  PROVE  BoundsInv'
<1>1. counts' = [f \in Filters |-> counts'[f]]
  BY DEF WriteBatch, Counted, BoundsInv
<1> QED
  BY <1>1 DEF WriteBatch, BoundsInv

LEMMA BackgroundBounds ==
  ASSUME IInv, BoundsInv, Background
  PROVE  BoundsInv'
<1>0. UNCHANGED <<panicked, loaded>>
  BY DEF Background, LoopStep, CloseStep, Receive, Tick, Shutdown, Flush, CancelLoop, CloseChannel,
         CloseDatabase
<1>1. CASE Receive
  <2> DEFINE rs == Append(batch, Head(queue))
  <2>1. /\ Len(queue') <= ChannelSize /\ UNCHANGED <<lost, failures, loop>>
        /\ rs \in Seq(Nat) /\ Len(rs) = Len(batch) + 1 /\ Len(batch) \in Nat
    <3>1. queue # << >> /\ queue' = Tail(queue) /\ Len(queue) \in Nat \ {0} /\ UNCHANGED <<lost, failures, loop>>
      BY <1>1 DEF Receive, IInv, LoopInv
    <3>2. Len(Tail(queue)) = Len(queue) - 1
      BY <3>1 DEF IInv, LoopInv
    <3>3. rs \in Seq(Nat) /\ Len(rs) = Len(batch) + 1 /\ Len(batch) \in Nat
      BY <3>1, SetOfTail, SetOfAppend DEF IInv, LoopInv
    <3> QED
      BY <3>1, <3>2, <3>3, DetailStorageAssumption DEF BoundsInv
  <2>2. flush = "none" /\ Len(batch) < BatchSize /\ BatchSize \in Nat /\ Len(rs) <= BatchSize
    BY <1>1, <2>1, DetailStorageAssumption DEF Receive, BoundsInv
  <2> HIDE DEF rs
  <2>3. CASE WriteBatch(rs, "batch")
    BY <1>0, <2>1, <2>2, <2>3, BatchBounds
  <2>4. CASE Len(rs) < BatchSize /\ batch' = rs /\ UNCHANGED <<counts, flush>>
    BY <1>0, <2>1, <2>2, <2>4 DEF BoundsInv
  <2> QED
    BY <1>1, <2>3, <2>4 DEF Receive, rs
<1>2. ASSUME NEW kind \in {"batch", "last"}, WriteBatch(batch, kind), Tick \/ Shutdown, loop' = loop
      PROVE  BoundsInv'
  <2>1. Len(queue') <= ChannelSize /\ batch \in Seq(Nat) /\ Len(batch) <= BatchSize /\ UNCHANGED <<lost, failures>>
    BY <1>2 DEF Tick, Shutdown, IInv, LoopInv, BoundsInv
  <2> QED
    BY <1>0, <1>2, <2>1, BatchBounds
<1>3. CASE UNCHANGED <<queue, batch, counts, lost, failures, flush>> /\ loop' \in BOOLEAN
  BY <1>0, <1>3 DEF BoundsInv
<1>4. CASE CloseDatabase
  <2>1. lost' \in SUBSET (Nat \X Causes)
    <3>1. \A x \in ToSet(queue) : x \in Nat
      BY DEF ToSet, IInv, LoopInv
    <3> QED
      BY <1>4, <3>1 DEF CloseDatabase, BoundsInv, Causes
  <2>2. Len(queue') <= ChannelSize
    BY <1>4, DetailStorageAssumption DEF CloseDatabase
  <2> QED
    BY <1>0, <1>4, <2>1, <2>2 DEF CloseDatabase, BoundsInv
<1>5. ASSUME NEW ok \in BOOLEAN, Flush(ok) PROVE BoundsInv'
  BY <1>0, <1>5, FlushBounds DEF IInv
<1> QED
  BY <1>1, <1>2, <1>3, <1>4, <1>5
     DEF Background, LoopStep, CloseStep, Tick, Shutdown, CancelLoop, CloseChannel, BoundsInv

LEMMA SendBounds ==
  ASSUME IInv, BoundsInv, NEW r \in Nat, Send(r), UNCHANGED <<batch, loop, flush>>,
         \A w \in Workers : loaded'[w] <= MaxResults
  PROVE  BoundsInv'
<1>1. panicked' \in BOOLEAN /\ Len(queue') <= ChannelSize
  <2>1. panicked' \in BOOLEAN
    BY DEF Send, BoundsInv
  <2>2. CASE queue' = queue
    BY <2>1, <2>2 DEF BoundsInv
  <2>3. CASE Len(queue) < ChannelSize /\ queue' = Append(queue, r)
    <3>1. Len(queue') = Len(queue) + 1 /\ Len(queue) \in Nat /\ ChannelSize \in Nat
      BY <2>3, DetailStorageAssumption DEF IInv, LoopInv
    <3> QED
      BY <2>1, <2>3, <3>1
  <2> QED
    BY <2>2, <2>3 DEF Send
<1>2. /\ lost' \in SUBSET (Nat \X Causes) /\ failures' \in 0 .. MaxFailures
      /\ counts' = [f \in Filters |-> counts'[f]]
  <2>1. CASE UNCHANGED <<counts, lost, failures>>
    BY <2>1 DEF BoundsInv
  <2>2. CASE lost' = lost \cup {<<r, "full">>} /\ UNCHANGED <<counts, failures>>
    BY <2>2 DEF BoundsInv, Causes
  <2> QED
    BY <2>1, <2>2 DEF Send
<1> QED
  BY <1>1, <1>2 DEF BoundsInv

LEMMA BoundsStep ==
  ASSUME IInv, FiguresInv, BoundsInv, [Next]_vars
  PROVE  BoundsInv'
<1>0. loaded \in [Workers -> Nat] /\ MaxResults \in Nat
  BY DetailStorageAssumption DEF FiguresInv, FigureTypes
<1>1. ASSUME UNCHANGED <<queue, batch, counts, lost, failures, loop, flush, panicked>>,
             \A w \in Workers : loaded'[w] <= MaxResults
      PROVE  BoundsInv'
  BY <1>1 DEF BoundsInv
<1>2. ASSUME NEW w \in Workers, LoadError(w) \/ LoadCode(w) PROVE BoundsInv'
  <2>1. errors <= MaxResults /\ codes <= MaxResults
    <3>1. Cardinality(ErrorsOwed) \in Nat /\ Cardinality(CodesOwed) \in Nat
      BY TallyInputs, SomeWorkers DEF FiguresInv
    <3>2. /\ errors + Cardinality(ErrorsOwed) <= due.error /\ codes + Cardinality(CodesOwed) <= due.code
      BY DEF FiguresInv, ErrorTally, CodeTally, Tally
    <3>3. /\ errors \in Nat /\ codes \in Nat /\ due.error \in Nat /\ due.code \in Nat
          /\ due.error <= begun /\ due.code <= begun /\ begun \in Nat /\ begun <= MaxResults
      <4>1. /\ figures["success"] \in Nat /\ figures["failed"] \in Nat /\ figures["skipped"] \in Nat
            /\ begun = figures["success"] + figures["failed"] + figures["skipped"]
            /\ due.error = figures["failed"] /\ due.code <= begun
        BY DEF FiguresInv, FigureTypes, Sums, Filters, Classes
      <4>2. due.error <= begun
        BY <4>1
      <4> QED
        BY <4>1, <4>2, TallyInputs DEF FiguresInv, IInv, ClosedInv
    <3> QED
      BY <1>0, <3>1, <3>2, <3>3
  <2>2. PICK n \in {errors, codes} : loaded' = [loaded EXCEPT ![w] = n]
    BY <1>2 DEF LoadError, LoadCode, Load
  <2>3. \A v \in Workers : loaded'[v] <= MaxResults
    BY <1>0, <2>1, <2>2 DEF BoundsInv
  <2> QED
    BY <1>1, <1>2, <2>3 DEF LoadError, LoadCode, Load
<1>3. ASSUME NEW w \in Workers, StoreError(w) \/ StoreCode(w) \/ Identify(w)
                                  \/ \E c \in Classes, coded \in BOOLEAN : Begin(w, c, coded)
      PROVE  BoundsInv'
  <2>1. UNCHANGED <<queue, batch, counts, lost, failures, loop, flush, panicked, loaded>>
    BY <1>3 DEF StoreError, StoreCode, Identify, Begin
  <2> QED
    BY <1>1, <2>1 DEF BoundsInv
<1>4. ASSUME NEW w \in Workers, CheckOpen(w) \/ SendResult(w) \/ CommitResult(w) PROVE BoundsInv'
  <2>1. \A v \in Workers : loaded'[v] <= MaxResults
    <3>1. loaded' = loaded \/ loaded' = [loaded EXCEPT ![w] = 0]
      BY <1>4 DEF CheckOpen, SendResult, CommitResult, Finish
    <3>2. \A v \in Workers : loaded'[v] \in {0, loaded[v]}
      BY <1>0, <3>1
    <3> QED
      BY <1>0, <3>2 DEF BoundsInv
  <2>2. life = "open" /\ number[w] \in Nat
    BY <1>4, StorageIsOpen DEF CheckOpen, SendResult, CommitResult, IInv, NumberInv
  <2>3. CASE SendResult(w)
    <3>1. CASE Send(number[w])
      BY <2>1, <2>2, <2>3, <3>1, SendBounds DEF SendResult
    <3>2. CASE CountOne(number[w])
      BY <2>1, <2>3, <3>2 DEF SendResult, CountOne, Counted, BoundsInv
    <3> QED
      BY <2>3, <3>1, <3>2 DEF SendResult
  <2>4. CASE CheckOpen(w) /\ backend = "memory"
    <3>1. /\ UNCHANGED <<queue, batch, lost, failures, loop, flush, panicked>>
          /\ counts' = Counted({number[w]})
      BY <2>2, <2>4 DEF CheckOpen, WriteMemory
    <3>2. counts' = [f \in Filters |-> counts'[f]]
      BY <3>1 DEF Counted
    <3> QED
      BY <2>1, <3>1, <3>2 DEF BoundsInv
  <2>5. CASE CheckOpen(w) /\ backend # "memory"
    BY <1>1, <2>1, <2>2, <2>5 DEF CheckOpen
  <2>6. CASE CommitResult(w)
    <3>1. PICK ok \in BOOLEAN : CommitOne(number[w], ok)
      BY <2>6 DEF CommitResult
    <3>2. UNCHANGED <<queue, batch, counts, loop, flush, panicked>>
      BY <2>6, <3>1 DEF CommitResult, CommitOne
    <3>3. failures' \in 0 .. MaxFailures
      BY <3>1, DetailStorageAssumption DEF CommitOne, Fails, BoundsInv
    <3>4. lost' \in SUBSET (Nat \X Causes)
      BY <2>2, <3>1 DEF CommitOne, BoundsInv, Causes
    <3> QED
      BY <2>1, <3>2, <3>3, <3>4 DEF BoundsInv
  <2> QED
    BY <1>4, <2>3, <2>4, <2>5, <2>6
<1>5. CASE Export \/ Close \/ UNCHANGED vars
  <2>1. UNCHANGED <<queue, batch, counts, lost, failures, loop, flush, panicked, loaded>>
    BY <1>5 DEF Export, Close, Flag, vars
  <2> QED
    BY <1>1, <2>1 DEF BoundsInv
<1> QED
  BY <1>2, <1>3, <1>4, <1>5, BackgroundBounds DEF Next, Collect

-----------------------------------------------------------------------------
(* The theorems about the details and the figures.                         *)

AllInv == IInv /\ ClassInv /\ CurType /\ HeldInv /\ FiguresInv /\ ExportInv /\ BoundsInv

LEMMA AllInvariant == Spec => []AllInv
<1>1. Init => AllInv
  <2> SUFFICES ASSUME Init PROVE AllInv
    OBVIOUS
  <2>1. ExportInv
    BY DEF Init, ExportInv
  <2>2. BoundsInv
    <3>1. loop \in BOOLEAN /\ panicked \in BOOLEAN
      BY Zenon DEF Init, StorageInit
    <3>2. counts = [f \in Filters |-> counts[f]]
      BY DEF Init, StorageInit
    <3>3. \A w \in Workers : loaded[w] <= MaxResults
      BY DetailStorageAssumption DEF Init
    <3>4. /\ Len(queue) <= ChannelSize /\ Len(batch) <= BatchSize /\ Len(batch) # BatchSize
          /\ failures \in 0 .. MaxFailures /\ lost = {}
      BY DetailStorageAssumption DEF Init, StorageInit
    <3> QED
      BY <3>1, <3>2, <3>3, <3>4 DEF BoundsInv
  <2> QED
    BY <2>1, <2>2, InitInv, InitHeld, InitFigures DEF AllInv
<1>2. AllInv /\ [Next]_vars => AllInv'
  BY InvStep, ClassStep, HeldStep, FiguresStep, ExportStep, BoundsStep DEF AllInv, IInv
<1> QED
  BY <1>1, <1>2, PTL DEF Spec

LEMMA RowsIn ==
  ASSUME NEW s \in Seq(Nat), NEW S, ToSet(s) \subseteq S
  PROVE  s \in Seq(S)
<1>1. Len(s) \in Nat /\ s = [i \in 1 .. Len(s) |-> s[i]] /\ DOMAIN s = 1 .. Len(s)
  OBVIOUS
<1>2. \A i \in 1 .. Len(s) : s[i] \in S
  BY <1>1 DEF ToSet
<1> QED
  BY <1>1, <1>2

\* What the counters count is stored, or ahead of what is stored.
LEMMA CountedAhead ==
  ASSUME AllInv, backend # "sqlite"
  PROVE  CountedOnes = ToSet(table) \cup Ahead
<1>1. FailedOnes = {x[1] : x \in {y \in lost : y[2] = "failed"}}
  BY DEF FailedOnes
<1>2. CASE backend = "badger"
  BY <1>1, <1>2 DEF CountedOnes, Ahead
<1>3. CASE backend = "memory"
  <2>1. flush = "none" /\ lost = {} /\ \A w \in Workers : pc[w] # "commit"
    BY <1>3 DEF AllInv, IInv, LoopInv
  <2>2. Uncommitted = {} /\ FailedOnes = {}
    BY <2>1 DEF Uncommitted, FailedOnes
  <2> QED
    BY <1>3, <2>2 DEF CountedOnes, Ahead
<1> QED
  BY <1>2, <1>3 DEF AllInv, IInv, LoopInv, Backends

LEMMA OfClassCounts ==
  ASSUME AllInv, NEW f \in Filters
  PROVE  /\ Len(Query(0, MaxResults, f)) <= Count(f)
         /\ Readable => Count(f) <= Len(Query(0, MaxResults, f))
                                      + Cardinality({r \in Ahead : MatchFilter(r, f)})
<1> DEFINE S == ToSet(table)
           rows == Len(Query(0, MaxResults, f))
           A == OfClass(Ahead, f)
<1>0. Cardinality({r \in Ahead : MatchFilter(r, f)}) = Cardinality(A)
  BY Zenon DEF OfClass
<1>1. /\ table \in Seq(Nat) /\ IsInjective(table) /\ Len(table) <= MaxResults
      /\ Len(table) \in Nat /\ DOMAIN table = 1 .. Len(table)
  BY Fits DEF AllInv, IInv, LoopInv, HeldInv, ApartInv, TableInv, WrittenFits
<1>2. IsFiniteSet(CountedOnes) /\ OfClass(CountedOnes, f) \in SUBSET CountedOnes
      /\ OfClass(S, f) \in SUBSET OfClass(CountedOnes, f)
  BY FiniteWritten DEF AllInv, OfClass, CountedOnes
<1>3. /\ IsFiniteSet(OfClass(CountedOnes, f)) /\ IsFiniteSet(OfClass(S, f))
      /\ Cardinality(OfClass(S, f)) <= Cardinality(OfClass(CountedOnes, f))
      /\ Cardinality(OfClass(CountedOnes, f)) \in Nat /\ Cardinality(OfClass(S, f)) \in Nat
  BY <1>2, FS_Subset, FS_CardinalityType
<1>4. Readable => rows = Cardinality(OfClass(S, f))
  BY <1>1, QueryRows
<1>5. ~Readable => rows = 0
  BY DEF Query
<1>6. CASE backend = "sqlite"
  <2>1. Readable => Count(f) = Cardinality(OfClass(S, f))
    <3> DEFINE M == {r \in Nat : MatchFilter(r, f)}
    <3>1. {i \in 1 .. Len(table) : MatchFilter(table[i], f)} = {i \in 1 .. Len(table) : table[i] \in M}
      BY <1>1
    <3>2. OfClass(S, f) = S \cap M
      BY <1>1 DEF OfClass, ToSet
    <3>3. Cardinality({i \in 1 .. Len(table) : table[i] \in M}) = Cardinality(S \cap M)
      BY <1>1, ChosenOnce
    <3> QED
      BY <1>6, <3>1, <3>2, <3>3 DEF Count
  <2>2. ~Readable => Count(f) = 0
    BY <1>6 DEF Count
  <2>3. Cardinality(A) = 0
    BY <1>6, FS_EmptySet DEF Ahead, OfClass
  <2>4. rows \in Nat /\ Count(f) = rows
    BY <1>3, <1>4, <1>5, <2>1, <2>2
  <2> HIDE DEF A, rows
  <2>5. Cardinality({r \in Ahead : MatchFilter(r, f)}) = 0
    BY <1>0, <2>3, Zenon
  <2>6. rows <= Count(f) /\ Count(f) <= rows + 0
    BY <2>4
  <2> QED
    BY <2>5, <2>6, Zenon DEF rows
<1>7. CASE backend # "sqlite"
  <2>1. Count(f) = Cardinality(OfClass(CountedOnes, f))
    BY <1>7 DEF Count, AllInv, HeldInv, CountsInv
  <2>2. CountedOnes = S \cup Ahead
    BY <1>7, CountedAhead
  <2>3. OfClass(CountedOnes, f) = OfClass(S, f) \cup A /\ A \in SUBSET CountedOnes
    BY <2>2 DEF OfClass
  <2>4. IsFiniteSet(A) /\ IsFiniteSet(OfClass(S, f) \cap A)
    <3>1. IsFiniteSet(A)
      BY <1>2, <2>3, FS_Subset
    <3>2. OfClass(S, f) \cap A \in SUBSET A
      OBVIOUS
    <3> QED
      BY <3>1, <3>2, FS_Subset
  <2>5. Cardinality(OfClass(S, f) \cup A)
          = Cardinality(OfClass(S, f)) + Cardinality(A) - Cardinality(OfClass(S, f) \cap A)
    BY <1>3, <2>4, FS_Union
  <2>6. Cardinality(A) \in Nat /\ Cardinality(OfClass(S, f) \cap A) \in Nat
    BY <2>4, FS_CardinalityType
  <2>7. Count(f) <= Cardinality(OfClass(S, f)) + Cardinality(A)
    BY <1>3, <2>1, <2>3, <2>5, <2>6
  <2>8. Cardinality(OfClass(S, f)) <= Count(f) /\ Count(f) \in Nat
    BY <1>3, <2>1
  <2>9. rows <= Count(f) /\ (Readable => Count(f) <= rows + Cardinality(A))
    <3> HIDE DEF A, rows, S
    <3> QED
      BY <1>4, <1>5, <2>7, <2>8
  <2> QED
    BY <1>0, <2>9, Zenon DEF rows
<1> QED
  BY <1>6, <1>7

\* The state of the collector and of its storage keeps its type: the channel and the batch stay
\* within their sizes and no figure or counter exceeds the requests of the run, for any
\* number of workers.
THEOREM CollectorTypeCorrect == Spec => []TypeOK
<1>1. ASSUME AllInv PROVE TypeOK
  <2>0. IInv /\ HeldInv /\ FiguresInv /\ ExportInv /\ BoundsInv /\ WrittenFits
    BY <1>1, Fits DEF AllInv
  <2>1. MaxResults \in Nat
    BY DetailStorageAssumption
  <2>2. /\ ToSet(queue) \subseteq Results /\ ToSet(batch) \subseteq Results
        /\ ToSet(table) \subseteq Results /\ LostOnes \subseteq Results
    BY <2>0 DEF IInv, PlaceInv, WrittenFits
  <2>3. queue \in Seq(Results) /\ batch \in Seq(Results) /\ table \in Seq(Results)
    BY <2>0, <2>2, RowsIn DEF IInv, LoopInv
  <2>4. lost \subseteq Results \X Causes
    <3> SUFFICES ASSUME NEW x \in lost PROVE x \in Results \X Causes
      OBVIOUS
    <3>1. x \in Nat \X Causes /\ x[1] \in Results
      BY <2>0, <2>2 DEF BoundsInv, LostOnes
    <3> QED
      BY <3>1
  <2>5. counts \in [Filters -> 0 .. MaxResults]
    <3>1. ASSUME NEW f \in Filters PROVE counts[f] \in 0 .. MaxResults
      <4>1. CASE backend = "sqlite"
        BY <2>0, <2>1, <4>1 DEF HeldInv, CountsInv
      <4>2. CASE backend # "sqlite"
        <5>1. counts[f] = Cardinality(OfClass(CountedOnes, f))
          BY <2>0, <4>2 DEF HeldInv, CountsInv
        <5>2. OfClass(CountedOnes, f) \in SUBSET (1 .. MaxResults)
          <6>1. CountedOnes \subseteq 1 .. Len(class)
            BY <2>0, FiniteWritten
          <6>2. Len(class) \in Nat /\ Len(class) <= MaxResults
            BY <2>0 DEF WrittenFits, IInv, NumberInv
          <6>3. OfClass(CountedOnes, f) \subseteq CountedOnes
            BY DEF OfClass
          <6>4. (1 .. Len(class)) \subseteq 1 .. MaxResults
            BY <2>1, <6>2
          <6> QED
            BY <6>1, <6>3, <6>4
        <5>3. IsFiniteSet(1 .. MaxResults) /\ Cardinality(1 .. MaxResults) = MaxResults
          BY <2>1, UpTo
        <5>4. /\ Cardinality(OfClass(CountedOnes, f)) <= MaxResults
              /\ Cardinality(OfClass(CountedOnes, f)) \in Nat
          BY <5>2, <5>3, FS_Subset, FS_CardinalityType
        <5> QED
          BY <2>1, <5>1, <5>4
      <4> QED
        BY <4>1, <4>2
    <3> QED
      BY <2>0, <3>1 DEF BoundsInv
  <2>6. StorageTypeOK
    <3>1. class \in Seq(Classes) /\ Len(class) <= MaxResults
      BY <2>0 DEF IInv, NumberInv, WrittenFits
    <3> QED
      BY <2>0, <2>3, <2>4, <2>5, <3>1 DEF StorageTypeOK, BoundsInv, IInv, LoopInv, Causes
  <2>7. /\ figures["success"] \in Nat /\ figures["failed"] \in Nat /\ figures["skipped"] \in Nat
        /\ figures["all"] \in Nat /\ begun \in Nat /\ begun <= MaxResults
    BY <2>0 DEF FiguresInv, FigureTypes, Filters, Classes, IInv, ClosedInv
  <2>8. \A f \in Filters : figures[f] \in 0 .. MaxResults
    <3>1. /\ figures["all"] = begun
          /\ figures["all"] = figures["success"] + figures["failed"] + figures["skipped"]
      BY <2>0 DEF FiguresInv, Sums
    <3> QED
      BY <2>1, <2>7, <3>1 DEF Filters, Classes
  <2>9. due.error <= MaxResults /\ due.code <= MaxResults
    <3>1. due.error = figures["failed"] /\ due.code <= begun /\ due.code \in Nat
      BY <2>0 DEF FiguresInv, Sums, FigureTypes
    <3> QED
      BY <2>1, <2>7, <2>8, <3>1 DEF Filters, Classes
  <2>10. errors <= MaxResults /\ codes <= MaxResults
    <3>1. Cardinality(ErrorsOwed) \in Nat /\ Cardinality(CodesOwed) \in Nat
      BY <2>0, TallyInputs, SomeWorkers DEF FiguresInv
    <3>2. errors + Cardinality(ErrorsOwed) <= due.error /\ codes + Cardinality(CodesOwed) <= due.code
      BY <2>0 DEF FiguresInv, ErrorTally, CodeTally, Tally
    <3>3. errors \in Nat /\ codes \in Nat /\ due.error \in Nat /\ due.code \in Nat
      BY <2>0, TallyInputs DEF FiguresInv
    <3> QED
      BY <2>1, <2>9, <3>1, <3>2, <3>3
  <2>11. durations = Len(class) /\ durations \in Nat /\ durations <= MaxResults
    BY <2>0 DEF FiguresInv, Sums, FigureTypes, WrittenFits
  <2>12. \A w \in Workers : number[w] \in Nat /\ number[w] <= MaxResults
    <3> SUFFICES ASSUME NEW w \in Workers PROVE number[w] \in Nat /\ number[w] <= MaxResults
      OBVIOUS
    <3>1. number[w] \in Nat /\ number[w] <= Len(class) /\ Len(class) \in Nat /\ Len(class) <= MaxResults
      BY <2>0 DEF IInv, NumberInv, WrittenFits
    <3> QED
      BY <2>1, <3>1
  <2>13. number \in [Workers -> 0 .. MaxResults] /\ loaded \in [Workers -> 0 .. MaxResults]
    <3>1. number \in [Workers -> Nat] /\ loaded \in [Workers -> Nat]
      BY <2>0 DEF IInv, NumberInv, FiguresInv, FigureTypes
    <3>2. \A w \in Workers : loaded[w] <= MaxResults
      BY <2>0 DEF BoundsInv
    <3> QED
      BY <2>1, <2>12, <3>1, <3>2
  <2>14. exported = NotExported \/ exported \in Seq(Results)
    <3> SUFFICES ASSUME exported # NotExported PROVE exported \in Seq(Results)
      OBVIOUS
    <3>1. exported \in Seq(Nat) /\ ToSet(exported) \subseteq Results
      BY <2>0, <2>2 DEF ExportInv
    <3> QED
      BY <3>1, RowsIn
  <2>15. figures \in [Filters -> 0 .. MaxResults] /\ due \in [error : 0 .. MaxResults, code : 0 .. MaxResults]
    <3>1. figures \in [Filters -> Nat] /\ due \in [error : Nat, code : Nat]
      BY <2>0 DEF FiguresInv, FigureTypes
    <3>2. figures \in [Filters -> 0 .. MaxResults]
      BY <2>8, <3>1
    <3>3. due.error \in 0 .. MaxResults /\ due.code \in 0 .. MaxResults
      BY <2>1, <2>9, <3>1
    <3>4. due \in [error : 0 .. MaxResults, code : 0 .. MaxResults]
      BY <3>1, <3>3
    <3> QED
      BY <3>2, <3>4
  <2>16. begun \in 0 .. MaxResults /\ errors \in 0 .. MaxResults /\ codes \in 0 .. MaxResults
         /\ durations \in 0 .. MaxResults
    <3>1. errors \in Nat /\ codes \in Nat
      BY <2>0, TallyInputs DEF FiguresInv
    <3> QED
      BY <2>1, <2>7, <2>10, <2>11, <3>1
  <2>17. /\ pc \in [Workers -> Steps] /\ status \in [Workers -> BOOLEAN] /\ crossed \subseteq {"error", "code"}
         /\ cur \in [Workers -> Classes \cup {NoClass}]
    BY <2>0 DEF FiguresInv, FigureTypes
  <2> QED
    BY <2>6, <2>13, <2>14, <2>15, <2>16, <2>17 DEF TypeOK, Steps
<1> QED
  BY <1>1, AllInvariant, PTL

\* Every result that Write was called with is in the channel, in the batch, stored or lost, in
\* one of them and once, whatever writes fail and however full the channel is; Close leaves
\* none behind; losses have a cause; and the page shows stored results, all of them in memory.
THEOREM AlwaysAccounted == Spec => []Accounted
<1>1. ASSUME AllInv PROVE Accounted
  <2>1. ~panicked /\ LossesExplained
    BY <1>1 DEF AllInv, IInv, ClosedInv
  <2>2. InOnePlace
    BY <1>1, OnePlace DEF AllInv, HeldInv
  <2>3. NoneLeft
    <3>1. life = "closed" => queue = << >> /\ batch = << >>
      BY <1>1 DEF AllInv, IInv, LoopInv
    <3> QED
      BY <1>1, <3>1, SetOfEmpty DEF AllInv, IInv, NoneLeft, PlaceInv, LostOnes
  <2>4. exported # NotExported => /\ ToSet(exported) \subseteq ToSet(table)
                                  /\ backend = "memory" => ToSet(exported) = Written
    BY <1>1 DEF AllInv, ExportInv
  <2> QED
    BY <2>1, <2>2, <2>3, <2>4 DEF Accounted, Explained
<1> QED
  BY <1>1, AllInvariant, PTL

\* With no Collect under way the figures agree, and a total that falls short was read and
\* written by two workers at a time; the count of the details covers the rows, and is ahead of
\* them by no more than what Badger has yet to commit, or failed to commit.
THEOREM FiguresAlwaysSettle == Spec => []FiguresSettle
<1>1. ASSUME AllInv PROVE FiguresSettle
  <2>1. CountsCoverRows
    BY <1>1, OfClassCounts DEF CountsCoverRows
  <2>2. ASSUME \A w \in Workers : pc[w] = "idle"
        PROVE  /\ figures["all"] = figures["success"] + figures["failed"] + figures["skipped"]
               /\ figures["all"] = Len(class) /\ durations = Len(class)
               /\ errors <= due.error /\ (errors < due.error => "error" \in crossed)
               /\ codes <= due.code /\ (codes < due.code => "code" \in crossed)
    <3>1. Early = {} /\ ErrorsOwed = {} /\ CodesOwed = {} /\ Cardinality({}) = 0
      BY <2>2, FS_EmptySet DEF Early, ErrorsOwed, CodesOwed
    <3>2. FiguresInv /\ NumberInv
      BY <1>1 DEF AllInv, IInv
    <3>3. /\ figures["all"] = figures["success"] + figures["failed"] + figures["skipped"]
          /\ figures["all"] = Len(class) /\ durations = Len(class)
      <4>1. begun = Len(class) + Cardinality({}) /\ Len(class) \in Nat
        <5>1. begun = Len(class) + Cardinality(Early)
          BY <3>2 DEF FiguresInv, Sums
        <5>2. Len(class) \in Nat
          BY <3>2 DEF NumberInv
        <5> QED
          BY <3>1, <5>1, <5>2
      <4>2. begun = Len(class)
        BY <3>1, <4>1
      <4> QED
        BY <3>2, <4>2 DEF FiguresInv, Sums
    <3>4. errors \in Nat /\ codes \in Nat /\ due.error \in Nat /\ due.code \in Nat
      BY <3>2, TallyInputs DEF FiguresInv
    <3>5. errors <= due.error /\ (errors < due.error => "error" \in crossed)
      BY <3>1, <3>2, <3>4 DEF FiguresInv, ErrorTally, Tally
    <3>6. codes <= due.code /\ (codes < due.code => "code" \in crossed)
      BY <3>1, <3>2, <3>4 DEF FiguresInv, CodeTally, Tally
    <3> QED
      BY <3>3, <3>5, <3>6
  <2> QED
    BY <2>1, <2>2 DEF FiguresSettle
<1> QED
  BY <1>1, AllInvariant, PTL
=============================================================================
