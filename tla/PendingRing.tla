---------------------------- MODULE PendingRing ----------------------------
(***************************************************************************)
(* The ring of pending tasks in the master's queue (distributed/master/    *)
(* queue.go): Submit appends and doubles a full ring, MoveToRunning and    *)
(* Cancel remove a task anywhere, by compaction unless it is the last one. *)
(* All run under the queue's lock, so each is one step.  Compaction leaves *)
(* the tail pointer one past the end of the new array: Submit is safe only *)
(* because such a ring is full and grows first.                            *)
(*                                                                         *)
(* PopPending has no caller and is not modelled: see the README.           *)
(***************************************************************************)
EXTENDS Integers

CONSTANTS
  Tasks,        \* task IDs; one that left the ring stands for a fresh one
  NoTask,       \* a nil slot
  InitialCap    \* NewTaskQueue's capacity, 10000 in the code

ASSUME PendingRingAssumption ==
  /\ InitialCap \in Nat \ {0}
  /\ NoTask \notin Tasks

VARIABLES
  pendingQueue,   \* the array
  pendingHead,
  pendingTail,
  pendingLen,
  pendingCap,
  taken           \* the task the last removal handed to its caller

ringVars == <<pendingQueue, pendingHead, pendingTail, pendingLen, pendingCap, taken>>

Slot == Tasks \cup {NoTask}

TypeOK ==
  /\ pendingCap \in Nat \ {0}
  /\ pendingLen \in 0 .. pendingCap
  /\ pendingHead \in 0 .. pendingCap - 1
  /\ pendingTail \in 0 .. pendingCap
  /\ pendingQueue \in [0 .. pendingCap - 1 -> Slot]
  /\ taken \in Slot

Init ==
  /\ pendingQueue = [i \in 0 .. InitialCap - 1 |-> NoTask]
  /\ pendingHead = 0
  /\ pendingTail = 0
  /\ pendingLen = 0
  /\ pendingCap = InitialCap
  /\ taken = NoTask

\* The task at offset i from the head.
At(i) == pendingQueue[(pendingHead + i) % pendingCap]

\* GetPending: a copy of the window.
GetPending == [i \in 1 .. pendingLen |-> At(i - 1)]

Holds(t) == \E i \in 0 .. pendingLen - 1 : At(i) = t

\* Mutant: the tail wraps where the array ends, not where the copy ends.
RoomMutant ==
  [array |-> [i \in 0 .. 2 * pendingCap - 1 |->
                IF i < pendingLen THEN pendingQueue[i] ELSE NoTask],
   head  |-> 0, tail |-> pendingTail, cap |-> 2 * pendingCap]

\* The ring as Submit leaves it before it writes: grown if it was full.
Room ==
  IF pendingLen < pendingCap
  THEN [array |-> pendingQueue, head |-> pendingHead, tail |-> pendingTail, cap |-> pendingCap]
  ELSE [array |-> [i \in 0 .. 2 * pendingCap - 1 |->
                     IF i < pendingLen THEN pendingQueue[i] ELSE NoTask],
        head |-> 0, tail |-> pendingLen, cap |-> 2 * pendingCap]

Submit(t) ==
  /\ ~Holds(t)
  /\ pendingQueue' = [Room.array EXCEPT ![Room.tail] = t]
  /\ pendingHead' = Room.head
  /\ pendingTail' = (Room.tail + 1) % Room.cap
  /\ pendingLen' = pendingLen + 1
  /\ pendingCap' = Room.cap
  /\ UNCHANGED taken

\* Mutant: the copy does not close the gap of the removed task.
CompactMutant(i) ==
  /\ i < pendingLen - 1
  /\ pendingQueue' = [j \in 0 .. pendingLen - 2 |-> At(j)]
  /\ pendingHead' = 0
  /\ pendingTail' = pendingLen - 1
  /\ pendingCap' = pendingLen - 1

\* A task that is not the last: copy the others to an array of their number.
Compact(i) ==
  /\ i < pendingLen - 1
  /\ pendingQueue' = [j \in 0 .. pendingLen - 2 |-> IF j < i THEN At(j) ELSE At(j + 1)]
  /\ pendingHead' = 0
  /\ pendingTail' = pendingLen - 1
  /\ pendingCap' = pendingLen - 1

\* The last task: step the tail back, leaving the slot as it is.
DropLast(i) ==
  /\ i = pendingLen - 1
  /\ pendingTail' = (pendingTail - 1 + pendingCap) % pendingCap
  /\ UNCHANGED <<pendingQueue, pendingHead, pendingCap>>

\* MoveToRunning, and Cancel of a pending task: the same removal twice.
Remove(i) ==
  /\ Compact(i) \/ DropLast(i)
  /\ pendingLen' = pendingLen - 1
  /\ taken' = At(i)

Next ==
  \/ \E t \in Tasks : Submit(t)
  \/ \E i \in 0 .. pendingLen - 1 : Remove(i)

Spec == Init /\ [][Next]_ringVars
-----------------------------------------------------------------------------
(* Properties.                                                             *)

\* The fields keep their types, and Submit never writes outside the array,
\* although compaction leaves the tail pointer there: whenever Submit does not
\* grow the ring, the slot at the tail exists and is outside the window, so no
\* pending task is overwritten.
TailIsFree ==
  /\ TypeOK
  /\ pendingLen < pendingCap =>
       /\ pendingTail < pendingCap
       /\ \A i \in 0 .. pendingLen - 1 : (pendingHead + i) % pendingCap # pendingTail

\* Growing, compacting and stepping back lose, duplicate and reorder no task:
\* what GetPending returns is the list of the pending tasks, oldest first,
\* and a removal hands out the task it takes from the list.
List == INSTANCE PendingList WITH pending <- GetPending
ImplementsList == List!Spec
=============================================================================
