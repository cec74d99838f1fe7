------------------------ MODULE PendingRingProofs --------------------------
(***************************************************************************)
(* The ring of pending tasks implements a list, for every set of tasks and *)
(* every initial capacity.  The inductive invariant says what the code     *)
(* relies on without writing it down: while nothing pops, the head stays   *)
(* at 0, and the tail is the length of the window unless the ring is full. *)
(***************************************************************************)
EXTENDS PendingRing, SequenceTheorems, TLAPS

\* A task written to a ring with room lies past the window; a full ring may
\* have its tail at 0 (filled by Submit) or at its capacity (compacted).
RingInv ==
  /\ TypeOK
  /\ pendingHead = 0
  /\ pendingLen < pendingCap => pendingTail = pendingLen
  /\ pendingLen = pendingCap => pendingTail \in {0, pendingCap}

-----------------------------------------------------------------------------
(* Arithmetic of the indices.                                              *)

\* An index inside the array is its own remainder.
LEMMA ModSmall ==
  ASSUME NEW n \in Nat \ {0}, NEW a \in 0 .. n - 1
  PROVE  a % n = a
OBVIOUS

\* An index one lap ahead falls back on itself.
LEMMA ModLap ==
  ASSUME NEW n \in Nat \ {0}, NEW a \in 0 .. n - 1
  PROVE  (a + n) % n = a
OBVIOUS

\* A lap ahead of the start is the start.
LEMMA ModFull ==
  ASSUME NEW n \in Nat \ {0}
  PROVE  n % n = 0
OBVIOUS
-----------------------------------------------------------------------------
(* The window GetPending copies.                                           *)

\* With the head at 0 the offsets are the indices.
LEMMA WindowAt ==
  ASSUME RingInv, NEW i \in 0 .. pendingLen - 1
  PROVE  /\ At(i) = pendingQueue[i]
         /\ i \in 0 .. pendingCap - 1
<1>1. /\ pendingCap \in Nat \ {0}
      /\ pendingLen \in 0 .. pendingCap
      /\ pendingHead = 0
  BY DEF RingInv, TypeOK
<1>2. i \in 0 .. pendingCap - 1 /\ pendingHead + i = i
  BY <1>1
<1>3. (pendingHead + i) % pendingCap = i
  BY <1>1, <1>2, ModSmall
<1> QED
  BY <1>2, <1>3 DEF At

\* GetPending is the part of the array that starts at 0.
LEMMA Window ==
  RingInv => /\ GetPending = [j \in 1 .. pendingLen |-> pendingQueue[j - 1]]
             /\ GetPending \in Seq(Slot)
             /\ Len(GetPending) = pendingLen
             /\ DOMAIN GetPending = 1 .. pendingLen
<1> SUFFICES ASSUME RingInv
             PROVE  /\ GetPending = [j \in 1 .. pendingLen |-> pendingQueue[j - 1]]
                    /\ GetPending \in Seq(Slot)
                    /\ Len(GetPending) = pendingLen
                    /\ DOMAIN GetPending = 1 .. pendingLen
  OBVIOUS
<1>1. /\ pendingCap \in Nat \ {0}
      /\ pendingLen \in 0 .. pendingCap
      /\ pendingQueue \in [0 .. pendingCap - 1 -> Slot]
  BY DEF RingInv, TypeOK
<1>2. \A i \in 1 .. pendingLen :
        At(i - 1) = pendingQueue[i - 1] /\ pendingQueue[i - 1] \in Slot
  <2> TAKE i \in 1 .. pendingLen
  <2>1. i - 1 \in 0 .. pendingLen - 1
    BY <1>1
  <2> QED
    BY <1>1, <2>1, WindowAt
<1>3. GetPending = [j \in 1 .. pendingLen |-> pendingQueue[j - 1]]
  BY <1>2 DEF GetPending
<1>4. pendingLen \in Nat /\ GetPending \in [1 .. pendingLen -> Slot]
  BY <1>1, <1>2, <1>3
<1> QED
  BY <1>3, <1>4
-----------------------------------------------------------------------------
(* Submit.                                                                 *)

\* What Submit writes into: an array with a free slot right after the window.
LEMMA RoomFor ==
  ASSUME RingInv
  PROVE  /\ Room.head = 0
         /\ Room.tail = pendingLen
         /\ Room.cap \in Nat \ {0}
         /\ pendingLen < Room.cap
         /\ Room.array \in [0 .. Room.cap - 1 -> Slot]
         /\ \A i \in 0 .. pendingLen - 1 : Room.array[i] = pendingQueue[i]
<1>1. /\ pendingCap \in Nat \ {0}
      /\ pendingLen \in 0 .. pendingCap
      /\ pendingQueue \in [0 .. pendingCap - 1 -> Slot]
      /\ NoTask \in Slot
  BY DEF RingInv, TypeOK, Slot
<1>2. CASE pendingLen < pendingCap
  BY <1>1, <1>2 DEF Room, RingInv
<1>3. CASE ~(pendingLen < pendingCap)
  <2>1. pendingLen = pendingCap /\ 2 * pendingCap \in Nat \ {0}
    BY <1>1, <1>3
  <2> DEFINE grown == [i \in 0 .. 2 * pendingCap - 1 |->
                         IF i < pendingLen THEN pendingQueue[i] ELSE NoTask]
  <2>2. /\ Room.head = 0
        /\ Room.tail = pendingLen
        /\ Room.cap = 2 * pendingCap
        /\ Room.array = grown
    BY <1>3 DEF Room
  <2>3. \A i \in 0 .. 2 * pendingCap - 1 :
          i < pendingLen => pendingQueue[i] \in Slot
    BY <1>1, <2>1
  <2>4. grown \in [0 .. 2 * pendingCap - 1 -> Slot]
    BY <1>1, <2>1, <2>3
  <2>5. \A i \in 0 .. pendingLen - 1 : grown[i] = pendingQueue[i]
    BY <1>1, <2>1
  <2> HIDE DEF grown
  <2> QED
    BY <1>1, <2>1, <2>2, <2>4, <2>5
<1> QED
  BY <1>2, <1>3

\* Append, element by element.
LEMMA AppendAs ==
  ASSUME NEW S, NEW s \in Seq(S), NEW e \in S
  PROVE  Append(s, e) = [i \in 1 .. Len(s) + 1 |-> IF i = Len(s) + 1 THEN e ELSE s[i]]
<1>1. /\ Append(s, e) \in Seq(S)
      /\ Len(Append(s, e)) = Len(s) + 1
      /\ \A i \in 1 .. Len(s) : Append(s, e)[i] = s[i]
      /\ Append(s, e)[Len(s) + 1] = e
  BY AppendProperties
<1>2. Len(s) \in Nat
  BY LenProperties
<1>3. Append(s, e) = [i \in 1 .. Len(s) + 1 |-> Append(s, e)[i]]
  <2>1. PICK a \in Seq(S) : a = Append(s, e)
    BY <1>1
  <2>2. a \in [1 .. Len(a) -> S]
    BY LenProperties
  <2> QED
    BY <1>1, <1>2, <2>1, <2>2
<1> QED
  BY <1>1, <1>2, <1>3

\* The window after Submit is the window before it and the new task.
LEMMA SubmitStep ==
  ASSUME RingInv, NEW t \in Tasks, Submit(t)
  PROVE  RingInv' /\ GetPending' = Append(GetPending, t)
<1>1. /\ pendingLen \in Nat
      /\ t \in Slot
  BY DEF RingInv, TypeOK, Slot
<1>2. PICK cap \in Nat \ {0} : cap = Room.cap
  BY RoomFor
<1>3. PICK arr \in [0 .. cap - 1 -> Slot] : arr = Room.array
  BY <1>2, RoomFor
<1>4. /\ pendingLen < cap
      /\ \A i \in 0 .. pendingLen - 1 : arr[i] = pendingQueue[i]
  BY <1>2, <1>3, RoomFor
<1>5. /\ pendingQueue' = [arr EXCEPT ![pendingLen] = t]
      /\ pendingHead' = 0
      /\ pendingTail' = (pendingLen + 1) % cap
      /\ pendingLen' = pendingLen + 1
      /\ pendingCap' = cap
      /\ taken' = taken
  BY <1>2, <1>3, RoomFor DEF Submit
<1>6. pendingTail' = IF pendingLen + 1 = cap THEN 0 ELSE pendingLen + 1
  <2>1. CASE pendingLen + 1 = cap
    BY <1>2, <1>5, <2>1, ModFull
  <2>2. CASE pendingLen + 1 # cap
    <3>1. pendingLen + 1 \in 0 .. cap - 1
      BY <1>1, <1>2, <1>4, <2>2
    <3> QED
      BY <1>2, <1>5, <2>2, <3>1, ModSmall
  <2> QED
    BY <2>1, <2>2
<1>7. pendingLen \in 0 .. cap - 1
  BY <1>1, <1>2, <1>4
<1>8. pendingQueue' \in [0 .. cap - 1 -> Slot]
  BY <1>1, <1>3, <1>5, <1>7
<1>9. RingInv'
  BY <1>1, <1>2, <1>4, <1>5, <1>6, <1>8 DEF RingInv, TypeOK
<1>10. /\ pendingQueue'[pendingLen] = t
       /\ \A i \in 0 .. pendingLen - 1 : pendingQueue'[i] = pendingQueue[i]
  BY <1>1, <1>3, <1>4, <1>5, <1>7
<1>11. GetPending' = [i \in 1 .. pendingLen + 1 |-> pendingQueue'[i - 1]]
  <2>1. (GetPending = [j \in 1 .. pendingLen |-> pendingQueue[j - 1]])'
    BY <1>9, Window, PTL
  <2> QED
    BY <1>5, <2>1
<1>12. \A i \in 1 .. pendingLen + 1 :
         GetPending'[i] = IF i = pendingLen + 1 THEN t ELSE GetPending[i]
  <2> TAKE i \in 1 .. pendingLen + 1
  <2>1. GetPending'[i] = pendingQueue'[i - 1]
    BY <1>11
  <2>2. CASE i = pendingLen + 1
    BY <1>1, <1>10, <2>1, <2>2
  <2>3. CASE i # pendingLen + 1
    <3>1. i \in 1 .. pendingLen /\ i - 1 \in 0 .. pendingLen - 1
      BY <1>1, <2>3
    <3>2. GetPending[i] = pendingQueue[i - 1]
      BY <3>1, Window
    <3> QED
      BY <1>10, <2>1, <2>3, <3>1, <3>2
  <2> QED
    BY <2>2, <2>3
<1>13. Append(GetPending, t) =
         [i \in 1 .. pendingLen + 1 |-> IF i = pendingLen + 1 THEN t ELSE GetPending[i]]
  <2>1. PICK s \in Seq(Slot) : s = GetPending
    BY Window
  <2>2. Len(s) = pendingLen
    BY <2>1, Window
  <2>3. Append(s, t) = [i \in 1 .. Len(s) + 1 |-> IF i = Len(s) + 1 THEN t ELSE s[i]]
    BY <1>1, AppendAs
  <2> QED
    BY <2>1, <2>2, <2>3
<1> QED
  BY <1>9, <1>11, <1>12, <1>13
-----------------------------------------------------------------------------
(* Remove.                                                                 *)

\* Compaction closes the gap of the removed task ...
LEMMA CompactStep ==
  ASSUME RingInv, NEW i \in 0 .. pendingLen - 1, Compact(i),
         pendingLen' = pendingLen - 1, taken' \in Slot
  PROVE  /\ RingInv'
         /\ pendingQueue' = [j \in 0 .. pendingLen - 2 |->
                               IF j < i THEN pendingQueue[j] ELSE pendingQueue[j + 1]]
<1>1. /\ pendingLen \in Nat
      /\ pendingLen \in 0 .. pendingCap
      /\ pendingQueue \in [0 .. pendingCap - 1 -> Slot]
      /\ pendingCap \in Nat
  BY DEF RingInv, TypeOK
<1>2. i < pendingLen - 1 /\ i \in Nat
  BY <1>1 DEF Compact
<1>3. \A j \in 0 .. pendingLen - 2 :
        /\ At(j) = pendingQueue[j] /\ At(j + 1) = pendingQueue[j + 1]
        /\ pendingQueue[j] \in Slot /\ pendingQueue[j + 1] \in Slot
  <2> TAKE j \in 0 .. pendingLen - 2
  <2>1. j \in 0 .. pendingLen - 1 /\ j + 1 \in 0 .. pendingLen - 1
    BY <1>1
  <2> QED
    BY <1>1, <2>1, WindowAt
<1>4. pendingQueue' = [j \in 0 .. pendingLen - 2 |->
                         IF j < i THEN pendingQueue[j] ELSE pendingQueue[j + 1]]
  BY <1>3 DEF Compact
<1>5. pendingQueue' \in [0 .. pendingLen - 2 -> Slot]
  BY <1>3, <1>4
<1>6. /\ pendingHead' = 0
      /\ pendingTail' = pendingLen - 1
      /\ pendingCap' = pendingLen - 1
  BY DEF Compact
<1>7. RingInv'
  BY <1>1, <1>2, <1>5, <1>6 DEF RingInv, TypeOK
<1> QED
  BY <1>4, <1>7

\* ... and stepping the tail back shortens the window by its last task.
LEMMA DropLastStep ==
  ASSUME RingInv, NEW i \in 0 .. pendingLen - 1, DropLast(i),
         pendingLen' = pendingLen - 1, taken' \in Slot
  PROVE  /\ RingInv'
         /\ i = pendingLen - 1
         /\ pendingQueue' = pendingQueue
<1>1. /\ pendingCap \in Nat \ {0}
      /\ pendingLen \in 0 .. pendingCap
      /\ pendingLen \in Nat \ {0}
      /\ i = pendingLen - 1
  BY DEF RingInv, TypeOK, DropLast
<1>2. (pendingTail - 1 + pendingCap) % pendingCap = pendingLen - 1
  <2>1. pendingLen - 1 \in 0 .. pendingCap - 1
    BY <1>1
  <2>2. CASE pendingLen < pendingCap
    <3>1. pendingTail - 1 + pendingCap = (pendingLen - 1) + pendingCap
      BY <1>1, <2>2 DEF RingInv
    <3> QED
      BY <1>1, <2>1, <3>1, ModLap
  <2>3. CASE pendingTail = 0 /\ pendingLen = pendingCap
    <3>1. pendingTail - 1 + pendingCap = pendingLen - 1
      BY <1>1, <2>3
    <3> QED
      BY <1>1, <2>1, <3>1, ModSmall
  <2>4. CASE pendingTail = pendingCap /\ pendingLen = pendingCap
    <3>1. pendingTail - 1 + pendingCap = (pendingLen - 1) + pendingCap
      BY <1>1, <2>4
    <3> QED
      BY <1>1, <2>1, <3>1, ModLap
  <2> QED
    BY <1>1, <2>2, <2>3, <2>4 DEF RingInv
<1>3. /\ pendingTail' = pendingLen - 1
      /\ UNCHANGED <<pendingQueue, pendingHead, pendingCap>>
  BY <1>2 DEF DropLast
<1>4. RingInv'
  BY <1>1, <1>3 DEF RingInv, TypeOK
<1> QED
  BY <1>1, <1>3, <1>4

\* The window after a removal is the window before it without that task.
LEMMA RemoveStep ==
  ASSUME RingInv, NEW i \in 0 .. pendingLen - 1, Remove(i)
  PROVE  /\ RingInv'
         /\ GetPending' = List!Without(GetPending, i + 1)
         /\ taken' = GetPending[i + 1]
<1>0. taken' = GetPending[i + 1] /\ taken' \in Slot
  <2>1. /\ pendingLen \in Nat
        /\ pendingLen \in 0 .. pendingCap
        /\ pendingQueue \in [0 .. pendingCap - 1 -> Slot]
    BY DEF RingInv, TypeOK
  <2>2. i + 1 \in 1 .. pendingLen /\ (i + 1) - 1 = i
    BY <2>1
  <2>3. GetPending[i + 1] = pendingQueue[i]
    BY <2>2, Window
  <2>4. taken' = pendingQueue[i] /\ i \in 0 .. pendingCap - 1
    BY WindowAt DEF Remove
  <2> QED
    BY <2>1, <2>3, <2>4
<1>1. /\ pendingLen \in Nat \ {0}
      /\ pendingLen' = pendingLen - 1
      /\ pendingLen \in Int
  BY DEF RingInv, TypeOK, Remove
<1>2. /\ RingInv'
      /\ \A j \in 0 .. pendingLen - 2 :
           pendingQueue'[j] = IF j < i THEN pendingQueue[j] ELSE pendingQueue[j + 1]
  <2>1. CASE Compact(i)
    BY <1>0, <1>1, <2>1, CompactStep
  <2>2. CASE DropLast(i)
    BY <1>0, <1>1, <2>2, DropLastStep
  <2> QED
    BY <2>1, <2>2 DEF Remove
<1>3. GetPending' = [j \in 1 .. pendingLen - 1 |-> pendingQueue'[j - 1]]
  <2>1. RingInv'
    BY <1>2
  <2>2. (GetPending = [j \in 1 .. pendingLen |-> pendingQueue[j - 1]])'
    BY <2>1, Window, PTL
  <2> QED
    BY <1>1, <2>2
<1>4. \A j \in 1 .. pendingLen - 1 :
        pendingQueue'[j - 1] = IF j < i + 1 THEN GetPending[j] ELSE GetPending[j + 1]
  <2> TAKE j \in 1 .. pendingLen - 1
  <2>1. /\ j - 1 \in 0 .. pendingLen - 2
        /\ j \in 1 .. pendingLen
        /\ j + 1 \in 1 .. pendingLen
        /\ j < i + 1 <=> j - 1 < i
        /\ (j + 1) - 1 = (j - 1) + 1
    BY <1>1
  <2>2. /\ GetPending[j] = pendingQueue[j - 1]
        /\ GetPending[j + 1] = pendingQueue[(j + 1) - 1]
    BY <2>1, Window
  <2> QED
    BY <1>2, <2>1, <2>2
<1>5. List!Without(GetPending, i + 1) =
        [j \in 1 .. pendingLen - 1 |-> IF j < i + 1 THEN GetPending[j] ELSE GetPending[j + 1]]
  BY Window DEF List!Without
<1> QED
  BY <1>0, <1>2, <1>3, <1>4, <1>5
-----------------------------------------------------------------------------
(* Theorems.                                                               *)

\* The ring NewTaskQueue makes satisfies the invariant ...
LEMMA RingInvInit == Init => RingInv
  BY PendingRingAssumption DEF Init, RingInv, TypeOK, Slot

\* ... every operation keeps it ...
LEMMA RingInvStep == RingInv /\ [Next]_ringVars => RingInv'
<1> SUFFICES ASSUME RingInv, [Next]_ringVars
             PROVE  RingInv'
  OBVIOUS
<1>1. ASSUME NEW t \in Tasks, Submit(t) PROVE RingInv'
  BY <1>1, SubmitStep
<1>2. ASSUME NEW i \in 0 .. pendingLen - 1, Remove(i) PROVE RingInv'
  BY <1>2, RemoveStep
<1>3. CASE UNCHANGED ringVars
  BY <1>3 DEF ringVars, RingInv, TypeOK
<1> QED
  BY <1>1, <1>2, <1>3 DEF Next

\* ... so it holds in every reachable state.
LEMMA RingInvAlways == Spec => []RingInv
  BY RingInvInit, RingInvStep, PTL DEF Spec

\* No operation leaves an index outside the array, except a tail one past its
\* end, and Submit writes inside the array and outside the window, whatever
\* was submitted and removed before.
THEOREM TailIsFreeAlways == Spec => []TailIsFree
<1>1. RingInv => TailIsFree
  <2> SUFFICES ASSUME RingInv, pendingLen < pendingCap
               PROVE  /\ pendingTail < pendingCap
                      /\ \A i \in 0 .. pendingLen - 1 :
                           (pendingHead + i) % pendingCap # pendingTail
    BY DEF TailIsFree, RingInv
  <2>1. /\ pendingTail = pendingLen
        /\ pendingHead = 0
        /\ pendingCap \in Nat \ {0}
        /\ pendingLen \in 0 .. pendingCap
    BY DEF RingInv, TypeOK
  <2>2. ASSUME NEW i \in 0 .. pendingLen - 1
        PROVE  (pendingHead + i) % pendingCap # pendingTail
    <3>1. i \in 0 .. pendingCap - 1 /\ pendingHead + i = i /\ i # pendingLen
      BY <2>1
    <3>2. i % pendingCap = i
      BY <2>1, <3>1, ModSmall
    <3> QED
      BY <2>1, <3>1, <3>2
  <2> QED
    BY <2>1, <2>2
<1> QED
  BY <1>1, RingInvAlways, PTL

\* GetPending always returns the pending tasks in submission order: growth,
\* compaction and stepping back implement a list.
THEOREM RingImplementsList == Spec => ImplementsList
<1>1. Init => List!Init
  <2> SUFFICES ASSUME Init
               PROVE  GetPending = << >> /\ taken = NoTask
    BY DEF List!Init
  <2>1. RingInv /\ pendingLen = 0
    BY RingInvInit DEF Init
  <2>2. GetPending \in Seq(Slot) /\ Len(GetPending) = 0
    BY <2>1, Window
  <2> QED
    BY <2>2, EmptySeq DEF Init
<1>2. RingInv /\ [Next]_ringVars => [List!Next]_(List!listVars)
  <2> SUFFICES ASSUME RingInv, [Next]_ringVars
               PROVE  [List!Next]_(List!listVars)
    OBVIOUS
  <2>1. ASSUME NEW t \in Tasks, Submit(t) PROVE List!Next
    BY <2>1, SubmitStep DEF List!Next, List!Submit, Submit
  <2>2. ASSUME NEW i \in 0 .. pendingLen - 1, Remove(i) PROVE List!Next
    <3>1. pendingLen \in Nat
      BY DEF RingInv, TypeOK
    <3>2. i + 1 \in DOMAIN GetPending
      BY <3>1, Window
    <3>3. List!Remove(i + 1)
      BY <2>2, RemoveStep DEF List!Remove
    <3> QED
      BY <3>2, <3>3 DEF List!Next
  <2>3. CASE UNCHANGED ringVars
    BY <2>3 DEF ringVars, GetPending, At, List!listVars
  <2> QED
    BY <2>1, <2>2, <2>3 DEF Next
<1> QED
  BY <1>1, <1>2, RingInvAlways, PTL DEF Spec, ImplementsList, List!Spec
=============================================================================
